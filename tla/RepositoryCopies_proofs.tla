---------------------- MODULE RepositoryCopies_proofs ----------------------
(***************************************************************************)
(* Theorems on the copies of a repository, for all files, sessions,        *)
(* requests and downloads: the local copy follows the bucket, what is      *)
(* stored is what the last change was to leave, and the commit history     *)
(* ends with it.                                                           *)
(***************************************************************************)
EXTENDS RepositoryContents_proofs

----------------------------------------------------------------------------
(* What a step of a worker does: it stays where it is, stops, sets out,      *)
(* takes a file, has them all, stores them, or enters them in the index.     *)
Unaltered == UNCHANGED <<diskVars, bucketVars, model, intended>>
Stays(d) == downloads'[d].pc = downloads[d].pc /\ downloads'[d].cancel = downloads[d].cancel /\ Unaltered
Halts(d) ==
    /\ downloads[d].pc # "index" /\ downloads'[d].pc = "none"
    /\ IF downloads[d].pc = "sync" THEN "failed" \in strays' ELSE Unaltered
    /\ downloads[d].pc = "fetching" /\ model # NoModel => "failed" \in strays'
SetsOut(d) ==
    /\ downloads[d].pc = "submitted" /\ downloads'[d].pc = "fetching" /\ label' = "downloading"
    /\ ~downloads[d].cancel /\ ~downloads'[d].cancel /\ UNCHANGED <<folder, parts, bucketVars, model, intended>>
    /\ strays' = strays \union (IF row # "none" THEN {"late"} ELSE {}) \union (IF AtWork THEN {"update"} ELSE {})
Takes(d) ==
    /\ downloads[d].pc = "fetching" /\ ~downloads[d].cancel /\ downloads' = downloads
    /\ \E f \in Files : ~Arrived(f) /\ folder' = Over([x \in {f} |-> Hub], folder)
    /\ UNCHANGED <<parts, label, bucketVars, model, intended>>
HasAll(d) ==
    /\ downloads[d].pc = "fetching" /\ downloads'[d].pc = "sync" /\ ~downloads[d].cancel /\ ~downloads'[d].cancel
    /\ \A f \in Files : Arrived(f)
    /\ label' = "open" /\ UNCHANGED <<folder, parts, bucketVars, model, intended>>
Syncs(d) ==
    /\ downloads[d].pc = "sync" /\ downloads'[d].pc = "index" /\ downloads'[d].cancel = downloads[d].cancel
    /\ IF place = "disk" THEN UNCHANGED bucketVars ELSE label \in Complete /\ bucket' = folder /\ manifest' = label
    /\ UNCHANGED <<diskVars, model>> /\ intended' = folder
Indexes(d) ==
    /\ downloads[d].pc = "index" /\ downloads'[d].pc = "finish" /\ downloads'[d].cancel = downloads[d].cancel
    /\ IndexPath /\ UNCHANGED <<diskVars, bucketVars, intended>>
OthersStay(d) == DOMAIN downloads' = DOMAIN downloads /\ \A e \in DOMAIN downloads \ {d} : downloads'[e] = downloads[e]

LEMMA WorkerTurns ==
    ASSUME downloads \in [1 .. MaxDownloads -> Download], NEW d \in DOMAIN downloads, Worker(d)
    PROVE  /\ OthersStay(d) /\ UNCHANGED <<req, row>>
           /\ Stays(d) \/ Halts(d) \/ SetsOut(d) \/ Takes(d) \/ HasAll(d) \/ Syncs(d) \/ Indexes(d)
<1>1. UNCHANGED <<req, row>>
  BY WorkerRequests
<1>2. ASSUME NEW new, downloads' = [downloads EXCEPT ![d] = new] PROVE OthersStay(d) /\ downloads'[d] = new
  BY <1>2 DEF OthersStay
<1>3. CASE Prepare(d)
  <2>1. CASE (Stops(d, "cancelled") \/ Stops(d, "failed")) /\ UNCHANGED label
    <3>1. OthersStay(d) /\ downloads'[d].pc = "none" /\ downloads[d].pc = "submitted"
      BY <1>3, <2>1, StopsOne DEF OthersStay, Prepare, Working
    <3>2. Unaltered
      BY <1>3, <2>1 DEF Prepare, Unaltered, diskVars
    <3> QED BY <1>1, <3>1, <3>2 DEF Halts
  <2>2. CASE ~((Stops(d, "cancelled") \/ Stops(d, "failed")) /\ UNCHANGED label)
    <3> DEFINE new == [downloads[d] EXCEPT !.pc = "fetching", !.status = "preparing"]
    <3>1. /\ downloads' = [downloads EXCEPT ![d] = new] /\ downloads[d].pc = "submitted"
          /\ label' = "downloading" /\ ~downloads[d].cancel /\ UNCHANGED <<folder, parts, bucketVars, model, intended>>
          /\ strays' = strays \union (IF row # "none" THEN {"late"} ELSE {}) \union (IF AtWork THEN {"update"} ELSE {})
      BY <1>3, <2>2 DEF Prepare, Working
    <3>2. new.pc = "fetching" /\ new.cancel = downloads[d].cancel
      BY DEF Download
    <3> HIDE DEF new
    <3>3. OthersStay(d) /\ downloads'[d].pc = "fetching" /\ downloads'[d].cancel = downloads[d].cancel
      BY <1>2, <3>1, <3>2
    <3> QED BY <1>1, <3>1, <3>3 DEF SetsOut
  <2> QED BY <2>1, <2>2
<1>4. CASE \E f \in Files : FetchFile(d, f)
  BY <1>1, <1>4 DEF FetchFile, Working, Takes, OthersStay, ghosts
<1>5. CASE MonitorLooks(d) \/ MonitorWrites(d)
  <2>1. PICK new \in {[downloads[d] EXCEPT !.monitor = TRUE], [downloads[d] EXCEPT !.monitor = FALSE, !.status = "downloading"]} :
          downloads' = [downloads EXCEPT ![d] = new]
    BY <1>5 DEF MonitorLooks, MonitorWrites, Download
  <2>2. new.pc = downloads[d].pc /\ new.cancel = downloads[d].cancel
    BY DEF Download
  <2>3. Unaltered
    BY <1>5 DEF MonitorLooks, MonitorWrites, Unaltered, ghosts
  <2> QED BY <1>1, <1>2, <2>1, <2>2, <2>3 DEF Stays
<1>6. CASE Fetched(d)
  <2> DEFINE end == IF downloads[d].cancel THEN "cancelled" ELSE "failed"
             told == strays \union Left(d) \union (IF model # NoModel THEN {"failed"} ELSE {})
  <2>1. CASE Stops(d, end) /\ UNCHANGED label /\ strays' = told
    <3>1. OthersStay(d) /\ downloads'[d].pc = "none" /\ downloads[d].pc = "fetching"
      BY <1>6, <2>1, StopsOne DEF OthersStay, Fetched, Working
    <3>2. Unaltered /\ (model # NoModel => "failed" \in strays')
      BY <1>6, <2>1 DEF Fetched, Unaltered, diskVars
    <3> QED BY <1>1, <3>1, <3>2 DEF Halts
  <2>2. CASE ~(Stops(d, end) /\ UNCHANGED label /\ strays' = told)
    <3> DEFINE new == [downloads[d] EXCEPT !.pc = "sync"]
    <3>1. /\ downloads' = [downloads EXCEPT ![d] = new] /\ ~downloads[d].cancel /\ downloads[d].pc = "fetching"
          /\ label' = "open" /\ UNCHANGED <<folder, parts, bucketVars, model, intended>> /\ \A f \in Files : Arrived(f)
      BY <1>6, <2>2 DEF Fetched, Working
    <3>2. new.pc = "sync" /\ new.cancel = downloads[d].cancel
      BY DEF Download
    <3> HIDE DEF new
    <3>3. OthersStay(d) /\ downloads'[d].pc = "sync" /\ ~downloads'[d].cancel
      BY <1>2, <3>1, <3>2
    <3> QED BY <1>1, <3>1, <3>3 DEF HasAll
  <2> QED BY <2>1, <2>2
<1>7. CASE SyncDownload(d)
  <2>1. CASE Stops(d, "failed") /\ Strays("failed", TRUE)
    <3>1. OthersStay(d) /\ downloads'[d].pc = "none" /\ downloads[d].pc = "sync" /\ "failed" \in strays'
      BY <1>7, <2>1, StopsOne DEF OthersStay, SyncDownload, Working, Strays
    <3> QED BY <1>1, <3>1 DEF Halts
  <2>2. CASE ~(Stops(d, "failed") /\ Strays("failed", TRUE))
    <3> DEFINE new == [downloads[d] EXCEPT !.pc = "index"]
    <3>1. /\ downloads' = [downloads EXCEPT ![d] = new] /\ UNCHANGED <<diskVars, model>> /\ downloads[d].pc = "sync"
          /\ intended' = folder
          /\ IF place = "disk" THEN UNCHANGED bucketVars ELSE label \in Complete /\ bucket' = folder /\ manifest' = label
      BY <1>7, <2>2 DEF SyncDownload, Working
    <3>2. new.pc = "index" /\ new.cancel = downloads[d].cancel
      BY DEF Download
    <3> HIDE DEF new
    <3>3. OthersStay(d) /\ downloads'[d].pc = "index" /\ downloads'[d].cancel = downloads[d].cancel
      BY <1>2, <3>1, <3>2
    <3> QED BY <1>1, <3>1, <3>3 DEF Syncs
  <2> QED BY <2>1, <2>2
<1>8. CASE IndexDownload(d)
  <2> DEFINE new == [downloads[d] EXCEPT !.pc = "finish"]
  <2>1. downloads' = [downloads EXCEPT ![d] = new] /\ downloads[d].pc = "index" /\ IndexPath
      /\ UNCHANGED <<diskVars, bucketVars, intended>>
    BY <1>8 DEF IndexDownload, Working, ghosts
  <2>2. new.pc = "finish" /\ new.cancel = downloads[d].cancel
    BY DEF Download
  <2> HIDE DEF new
  <2> QED BY <1>1, <1>2, <2>1, <2>2 DEF Indexes
<1>9. CASE FinishDownload(d)
  <2> DEFINE new == [downloads[d] EXCEPT !.pc = "none", !.cancel = FALSE, !.status = "complete"]
  <2>1. downloads' = [downloads EXCEPT ![d] = new] /\ UNCHANGED <<diskVars, bucketVars, model, intended>> /\ downloads[d].pc = "finish"
    BY <1>9 DEF FinishDownload, Working, ghosts
  <2>2. new.pc = "none"
    BY DEF Download
  <2> HIDE DEF new
  <2> QED BY <1>1, <1>2, <2>1, <2>2 DEF Halts, Unaltered
<1> QED BY <1>3, <1>4, <1>5, <1>6, <1>7, <1>8, <1>9 DEF Worker

LEMMA HubTurns ==
    ASSUME req \in [Handlers -> Request], downloads \in [1 .. MaxDownloads -> Download], CancelsKnown,
           NEW h \in Handlers, FromTheHub(h)
    PROVE  /\ DOMAIN downloads' = DOMAIN downloads
           /\ \A d \in DOMAIN downloads :
                \/ /\ downloads'[d].pc = downloads[d].pc
                   /\ downloads'[d].cancel = downloads[d].cancel
                        \/ (CancelFolder(h) /\ downloads'[d].cancel = (downloads[d].pc # "none"))
                \/ downloads[d].pc = "none" /\ downloads'[d].pc = "submitted"
           /\ Starts(h, "enqueue") \/ Starts(h, "cancel") \/ Moves(h, "cancel_row") \/ Rests(h)
           /\ UNCHANGED <<folder, parts, bucketVars, row, model, intended>>
           /\ \/ UNCHANGED label
              \/ /\ CancelFolder(h) /\ FolderExists /\ label' = "cancelled" /\ req[h].job \in DOMAIN downloads
                 /\ model # NoModel => "failed" \in strays'
                 /\ \/ "cancel" \in strays'
                    \/ downloads[req[h].job].pc = "fetching" /\ \A e \in DOMAIN downloads : downloads[e].pc \notin FetchedSteps
<1>1. Starts(h, "enqueue") \/ Starts(h, "cancel") \/ Moves(h, "cancel_row") \/ Rests(h)
  BY FromTheHubTurns DEF FromTheHub
<1>2. UNCHANGED <<folder, parts, bucketVars, row, model, intended>>
  BY DEF FromTheHub, StartDownload, Enqueue, Cancel, CancelFolder, CancelRow, diskVars, ghosts
<1>3. ~CancelFolder(h) => UNCHANGED label
  BY DEF FromTheHub, StartDownload, Enqueue, Cancel, CancelRow, diskVars
<1>4. CancelFolder(h) =>
        \/ UNCHANGED label
        \/ /\ FolderExists /\ label' = "cancelled" /\ req[h].job \in DOMAIN downloads
           /\ model # NoModel => "failed" \in strays'
           /\ \/ "cancel" \in strays'
              \/ downloads[req[h].job].pc = "fetching" /\ \A e \in DOMAIN downloads : downloads[e].pc \notin FetchedSteps
  BY DEF CancelFolder, Strays, CancelsKnown, At, CancelSteps
<1>5. /\ DOMAIN downloads' = DOMAIN downloads
      /\ \A d \in DOMAIN downloads :
            \/ /\ downloads'[d].pc = downloads[d].pc
               /\ downloads'[d].cancel = downloads[d].cancel
                    \/ (CancelFolder(h) /\ downloads'[d].cancel = (downloads[d].pc # "none"))
            \/ downloads[d].pc = "none" /\ downloads'[d].pc = "submitted"
  <2>1. CASE Enqueue(h)
    <3> DEFINE started == [NoDownload EXCEPT !.status = "queued", !.pc = "submitted"]
    <3>1. PICK d \in DOMAIN downloads : downloads[d] = NoDownload /\ downloads' = [downloads EXCEPT ![d] = started]
      BY <2>1 DEF Enqueue
    <3>2. started.pc = "submitted" /\ downloads[d].pc = "none"
      BY <3>1 DEF NoDownload
    <3> HIDE DEF started
    <3> QED BY <3>1, <3>2, StoppedOrMoved
  <2>2. CASE CancelFolder(h)
    <3> DEFINE d == req[h].job
               told == downloads[d].pc # "none"
               new == [downloads[d] EXCEPT !.cancel = told]
    <3>1. d \in DOMAIN downloads
      BY <2>2 DEF CancelsKnown, CancelFolder, At, CancelSteps
    <3>2. new.pc = downloads[d].pc /\ new.cancel = told
      BY <3>1 DEF Download
    <3>3. downloads' = [downloads EXCEPT ![d] = new]
      BY <2>2, <3>1 DEF CancelFolder
    <3>4. downloads'[d].pc = downloads[d].pc /\ downloads'[d].cancel = (downloads[d].pc # "none")
      BY <3>1, <3>2, <3>3
    <3> HIDE DEF new
    <3>5. DOMAIN downloads' = DOMAIN downloads /\ \A e \in DOMAIN downloads \ {d} : downloads'[e] = downloads[e]
      BY <3>3
    <3> QED BY <2>2, <3>4, <3>5
  <2>3. CASE CancelRow(h)
    <3> DEFINE d == req[h].job
               new == [downloads[d] EXCEPT !.status = "cancelled"]
    <3>1. d \in DOMAIN downloads
      BY <2>3 DEF CancelsKnown, CancelRow, At, CancelSteps
    <3>2. new.pc = downloads[d].pc /\ new.cancel = downloads[d].cancel
      BY <3>1 DEF Download
    <3>3. downloads' = [downloads EXCEPT ![d] = new]
      BY <2>3, <3>1 DEF CancelRow
    <3> HIDE DEF new
    <3> QED BY <3>1, <3>2, <3>3, StoppedOrMoved
  <2>4. CASE StartDownload(h) \/ \E d \in DOMAIN downloads : Cancel(h, d)
    BY <2>4 DEF StartDownload, Cancel
  <2> QED BY <2>1, <2>2, <2>3, <2>4 DEF FromTheHub
<1> QED BY <1>1, <1>2, <1>3, <1>4, <1>5

----------------------------------------------------------------------------
(* The copy follows the bucket.                                              *)
Unsettling == {"failed", "restart", "abort", "restore", "evict", "scan", "update", "late", "cancel"}
Calm == ~Except(Unsettling)
Cached == Calm /\ place # "disk"

LEMMA CalmBefore ==
    ASSUME strays \subseteq strays', UNCHANGED place, Calm'
    PROVE  Calm /\ Timely /\ Orderly /\ strays' \intersect Unsettling = {}
BY DEF Calm, Timely, Orderly, Except, Unsettling

(* While a worker goes on, requests that would alter something wait.         *)
LEMMA WorkerCounts ==
    ASSUME WorkersCounted, RowInv, SomeGoes
    PROVE  ActiveDownload /\ WorkerRuns /\ row = "none" /\ Labelled
<1>1. PICK d \in DOMAIN downloads : Going(d)
  BY DEF SomeGoes
<1>2. downloads[d].status \in Downloading
  BY <1>1 DEF WorkersCounted, Going, FetchedSteps
<1>3. ActiveDownload /\ WorkerRuns
  BY <1>1, <1>2 DEF ActiveDownload, WorkerRuns, Going, FetchedSteps
<1>4. row = "none" /\ Labelled
  BY <1>1 DEF RowInv, WorkersRow, Going, FetchedSteps
<1> QED BY <1>3, <1>4

CacheFree == {"idle", "scan", "scan_list", "scan_index", "scan_commit", "scan_local", "sweep",
              "restore", "restore_index", "evict", "evict_index"}
LEMMA CacheStaysFree ==
    ASSUME req \in [Handlers -> Request], NEW h \in Handlers, NEW downloading, NEW fetching, Cache(h, downloading, fetching)
    PROVE  Kept(h) /\ req'[h].pc \in CacheFree /\ UNCHANGED <<bucketVars, row>>
<1>1. /\ Scan(h) \/ Restore(h, downloading) \/ Evict(h, downloading) => Kept(h) /\ req'[h].pc \in CacheFree
      /\ ScanFolder(h, fetching) \/ ScanIndex(h) \/ ScanCommit(h) \/ ScanLocal(h) => Kept(h) /\ req'[h].pc \in CacheFree
      /\ RestoreFiles(h) \/ RestoreIndex(h) \/ EvictIndex(h) => Kept(h) /\ req'[h].pc \in CacheFree
      /\ ScanList(h) \/ EvictFolder(h, fetching) => Kept(h) /\ req'[h].pc \in CacheFree
  BY CacheTurns DEF Starts, Moves, Rests, CacheFree
<1>2. UNCHANGED <<bucketVars, row>>
  BY DEF Cache, Scan, ScanFolder, ScanList, ScanIndex, ScanCommit, ScanLocal, Restore, RestoreFiles,
         RestoreIndex, Evict, EvictFolder, EvictIndex
<1> QED BY <1>1, <1>2 DEF Cache

(* A worker that goes on alters a folder that has a label, alone, and what   *)
(* it finds complete it has no more to fetch.                                *)
WorkInv ==
    /\ SomeGoes => ~Within(AlteringSteps)
    /\ \A d \in DOMAIN downloads :
         /\ Going(d) => label # "none"
         /\ Going(d) /\ downloads[d].pc = "fetching" /\ label \in Complete => \A f \in Files : Arrived(f)
         /\ downloads[d].pc \in FetchedSteps => ~downloads[d].cancel

LEMMA WorkKept ==
    ASSUME WorkInv, UNCHANGED downloads, SomeGoes => ~Within(AlteringSteps)' /\ UNCHANGED <<folder, label>>
    PROVE  WorkInv'
<1>1. SomeGoes' = SomeGoes /\ \A d \in DOMAIN downloads : Going(d)' = Going(d)
  BY DEF SomeGoes, Going
<1>2. \A d \in DOMAIN downloads : Going(d) => SomeGoes
  BY DEF SomeGoes
<1> QED BY <1>1, <1>2 DEF WorkInv, Arrived

LEMMA CacheKeepsWork ==
    ASSUME LibraryTypeOK, WorkInv, NEW h \in Handlers, Cache(h, ActiveDownload, WorkerRuns), UNCHANGED downloads,
           strays' \intersect Unsettling = {}, SomeGoes => WorkerRuns
    PROVE  WorkInv'
<1> SUFFICES ASSUME SomeGoes PROVE ~Within(AlteringSteps)' /\ UNCHANGED <<folder, label>>
  BY WorkKept
<1>1. Kept(h) /\ req'[h].pc \in CacheFree
  BY CacheStaysFree DEF LibraryTypeOK
<1>2. ~Within(AlteringSteps)'
  BY <1>1 DEF WorkInv, Within, Kept, CacheFree, AlteringSteps, StoringSteps, PublishingSteps, RemovingSteps, WaitingSteps
<1>3. label # "none"
  BY DEF WorkInv, SomeGoes
<1>4. UNCHANGED <<folder, label>>
  <2>1. ~RestoreFiles(h)
    BY <1>3 DEF RestoreFiles, Strays, FolderExists, Unsettling
  <2>2. EvictFolder(h, WorkerRuns) => UNCHANGED <<folder, label>>
    BY DEF EvictFolder, Strays, Unsettling, diskVars
  <2> QED BY <2>1, <2>2 DEF Cache, Scan, ScanFolder, ScanList, ScanIndex, ScanCommit, ScanLocal, Restore, RestoreIndex,
              Evict, EvictIndex, diskVars
<1> QED BY <1>2, <1>4

LEMMA FromTheHubKeepsWork ==
    ASSUME LibraryTypeOK, DownloadsTypeOK, WorkInv, NEW h \in Handlers, FromTheHub(h), CancelsKnown,
           strays' \intersect Unsettling = {}
    PROVE  WorkInv'
<1>1. req \in [Handlers -> Request] /\ downloads \in [1 .. MaxDownloads -> Download]
  BY DEF LibraryTypeOK, DownloadsTypeOK
<1>2. Kept(h) /\ req'[h].pc \in {"idle", "enqueue", "cancel", "cancel_row"}
  BY <1>1, HubTurns DEF Starts, Moves, Rests
<1>3. ~Within(AlteringSteps) => ~Within(AlteringSteps)'
  BY <1>2 DEF Within, Kept, AlteringSteps, StoringSteps, PublishingSteps, RemovingSteps, WaitingSteps
<1>4. /\ DOMAIN downloads' = DOMAIN downloads
      /\ \A d \in DOMAIN downloads :
            \/ /\ downloads'[d].pc = downloads[d].pc
               /\ downloads'[d].cancel = downloads[d].cancel
                    \/ (CancelFolder(h) /\ downloads'[d].cancel = (downloads[d].pc # "none"))
            \/ downloads[d].pc = "none" /\ downloads'[d].pc = "submitted"
  BY <1>1, HubTurns
<1>5. (\E d \in DOMAIN downloads : downloads[d].pc \in FetchedSteps) => ~CancelFolder(h)
  BY DEF WorkInv, Going, CancelFolder, Strays, FolderExists, Unsettling
<1>6. \A d \in DOMAIN downloads : Going(d)' => Going(d) /\ downloads'[d].pc = downloads[d].pc
  BY <1>4 DEF Going, FetchedSteps
<1>7. SomeGoes' => SomeGoes
  BY <1>4, <1>6 DEF SomeGoes
<1>8. UNCHANGED folder /\ (UNCHANGED label \/ label' = "cancelled")
  BY <1>1, HubTurns
<1>9. \A d \in DOMAIN downloads : downloads'[d].pc \in FetchedSteps => ~downloads'[d].cancel
  BY <1>4, <1>5 DEF WorkInv, FetchedSteps
<1> QED BY <1>3, <1>4, <1>6, <1>7, <1>8, <1>9 DEF WorkInv, Arrived, Complete

LEMMA WorkerKeepsWork ==
    ASSUME LibraryTypeOK, DownloadsTypeOK, WorkInv, NEW d \in DOMAIN downloads, Worker(d), strays' \intersect Unsettling = {}
    PROVE  WorkInv'
<1>1. downloads \in [1 .. MaxDownloads -> Download]
  BY DEF DownloadsTypeOK
<1>2. /\ DOMAIN downloads' = DOMAIN downloads /\ \A e \in DOMAIN downloads \ {d} : downloads'[e] = downloads[e]
      /\ UNCHANGED req
  BY <1>1, WorkerTurns DEF OthersStay
<1>3. Within(AlteringSteps)' = Within(AlteringSteps)
  BY <1>2 DEF Within
<1>4. ASSUME UNCHANGED <<folder, label>>, Going(d)' => Going(d) /\ (downloads'[d].pc = "fetching" => downloads[d].pc = "fetching"),
             downloads'[d].pc \in FetchedSteps => ~downloads'[d].cancel
      PROVE  WorkInv'
  <2>1. \A e \in DOMAIN downloads : Going(e)' => Going(e) /\ (downloads'[e].pc = "fetching" => downloads[e].pc = "fetching")
    BY <1>2, <1>4 DEF Going
  <2>2. SomeGoes' => SomeGoes
    BY <1>2, <2>1 DEF SomeGoes
  <2> QED BY <1>2, <1>3, <1>4, <2>1, <2>2 DEF WorkInv, Arrived
<1>5. CASE Stays(d)
  BY <1>4, <1>5 DEF Going, WorkInv, Stays, Unaltered, diskVars
<1>6. CASE Halts(d)
  BY <1>4, <1>6 DEF Going, FetchedSteps, Halts, Unaltered, Unsettling, diskVars
<1>7. CASE SetsOut(d)
  <2>1. ~Within(AlteringSteps)
    BY <1>7 DEF SetsOut, Unsettling, AtWork, Within, AlteringSteps
  <2> QED BY <1>2, <1>3, <1>7, <2>1 DEF SetsOut, WorkInv, Complete, FetchedSteps
<1>8. CASE Takes(d)
  <2>1. Going(d) /\ label \notin Complete
    BY <1>8 DEF Takes, Going, WorkInv
  <2> QED BY <1>3, <1>8, <2>1 DEF Takes, WorkInv, SomeGoes, Going
<1>9. CASE HasAll(d)
  <2>1. SomeGoes
    BY <1>9 DEF HasAll, SomeGoes, Going
  <2> QED BY <1>2, <1>3, <1>9, <2>1 DEF HasAll, WorkInv, Arrived
<1>10. CASE Syncs(d) \/ Indexes(d)
  BY <1>4, <1>10 DEF Syncs, Indexes, Going, WorkInv, FetchedSteps, diskVars
<1> QED BY <1>1, <1>5, <1>6, <1>7, <1>8, <1>9, <1>10, WorkerTurns

LEMMA WorkStep ==
    ASSUME LifeInv, PlaceInv, Timely => RowInv, Calm => WorkInv, [Next]_vars
    PROVE  Calm' => WorkInv'
<1>1. /\ LibraryTypeOK /\ DownloadsTypeOK /\ StatePlaced /\ CancelsKnown /\ WorkersCounted
      /\ req \in [Handlers -> Request] /\ downloads \in [1 .. MaxDownloads -> Download]
  BY DEF LifeInv, TypeOK, LibraryTypeOK, DownloadsTypeOK, PlaceInv, DownloadsInv
<1> SUFFICES ASSUME Calm' PROVE WorkInv'
  OBVIOUS
<1>2. Calm /\ WorkInv /\ RowInv /\ strays' \intersect Unsettling = {} /\ "update" \notin strays'
  BY StraysGrow, CalmBefore DEF Next, vars, Unsettling
<1>3. SomeGoes => ActiveDownload /\ WorkerRuns /\ row = "none" /\ Labelled
  BY <1>1, <1>2, WorkerCounts
<1>4. ASSUME UNCHANGED <<folder, label, downloads, req>> PROVE WorkInv'
  BY <1>2, <1>4, WorkKept DEF WorkInv, Within
<1>5. ASSUME NEW x \in open, PartsSent(x), UNCHANGED downloads PROVE WorkInv'
  BY <1>4, <1>5 DEF PartsSent, requestVars, diskVars
<1>6. ASSUME UNCHANGED vars PROVE WorkInv'
  BY <1>4, <1>6 DEF vars, requestVars, diskVars
<1>7. ASSUME Restart PROVE WorkInv'
  <2>1. DOMAIN downloads' = DOMAIN downloads /\ \A d \in DOMAIN downloads : downloads'[d].pc \in {"none", "submitted"}
    BY <1>7 DEF Restart, Resume, NoDownload
  <2> QED BY <2>1 DEF WorkInv, SomeGoes, Going, FetchedSteps
<1>8. ASSUME NEW h \in Handlers, Cache(h, ActiveDownload, WorkerRuns), UNCHANGED downloads PROVE WorkInv'
  BY <1>1, <1>2, <1>3, <1>8, CacheKeepsWork
<1>9. ASSUME NEW h \in Handlers, Uploading(h, ActiveDownload, WorkerRuns) \/ Changing(h, ActiveDownload), UNCHANGED downloads
      PROVE  WorkInv'
  <2>1. SomeGoes => ~Within(AlteringSteps)' /\ UNCHANGED <<diskVars, bucketVars>>
    BY <1>1, <1>2, <1>3, <1>9, RequestsWait DEF WorkInv
  <2> QED BY <1>2, <1>9, <2>1, WorkKept DEF diskVars
<1>10. ASSUME NEW h \in Handlers, FromTheHub(h) PROVE WorkInv'
  BY <1>1, <1>2, <1>10, FromTheHubKeepsWork
<1>11. ASSUME NEW d \in DOMAIN downloads, Worker(d) PROVE WorkInv'
  BY <1>1, <1>2, <1>11, WorkerKeepsWork
<1> QED BY <1>5, <1>6, <1>7, <1>8, <1>9, <1>10, <1>11 DEF Next

LEMMA WorkStart == Init => WorkInv
<1> SUFFICES ASSUME Init PROVE WorkInv
  OBVIOUS
<1> DEFINE started == [NoDownload EXCEPT !.status = "queued", !.pc = "submitted"]
<1>1. NoDownload.pc = "none" /\ started.pc = "submitted"
  BY DEF NoDownload
<1>2. \A d \in DOMAIN downloads : downloads[d] = NoDownload \/ downloads[d] = started
  BY DEF Init, NewName, Unfinished, Uploaded, Downloaded, Queued, NoDownloads
<1> HIDE DEF started
<1>3. \A d \in DOMAIN downloads : downloads[d].pc \in {"none", "submitted"}
  BY <1>1, <1>2
<1> QED BY <1>3 DEF WorkInv, SomeGoes, Going, FetchedSteps

----------------------------------------------------------------------------
(* What is being finalized has the label of a complete model.                *)
FinalizeSteps == {"finalize_sync", "finalize_index"}
FinalizingInv == Within(FinalizeSteps) => label \in Complete

LEMMA UploadingKeepsFinalizing ==
    ASSUME LibraryTypeOK, LockInv, FinalizingInv, NEW h \in Handlers, Uploading(h, ActiveDownload, WorkerRuns),
           strays' \intersect Unsettling = {}
    PROVE  FinalizingInv'
<1>1. req \in [Handlers -> Request] /\ "late" \notin strays' /\ "failed" \notin strays' /\ Alone(WriteSteps)
  BY DEF LibraryTypeOK, LockInv, Unsettling
<1>2. ASSUME UNCHANGED label, Kept(h), req'[h].pc \in FinalizeSteps => req[h].pc \in FinalizeSteps PROVE FinalizingInv'
  BY <1>2 DEF FinalizingInv, Within, Kept
<1>3. ASSUME ~Within(FinalizeSteps)' PROVE FinalizingInv'
  BY <1>3 DEF FinalizingInv
<1>4. CASE CreateUpload(h)
  <2>1. Rests(h) /\ ~Remembered(h)
    BY <1>1, <1>4, UploadingTurns DEF CreateUpload, Strays
  <2> QED BY <1>3, <2>1 DEF Remembered, Within, Rests, Kept, RememberingSteps, StoringSteps, FinalizeSteps
<1>5. CASE (\E f \in Files : Chunk(h, f)) \/ ChunkWritten(h) \/ BeginRecord(h) \/ CompleteRecord(h) \/ SweepList(h) \/ SweepDiscard(h)
           \/ (\E w \in Sessions \union {Upload}, f \in Files : BeginFile(h, w, f) \/ CompleteFile(h, w, f))
  <2>1. Kept(h) /\ req'[h].pc \notin FinalizeSteps
    BY <1>1, <1>5, UploadingTurns DEF Starts, Rests, FinalizeSteps
  <2>2. UNCHANGED label
    BY <1>5 DEF Chunk, ChunkWritten, BeginRecord, CompleteRecord, SweepList, SweepDiscard, BeginFile, CompleteFile, diskVars
  <2> QED BY <1>2, <2>1, <2>2
<1>6. CASE Finalize(h) \/ FinalizeIndex(h) \/ FinalizeReady(h) \/ Publish(h) \/ PublishIndex(h) \/ PublishReady(h)
  <2>1. Kept(h) /\ req'[h].pc \notin FinalizeSteps
    BY <1>1, <1>6, UploadingTurns DEF Starts, Rests, Moves, FinalizeSteps
  <2>2. UNCHANGED label
    BY <1>6 DEF Finalize, FinalizeIndex, FinalizeReady, Publish, PublishIndex, PublishReady, diskVars
  <2> QED BY <1>2, <2>1, <2>2
<1>7. CASE FinalizeChecked(h)
  BY <1>1, <1>2, <1>7, UploadingTurns DEF FinalizeChecked, FinalizingInv, Complete, Rests, FinalizeSteps
<1>8. CASE FinalizeSync(h)
  <2>1. UNCHANGED label /\ req[h].pc = "finalize_sync"
    BY <1>1, <1>8 DEF FinalizeSync, Strays, At
  <2> QED BY <1>1, <1>2, <1>8, <2>1, UploadingTurns DEF Moves, Rests, FinalizeSteps
<1>9. CASE Delete(h, ActiveDownload) \/ AbortUpload(h) \/ Unpublish(h) \/ UnpublishRows(h) \/ Remove(h, WorkerRuns) \/ Forget(h)
  <2>1. Kept(h) /\ req'[h].pc \notin FinalizeSteps
    BY <1>1, <1>9, UploadingTurns, DeleteTurns DEF Rests, Moves, FinalizeSteps
  <2>2. UNCHANGED label
    BY <1>9 DEF Delete, AbortUpload, Unpublish, UnpublishRows, Remove, Forget, diskVars
  <2> QED BY <1>2, <2>1, <2>2
<1>10. CASE RemoveFolder(h, WorkerRuns)
  <2>1. Moves(h, "forget") /\ req[h].pc = "remove"
    BY <1>1, <1>10, UploadingTurns DEF RemoveFolder, At
  <2>2. \A k \in Handlers : req'[k].pc \notin FinalizeSteps
    BY <1>1, <2>1, LocksOfSteps DEF Alone, Moves, Kept, FinalizeSteps
  <2> QED BY <1>3, <2>2 DEF Within
<1> QED BY <1>4, <1>5, <1>6, <1>7, <1>8, <1>9, <1>10 DEF Uploading

LEMMA ChangingKeepsFinalizing ==
    ASSUME LibraryTypeOK, LockInv, FinalizingInv, NEW h \in Handlers, Changing(h, ActiveDownload),
           strays' \intersect Unsettling = {}
    PROVE  FinalizingInv'
<1>1. req \in [Handlers -> Request] /\ Alone(WriteSteps)
  BY DEF LibraryTypeOK, LockInv
<1>2. ASSUME NEW s \in Sessions, AbortChange(h, s) PROVE FinalizingInv'
  <2>1. UNCHANGED label /\ \A k \in Handlers : req'[k].pc = req[k].pc
    BY <1>1, <1>2, AbortTurns DEF AbortChange, diskVars
  <2> QED BY <2>1 DEF FinalizingInv, Within
<1>3. CASE ~\E s \in Sessions : AbortChange(h, s)
  <2>1. Kept(h) /\ req'[h].pc \notin FinalizeSteps
    BY <1>1, <1>3, ChangingTurns DEF Changing, Rests, Moves, FinalizeSteps
  <2>2. CASE FetchCopy(h)
    <3>1. req[h].pc = "fetch"
      BY <2>2 DEF FetchCopy, At
    <3>2. \A k \in Handlers : req'[k].pc \notin FinalizeSteps
      BY <1>1, <2>1, <3>1, LocksOfSteps DEF Alone, Kept, FinalizeSteps
    <3> QED BY <3>2 DEF FinalizingInv, Within
  <2>3. CASE ~FetchCopy(h)
    <3>1. UNCHANGED label
      BY <1>3, <2>3 DEF Changing, StartChange, StageChunk, Commit, CommitLocks, Apply, Rollback, ApplyRemovals, Store, CommitRemote,
           CommitIndex, CommitRecorded, diskVars
    <3> QED BY <2>1, <3>1 DEF FinalizingInv, Within, Kept
  <2> QED BY <2>2, <2>3
<1> QED BY <1>2, <1>3

LEMMA FinalizingStep ==
    ASSUME LifeInv, LockInv, Timely => RowInv, Calm => FinalizingInv, [Next]_vars
    PROVE  Calm' => FinalizingInv'
<1>1. /\ LibraryTypeOK /\ DownloadsTypeOK /\ CancelsKnown /\ strays \subseteq strays'
      /\ req \in [Handlers -> Request] /\ downloads \in [1 .. MaxDownloads -> Download]
      /\ manifest \in Complete \union {"none"}
  BY StraysGrow DEF LifeInv, TypeOK, DownloadsInv, LibraryTypeOK, DownloadsTypeOK
<1> SUFFICES ASSUME Calm' PROVE FinalizingInv'
  OBVIOUS
<1>2. FinalizingInv /\ RowInv /\ strays' \intersect Unsettling = {}
  BY <1>1, CalmBefore DEF Next, vars
<1>3. row = "none" => ~Within(FinalizeSteps)
  BY <1>2 DEF RowInv, RequestRow, UploadSteps, FinalizingSteps, Within, FinalizeSteps
<1>4. ASSUME UNCHANGED <<label, req>> PROVE FinalizingInv'
  BY <1>2, <1>4 DEF FinalizingInv, Within
<1>5. CASE UNCHANGED vars \/ \E x \in open : PartsSent(x)
  BY <1>4, <1>5 DEF vars, PartsSent, requestVars, diskVars
<1>6. CASE Restart
  BY <1>6 DEF Restart, Idle, FinalizingInv, Within, FinalizeSteps
<1>7. ASSUME NEW h \in Handlers, Cache(h, ActiveDownload, WorkerRuns) PROVE FinalizingInv'
  <2>1. Kept(h) /\ req'[h].pc \notin FinalizeSteps
    BY <1>1, <1>7, CacheStaysFree DEF CacheFree, FinalizeSteps
  <2>2. label' = label \/ label' \in Complete \/ ~Within(FinalizeSteps)'
    <3>1. RestoreFiles(h) => label' \in Complete
      BY <1>1, <1>2 DEF RestoreFiles, Strays, Unsettling
    <3>2. EvictFolder(h, WorkerRuns) => label' = label \/ ~Within(FinalizeSteps)'
      BY <1>1, <1>2, <2>1 DEF EvictFolder, Strays, Unsettling, Others, Within, Kept, FinalizeSteps, Steps, StoringSteps, diskVars
    <3> QED BY <1>7, <3>1, <3>2 DEF Cache, Scan, ScanFolder, ScanList, ScanIndex, ScanCommit, ScanLocal, Restore, RestoreIndex,
                Evict, EvictIndex, diskVars
  <2> QED BY <1>2, <2>1, <2>2 DEF FinalizingInv, Within, Kept
<1>8. ASSUME NEW h \in Handlers, Uploading(h, ActiveDownload, WorkerRuns) \/ Changing(h, ActiveDownload) PROVE FinalizingInv'
  BY <1>1, <1>2, <1>8, UploadingKeepsFinalizing, ChangingKeepsFinalizing
<1>9. ASSUME NEW h \in Handlers, FromTheHub(h) PROVE FinalizingInv'
  <2>1. Kept(h) /\ req'[h].pc \in {"idle", "enqueue", "cancel", "cancel_row"} /\ (UNCHANGED label \/ row = "none")
    <3>1. ~UNCHANGED label => row = "none"
      BY <1>1, <1>2, <1>9, HubTurns DEF Unsettling, RowInv, WorkersRow
    <3> QED BY <1>1, <1>9, <3>1, HubTurns DEF Starts, Moves, Rests
  <2> QED BY <1>2, <1>3, <2>1 DEF FinalizingInv, Within, Kept, FinalizeSteps
<1>10. ASSUME NEW d \in DOMAIN downloads, Worker(d) PROVE FinalizingInv'
  <2>1. UNCHANGED req /\ (UNCHANGED label \/ label' = "open" \/ row = "none")
    BY <1>1, <1>2, <1>10, WorkerTurns
       DEF Stays, Halts, SetsOut, Takes, HasAll, Syncs, Indexes, Unaltered, Unsettling, diskVars
  <2> QED BY <1>2, <1>3, <2>1 DEF FinalizingInv, Within, Complete
<1> QED BY <1>5, <1>6, <1>7, <1>8, <1>9, <1>10 DEF Next

----------------------------------------------------------------------------
(* What is owned has a row; a folder has a label, the one of a complete      *)
(* model once that is ready; nobody has seen what is being published; and    *)
(* what a request has found of the row, the folder and the manifest stays.   *)
OwnedByRow == label = "owned" \/ manifest = "owned" => row # "none"
FolderLabelled == label = "none" => ~FolderExists
ReadyLabelled == row = "ready" \/ Within(ShowingSteps) => label \notin Unready
PublishedFirst == Within({"publish_index"}) => model = NoModel /\ ~FolderExists /\ ~Within(SeenSteps)
RequestShelved(h) ==
    /\ req[h].pc \in {"publish", "publish_index", "publish_ready"} => place = "direct"
    /\ req[h].pc \in {"unpublish", "unpublish_rows"} => row = "uploading"
    /\ req[h].pc = "remove" =>
         IF req[h].kind = "open" THEN row = "none"
         ELSE manifest = "none" /\ (row = "uploading" /\ place = "direct" => Within(ShowingSteps))
    /\ req[h].pc \in CommitSteps /\ req[h].local => label # "none"
    /\ req[h].pc = "fetch" => req[h].local
StateShelved == OwnedByRow /\ FolderLabelled /\ ReadyLabelled /\ PublishedFirst
ShelfInv == StateShelved /\ \A h \in Handlers : RequestShelved(h)

(* An upload that nobody publishes is not seen.                              *)
LEMMA NotYetShown ==
    ASSUME HiddenInv, "failed" \notin strays, row = "uploading", ~Within(ShowingSteps),
           place = "direct" \/ ~Within({"finalize_sync"})
    PROVE  Unshown
BY DEF HiddenInv, Hidden

LEMMA DirectUnshown ==
    ASSUME HiddenInv, RowInv, "failed" \notin strays, row = "uploading", ~Within(ShowingSteps), place = "direct"
    PROVE  label = "none" /\ ~FolderExists /\ manifest = "none" /\ model = NoModel /\ ~Within(SeenSteps)
<1>1. Unshown
  BY NotYetShown
<1>2. ~Within({"finalize_sync"})
  BY DEF RowInv, RequestRow, FinalizingSteps, Within
<1>3. ~FolderExists
  BY <1>1, <1>2 DEF Unshown, LabelInv
<1> QED BY <1>1, <1>3 DEF Unshown, Unseeing, Within, FolderExists

(* The requests beside one that goes on.                                     *)
LEMMA OthersShelved ==
    ASSUME ShelfInv, NEW h \in Handlers, Kept(h), UNCHANGED <<place, row>>, label # "none" => label' # "none",
           manifest' \in {manifest, "none"} \/ ~Others(h, {"remove"}),
           req[h].pc \in ShowingSteps => req'[h].pc \in ShowingSteps
    PROVE  \A k \in Handlers \ {h} : RequestShelved(k)'
<1>1. Within(ShowingSteps) => Within(ShowingSteps)'
  BY DEF Within, Kept
<1> QED BY <1>1 DEF ShelfInv, RequestShelved, Kept, Others

LEMMA ShelfKept ==
    ASSUME ShelfInv, NEW h \in Handlers, Kept(h), UNCHANGED <<place, row, model, diskVars, manifest>>,
           req[h].pc \notin ShowingSteps, req'[h].pc \notin ShowingSteps, RequestShelved(h)',
           req'[h].pc \in SeenSteps => req[h].pc \in SeenSteps \/ model # NoModel
    PROVE  ShelfInv'
<1>1. \A k \in Handlers : RequestShelved(k)'
  BY OthersShelved DEF diskVars
<1>2. (Within(ShowingSteps)' => Within(ShowingSteps)) /\ (Within({"publish_index"})' => Within({"publish_index"}))
  BY DEF Within, Kept, ShowingSteps
<1>3. Within({"publish_index"})' => ~Within(SeenSteps)'
  BY <1>2 DEF ShelfInv, StateShelved, PublishedFirst, Within, Kept
<1> QED BY <1>1, <1>2, <1>3 DEF ShelfInv, StateShelved, OwnedByRow, FolderLabelled, ReadyLabelled, PublishedFirst, FolderExists, diskVars

LEMMA CacheKeepsShelf ==
    ASSUME LibraryTypeOK, RowInv, WorkInv, ShelfInv, NEW h \in Handlers, Cache(h, ActiveDownload, WorkerRuns),
           UNCHANGED <<place, uploadVars, sessionVars, downloads>>, strays' \intersect Unsettling = {}, strays \subseteq strays'
    PROVE  ShelfInv'
<1>1. /\ req \in [Handlers -> Request] /\ StateShelved /\ RequestShelved(h)
      /\ Kept(h) /\ req'[h].pc \in CacheFree /\ UNCHANGED <<bucketVars, row, manifest>>
  BY CacheStaysFree DEF LibraryTypeOK, ShelfInv, bucketVars
<1>2. req[h].pc \notin ShowingSteps /\ req'[h].pc \notin ShowingSteps /\ req'[h].pc # "publish_index" /\ RequestShelved(h)'
  BY <1>1 DEF CacheFree, ShowingSteps, RequestShelved, CommitSteps, Cache, Scan, ScanFolder, ScanList, ScanIndex, ScanCommit,
       ScanLocal, Restore, RestoreFiles, RestoreIndex, Evict, EvictFolder, EvictIndex, Free, At
<1>3. CASE Scan(h) \/ ScanList(h) \/ ScanCommit(h) \/ ScanLocal(h)
  <2>1. UNCHANGED <<model, diskVars>> /\ req'[h].pc \notin SeenSteps
    <3>1. UNCHANGED <<model, diskVars>>
      BY <1>3 DEF Scan, ScanList, ScanCommit, ScanLocal
    <3>2. req'[h].pc \in {"scan", "scan_index", "scan_local", "sweep"}
      BY <1>1, <1>3, CacheTurns DEF Starts, Moves
    <3> QED BY <3>1, <3>2 DEF SeenSteps
  <2> QED BY <1>1, <1>2, <2>1, ShelfKept
<1>4. CASE Restore(h, ActiveDownload) \/ Evict(h, ActiveDownload)
  <2>1. UNCHANGED <<model, diskVars>> /\ model # NoModel
    BY <1>4 DEF Restore, Evict, NoModel
  <2> QED BY <1>1, <1>2, <2>1, ShelfKept
<1>5. (Within(ShowingSteps)' => Within(ShowingSteps)) /\ (Within({"publish_index"})' => Within({"publish_index"}))
  BY <1>1, <1>2 DEF Within, Kept, ShowingSteps
<1>7. ASSUME UNCHANGED diskVars, req'[h].pc \in SeenSteps => req[h].pc \in SeenSteps, Within({"publish_index"}) => model' = NoModel
      PROVE  ShelfInv'
  <2>1. Within({"publish_index"})' => ~Within(SeenSteps)'
    BY <1>1, <1>5, <1>7 DEF StateShelved, PublishedFirst, Within, Kept
  <2>2. \A k \in Handlers : RequestShelved(k)'
    BY <1>1, <1>2, <1>7, OthersShelved DEF diskVars
  <2> QED BY <1>1, <1>5, <1>7, <2>1, <2>2 DEF ShelfInv, StateShelved, OwnedByRow, FolderLabelled, ReadyLabelled, PublishedFirst,
              FolderExists, diskVars
<1>8. CASE ScanFolder(h, WorkerRuns) \/ ScanIndex(h)
  <2>1. UNCHANGED diskVars /\ req'[h].pc \notin SeenSteps
    <3>1. req'[h].pc \in {"scan_local", "scan_list", "scan_commit"}
      BY <1>1, <1>8, CacheTurns DEF Moves
    <3> QED BY <1>8, <3>1 DEF ScanFolder, ScanIndex, SeenSteps
  <2>2. Within({"publish_index"}) => model' = NoModel
    <3>1. ScanIndex(h) => ~Within({"publish_index"})
      BY <1>1 DEF ScanIndex, Strays, Unsettling, Others, Within, PublishingSteps, At
    <3>2. ScanFolder(h, WorkerRuns) /\ Within({"publish_index"}) => model' = NoModel
      BY <1>1 DEF ScanFolder, StateShelved, PublishedFirst, FolderExists, Candidate, Complete
    <3> QED BY <1>8, <3>1, <3>2
  <2> QED BY <1>7, <2>1, <2>2
<1>9. CASE RestoreIndex(h) \/ EvictIndex(h)
  <2>1. UNCHANGED diskVars /\ req'[h].pc \notin SeenSteps /\ req[h].pc \in SeenSteps
    <3>1. req'[h].pc = "idle"
      BY <1>1, <1>9, CacheTurns DEF Rests
    <3> QED BY <1>9, <3>1 DEF RestoreIndex, EvictIndex, SeenSteps, At
  <2>2. ~Within({"publish_index"})
    BY <1>1, <2>1 DEF StateShelved, PublishedFirst, Within
  <2> QED BY <1>7, <2>1, <2>2
<1>10. CASE RestoreFiles(h)
  <2>1. manifest # "none" /\ label' = manifest
    BY <1>10 DEF RestoreFiles, Strays, Unsettling
  <2>2. label' \in Complete
    BY <2>1 DEF LibraryTypeOK
  <2>3. ~Within({"publish_index"})
    BY <1>1, <1>10 DEF StateShelved, PublishedFirst, Within, RestoreFiles, At, SeenSteps
  <2>4. \A k \in Handlers : RequestShelved(k)'
    BY <1>1, <1>2, <2>2, OthersShelved DEF Complete
  <2>5. StateShelved'
    BY <1>1, <1>5, <2>1, <2>2, <2>3 DEF StateShelved, OwnedByRow, FolderLabelled, ReadyLabelled, PublishedFirst, Complete, Unready
  <2> QED BY <2>4, <2>5 DEF ShelfInv
<1>11. CASE EvictFolder(h, WorkerRuns)
  <2>1. CASE manifest = "none"
    <3>1. UNCHANGED <<diskVars, model>> /\ Rests(h)
      BY <1>1, <1>11, <2>1, CacheTurns DEF EvictFolder
    <3> QED BY <1>7, <3>1 DEF Rests, SeenSteps, StateShelved, PublishedFirst, ShelfInv
  <2>2. CASE manifest # "none"
    <3>1. folder' = << >> /\ parts' = {} /\ label' = "none" /\ UNCHANGED model
      BY <1>11, <2>2 DEF EvictFolder
    <3>2. ~Others(h, Steps \ {"idle", "sweep", "sweep_discard", "history"})
      BY <1>11, <2>2 DEF EvictFolder, Strays, Unsettling
    <3>3. \A k \in Handlers \ {h} : req[k].pc \in {"idle", "sweep", "sweep_discard", "history"} /\ req'[k] = req[k]
      BY <1>1, <3>2, RequestFields DEF Others, Kept
    <3>4. \A k \in Handlers \ {h} : RequestShelved(k)'
      BY <3>3 DEF RequestShelved, CommitSteps
    <3>5. ~Within({"publish_index"})
      BY <1>11, <3>3 DEF Within, EvictFolder, At
    <3>6. StateShelved'
      BY <1>1, <1>5, <3>1, <3>5 DEF StateShelved, OwnedByRow, FolderLabelled, ReadyLabelled, PublishedFirst, FolderExists, Unready
    <3> QED BY <1>2, <3>4, <3>6 DEF ShelfInv
  <2> QED BY <2>1, <2>2
<1> QED BY <1>3, <1>4, <1>8, <1>9, <1>10, <1>11 DEF Cache

LEMMA FromTheHubKeepsShelf ==
    ASSUME LibraryTypeOK, DownloadsTypeOK, RowInv, ShelfInv, NEW h \in Handlers, FromTheHub(h), CancelsKnown,
           UNCHANGED place, strays' \intersect Unsettling = {}
    PROVE  ShelfInv'
<1>1. req \in [Handlers -> Request] /\ downloads \in [1 .. MaxDownloads -> Download] /\ StateShelved
  BY DEF LibraryTypeOK, DownloadsTypeOK, ShelfInv
<1>2. /\ Kept(h) /\ req'[h].pc \in {"idle", "enqueue", "cancel", "cancel_row"}
      /\ UNCHANGED <<folder, parts, manifest, row, model>>
  BY <1>1, HubTurns DEF Starts, Moves, Rests, bucketVars
<1>3. req[h].pc \in {"idle", "enqueue", "cancel", "cancel_row"}
  BY DEF FromTheHub, StartDownload, Enqueue, Cancel, CancelFolder, CancelRow, Free, At
<1>4. RequestShelved(h)' /\ req[h].pc \notin ShowingSteps /\ req'[h].pc \notin ShowingSteps /\ req'[h].pc \notin SeenSteps
  BY <1>2, <1>3 DEF RequestShelved, ShowingSteps, CommitSteps, SeenSteps
<1>5. CASE UNCHANGED label
  BY <1>2, <1>4, <1>5, ShelfKept DEF diskVars
<1>6. CASE ~UNCHANGED label
  <2>1. /\ FolderExists /\ label' = "cancelled" /\ req[h].job \in DOMAIN downloads
        /\ downloads[req[h].job].pc = "fetching"
    BY <1>1, <1>6, HubTurns DEF Unsettling
  <2>2. row = "none" /\ ~Within(ShowingSteps)
    <3>1. row = "none"
      BY <2>1 DEF RowInv, WorkersRow
    <3> QED BY <3>1 DEF RowInv, RequestRow, UploadSteps, FinalizingSteps, ShowingSteps, Within
  <2>3. ~Within(ShowingSteps)' /\ ~Within({"publish_index"})'
    BY <1>2, <1>4, <2>2 DEF Within, Kept, ShowingSteps
  <2>4. \A k \in Handlers : RequestShelved(k)'
    BY <1>2, <1>4, <2>1, OthersShelved
  <2> QED BY <1>1, <1>2, <2>1, <2>2, <2>3, <2>4
          DEF ShelfInv, StateShelved, OwnedByRow, FolderLabelled, ReadyLabelled, PublishedFirst
<1> QED BY <1>5, <1>6

LEMMA WorkerKeepsShelf ==
    ASSUME LibraryTypeOK, DownloadsTypeOK, RowInv, WorkInv, ShelfInv, NEW d \in DOMAIN downloads, Worker(d),
           UNCHANGED place, strays' \intersect Unsettling = {}
    PROVE  ShelfInv'
<1>1. downloads \in [1 .. MaxDownloads -> Download] /\ StateShelved
  BY DEF DownloadsTypeOK, ShelfInv
<1>2. UNCHANGED <<req, row>> /\ OthersStay(d)
  BY <1>1, WorkerTurns
<1>3. \A steps : Within(steps)' = Within(steps)
  BY <1>2 DEF Within
<1>4. ASSUME UNCHANGED <<diskVars, manifest, model>> PROVE ShelfInv'
  BY <1>2, <1>3, <1>4 DEF ShelfInv, StateShelved, OwnedByRow, FolderLabelled, ReadyLabelled, PublishedFirst, RequestShelved,
       FolderExists, diskVars
<1>5. ASSUME row = "none", label' # "none", label' # "owned", manifest' = manifest \/ (manifest' # "owned" /\ ~Within({"remove"}))
      PROVE  ShelfInv'
  <2>1. ~Within(ShowingSteps) /\ ~Within({"publish_index"})
    BY <1>5 DEF RowInv, RequestRow, UploadSteps, FinalizingSteps, ShowingSteps, Within
  <2>2. \A k \in Handlers : RequestShelved(k)'
    BY <1>2, <1>3, <1>5 DEF ShelfInv, RequestShelved, Within
  <2> QED BY <1>1, <1>2, <1>3, <1>5, <2>1, <2>2
          DEF ShelfInv, StateShelved, OwnedByRow, FolderLabelled, ReadyLabelled, PublishedFirst
<1>6. CASE Stays(d)
  BY <1>4, <1>6 DEF Stays, Unaltered, bucketVars
<1>7. CASE Halts(d)
  BY <1>4, <1>7 DEF Halts, Unaltered, Unsettling, bucketVars
<1>8. CASE SetsOut(d)
  BY <1>5, <1>8 DEF SetsOut, Unsettling, bucketVars
<1>9. Takes(d) \/ HasAll(d) \/ Syncs(d) \/ Indexes(d) => row = "none" /\ Going(d) /\ label # "none" /\ ~Within(AlteringSteps)
  BY DEF Takes, HasAll, Syncs, Indexes, RowInv, WorkersRow, Going, WorkInv, SomeGoes, FetchedSteps
<1>10. CASE Takes(d) \/ HasAll(d) \/ Syncs(d) \/ Indexes(d)
  <2>1. row = "none" /\ label # "none" /\ label # "owned" /\ ~Within({"remove"})
    BY <1>1, <1>9, <1>10 DEF StateShelved, OwnedByRow, Within, AlteringSteps, RemovingSteps
  <2>2. label' = label \/ label' = "open"
    BY <1>10 DEF Takes, HasAll, Syncs, Indexes, diskVars
  <2>3. manifest' = manifest \/ manifest' = label
    BY <1>10 DEF Takes, HasAll, Syncs, Indexes, bucketVars
  <2> QED BY <1>5, <2>1, <2>2, <2>3
<1> QED BY <1>1, <1>6, <1>7, <1>8, <1>10, WorkerTurns

LEMMA UploadingKeepsShelf ==
    ASSUME LibraryTypeOK, UploadsTypeOK, PlaceInv, LockInv, RowInv, HiddenInv, FinalizingInv, ShelfInv, NEW h \in Handlers,
           Uploading(h, ActiveDownload, WorkerRuns), UNCHANGED place, strays' \intersect Unsettling = {},
           strays \subseteq strays'
    PROVE  ShelfInv'
<1>1. /\ req \in [Handlers -> Request] /\ row \in {"none", "uploading", "ready"} /\ StatePlaced /\ RequestPlaced(h)
      /\ RequestRow(h) /\ StateShelved /\ RequestShelved(h) /\ Alone(RepoSteps) /\ Alone(WriteSteps)
      /\ "late" \notin strays' /\ "failed" \notin strays' /\ "failed" \notin strays
  BY DEF LibraryTypeOK, PlaceInv, RowInv, ShelfInv, LockInv, Unsettling
<1> DEFINE Plain == {"idle", "chunk", "begin_record", "complete_record", "sweep_discard", "finalize", "publish",
                     "delete", "delete_upload", "unpublish"}
<1>2. ASSUME Kept(h), UNCHANGED <<row, model, diskVars, manifest>>, req[h].pc \notin ShowingSteps,
             req'[h].pc \in Plain, req'[h].pc = "publish" => place = "direct", req'[h].pc = "unpublish" => row = "uploading"
      PROVE  ShelfInv'
  <2>1. RequestShelved(h)' /\ req'[h].pc \notin ShowingSteps /\ req'[h].pc \notin SeenSteps
    BY <1>2 DEF RequestShelved, ShowingSteps, SeenSteps, CommitSteps
  <2> QED BY <1>2, <2>1, ShelfKept
<1>3. CASE CreateUpload(h)
  <2>1. Rests(h) /\ ~Remembered(h)
    BY <1>1, <1>3, UploadingTurns DEF CreateUpload, Strays
  <2>2. \A k \in Handlers : req'[k].pc \notin RememberingSteps
    BY <2>1 DEF Remembered, Rests, Kept, RememberingSteps, StoringSteps, PublishingSteps, RemovingSteps, WaitingSteps, CacheSteps
  <2>3. \A k \in Handlers : RequestShelved(k)'
    BY <2>2 DEF RequestShelved, CommitSteps, RememberingSteps, StoringSteps, PublishingSteps, RemovingSteps, WaitingSteps
  <2>4. ~Within(ShowingSteps)' /\ ~Within({"publish_index"})'
    BY <2>2 DEF Within, ShowingSteps, RememberingSteps, StoringSteps, PublishingSteps
  <2>5. ~FolderExists /\ UNCHANGED <<folder, parts>> /\ row' = "uploading" /\ label' \in {label, "uploading"}
    BY <1>3 DEF CreateUpload, NameFree
  <2>6. StateShelved'
    BY <2>4, <2>5 DEF StateShelved, OwnedByRow, FolderLabelled, ReadyLabelled, PublishedFirst, FolderExists
  <2> QED BY <2>3, <2>6 DEF ShelfInv
<1>4. CASE (\E f \in Files : Chunk(h, f)) \/ BeginRecord(h) \/ CompleteRecord(h) \/ SweepList(h) \/ SweepDiscard(h) \/ Forget(h)
           \/ (\E w \in Sessions \union {Upload}, f \in Files : BeginFile(h, w, f) \/ CompleteFile(h, w, f))
  <2>1. UNCHANGED <<row, model, diskVars, manifest>>
    BY <1>4 DEF Chunk, BeginRecord, CompleteRecord, SweepList, SweepDiscard, Forget, BeginFile, CompleteFile, bucketVars
  <2>2. req[h].pc \notin ShowingSteps
    BY <1>4 DEF Chunk, BeginRecord, CompleteRecord, SweepList, SweepDiscard, Forget, BeginFile, CompleteFile, Free, At, ShowingSteps
  <2>3. Kept(h) /\ req'[h].pc \in {"idle", "chunk", "begin_record", "complete_record", "sweep_discard"}
    BY <1>1, <1>4, UploadingTurns DEF Starts, Rests
  <2> QED BY <1>2, <2>1, <2>2, <2>3
<1>5. CASE Finalize(h) \/ Delete(h, ActiveDownload) \/ AbortUpload(h)
  <2>1. UNCHANGED <<row, model, diskVars, manifest>>
    BY <1>5 DEF Finalize, Delete, AbortUpload, bucketVars
  <2>2. req[h].pc \notin ShowingSteps
    BY <1>5 DEF Finalize, Delete, AbortUpload, Free, At, ShowingSteps
  <2>3. Kept(h) /\ req'[h].pc \in {"finalize", "publish", "delete", "delete_upload", "unpublish"}
    BY <1>1, <1>5, UploadingTurns, DeleteTurns DEF Starts, Moves
  <2>4. req'[h].pc = "publish" => place = "direct"
    BY <1>1, <1>5, UploadingTurns, DeleteTurns DEF Starts, Moves, StatePlaced
  <2>5. req'[h].pc = "unpublish" => row = "uploading"
    BY <1>1, <1>5, UploadingTurns, DeleteTurns DEF Starts, Moves, AbortUpload, Strays
  <2> QED BY <1>2, <2>1, <2>2, <2>3, <2>4, <2>5
<1>6. CASE ChunkWritten(h)
  <2>1. Rests(h) /\ UNCHANGED <<row, model, label, manifest>> /\ req[h].pc = "chunk"
    BY <1>1, <1>6, UploadingTurns DEF ChunkWritten, bucketVars, At
  <2>2. CASE UNCHANGED <<folder, parts>>
    BY <1>2, <2>1, <2>2 DEF Rests, diskVars, ShowingSteps
  <2>3. CASE ~UNCHANGED <<folder, parts>>
    <3>1. row = "uploading" /\ place # "direct" /\ WriteLock(h)
      BY <1>1, <1>6, <2>1, <2>3 DEF ChunkWritten, Strays, RequestRow, FinalizingSteps
    <3>2. ~Within(ShowingSteps) /\ ~Within({"finalize_sync"}) /\ ~Within({"publish_index"})
      BY <2>1, <3>1 DEF ShelfInv, RequestShelved, Within, ShowingSteps, WriteLock, Others, StoringSteps
    <3>3. label # "none"
      BY <1>1, <3>1, <3>2, NotYetShown DEF Unshown, LabelInv
    <3>4. ~Within(ShowingSteps)' /\ ~Within({"publish_index"})'
      BY <2>1, <3>2 DEF Within, Rests, Kept, ShowingSteps
    <3>5. \A k \in Handlers : RequestShelved(k)'
      <4>1. RequestShelved(h)'
        BY <2>1 DEF Rests, RequestShelved, CommitSteps
      <4>2. \A k \in Handlers \ {h} : RequestShelved(k)'
        BY <2>1, OthersShelved DEF Rests, ShowingSteps
      <4> QED BY <4>1, <4>2
    <3> QED BY <1>1, <2>1, <3>1, <3>3, <3>4, <3>5
            DEF ShelfInv, StateShelved, OwnedByRow, FolderLabelled, ReadyLabelled, PublishedFirst
  <2> QED BY <2>2, <2>3
<1>7. CASE FinalizeChecked(h)
  <2>1. /\ UNCHANGED <<row, model, folder, parts, manifest>> /\ req[h].pc = "finalize" /\ RepoLock(h)
        /\ \/ Rests(h) /\ UNCHANGED label
           \/ Kept(h) /\ req'[h].pc = "finalize_sync" /\ label' = "owned"
    BY <1>1, <1>7, UploadingTurns DEF FinalizeChecked, bucketVars, At
  <2>2. CASE Rests(h) /\ UNCHANGED label
    BY <1>2, <2>1, <2>2 DEF Rests, diskVars, ShowingSteps
  <2>3. CASE Kept(h) /\ req'[h].pc = "finalize_sync" /\ label' = "owned"
    <3>1. row # "none"
      BY <1>1, <2>1 DEF RequestRow, UploadSteps, FinalizingSteps
    <3>2. ~Within({"publish_index"})'
      BY <2>1, <2>3 DEF RepoLock, Others, Within, Kept, PublishingSteps
    <3>3. \A k \in Handlers : RequestShelved(k)'
      <4>1. RequestShelved(h)'
        BY <2>3 DEF RequestShelved, CommitSteps
      <4>2. \A k \in Handlers \ {h} : RequestShelved(k)'
        BY <2>1, <2>3, OthersShelved DEF ShowingSteps
      <4> QED BY <4>1, <4>2
    <3> QED BY <2>1, <2>3, <3>1, <3>2, <3>3
            DEF ShelfInv, StateShelved, OwnedByRow, FolderLabelled, ReadyLabelled, PublishedFirst, Unready
  <2> QED BY <2>1, <2>2, <2>3
<1>8. ASSUME req[h].pc \in StoringSteps
      PROVE  /\ ~Others(h, RepoSteps) /\ ~Others(h, {"remove"})
             /\ Kept(h) /\ req'[h].pc # "publish_index" => ~Within({"publish_index"})'
  BY <1>1, <1>8, LocksOfSteps DEF Alone, Others, Within, Kept, RemovingSteps
<1>9. CASE FinalizeSync(h)
  <2>1. Moves(h, "finalize_index") /\ UNCHANGED <<row, model, diskVars>> /\ label \in Complete /\ manifest' \in {manifest, label}
    <3>1. label \in Complete
      BY <1>9 DEF FinalizingInv, Within, FinalizeSteps, FinalizeSync, At
    <3> QED BY <1>1, <1>9, <3>1, GoesOn DEF FinalizeSync, Strays, diskVars, bucketVars
  <2>2. req[h].pc = "finalize_sync" /\ row # "none" /\ req[h].pc \in StoringSteps
    BY <1>1, <1>9 DEF FinalizeSync, At, RequestRow, UploadSteps, FinalizingSteps, StoringSteps
  <2>3. ~Within({"publish_index"})'
    BY <1>8, <2>1, <2>2 DEF Moves
  <2>4. \A k \in Handlers \ {h} : RequestShelved(k)'
    BY <1>8, <2>1, <2>2, OthersShelved DEF Moves, diskVars, ShowingSteps
  <2>5. RequestShelved(h)'
    BY <2>1 DEF RequestShelved, CommitSteps, Moves
  <2> QED BY <1>1, <2>1, <2>2, <2>3, <2>4, <2>5
          DEF ShelfInv, StateShelved, OwnedByRow, FolderLabelled, ReadyLabelled, PublishedFirst, Unready, Complete, FolderExists, diskVars
<1>10. CASE FinalizeIndex(h)
  <2>1. Moves(h, "finalize_ready") /\ UNCHANGED <<row, diskVars, manifest>> /\ req[h].pc = "finalize_index"
    BY <1>1, <1>10, UploadingTurns DEF FinalizeIndex, bucketVars, At
  <2>2. ~Within({"publish_index"})'
    BY <1>8, <2>1 DEF Moves, StoringSteps
  <2>3. \A k \in Handlers \ {h} : RequestShelved(k)'
    BY <2>1, OthersShelved DEF Moves, diskVars, ShowingSteps
  <2>4. RequestShelved(h)' /\ Within(ShowingSteps)
    BY <2>1 DEF RequestShelved, CommitSteps, Moves, Within, ShowingSteps
  <2> QED BY <1>1, <2>1, <2>2, <2>3, <2>4
          DEF ShelfInv, StateShelved, OwnedByRow, FolderLabelled, ReadyLabelled, PublishedFirst, FolderExists, diskVars
<1>11. CASE FinalizeReady(h) \/ PublishReady(h)
  <2>1. Rests(h) /\ UNCHANGED <<diskVars, manifest>> /\ req[h].pc \in {"finalize_ready", "publish_ready"}
        /\ row' = (IF row = "none" THEN "none" ELSE "ready")
    BY <1>1, <1>11, UploadingTurns DEF FinalizeReady, PublishReady, Ready, bucketVars, At
  <2>2. Within(ShowingSteps) /\ req[h].pc \in RepoSteps
    BY <2>1 DEF Within, ShowingSteps, RepoSteps, StoringSteps, PublishingSteps
  <2>3. \A k \in Handlers : req'[k].pc \notin RepoSteps
    BY <1>1, <2>1, <2>2, LocksOfSteps DEF Alone, Rests, Kept, FreeSteps
  <2>4. ~Within({"publish_index"})'
    BY <2>3 DEF Within, RepoSteps, PublishingSteps
  <2>5. \A k \in Handlers : RequestShelved(k)'
    BY <2>1, <2>3 DEF ShelfInv, RequestShelved, Rests, Kept, RepoSteps, PublishingSteps, CommitSteps, diskVars
  <2> QED BY <1>1, <2>1, <2>2, <2>4, <2>5
          DEF ShelfInv, StateShelved, OwnedByRow, FolderLabelled, ReadyLabelled, PublishedFirst, FolderExists, diskVars
<1>12. CASE Publish(h)
  <2>1. UNCHANGED <<row, model, diskVars>> /\ req[h].pc = "publish" /\ RepoLock(h) /\ place = "direct"
    BY <1>1, <1>12 DEF Publish, At, RequestShelved
  <2>2. CASE Ends(h) /\ UNCHANGED <<manifest, ghosts>>
    BY <1>1, <1>2, <2>1, <2>2, TurnsIdle DEF Rests, ShowingSteps
  <2>3. CASE ~(Ends(h) /\ UNCHANGED <<manifest, ghosts>>)
    <3>1. Moves(h, "publish_index") /\ manifest' = "owned" /\ row = "uploading"
      BY <1>1, <1>12, <2>3, GoesOn DEF Publish, Strays
    <3>2. ~Within(ShowingSteps)
      BY <2>1 DEF RepoLock, Others, Within, ShowingSteps, StoringSteps, PublishingSteps
    <3>3. label = "none" /\ ~FolderExists /\ model = NoModel /\ ~Within(SeenSteps)
      BY <1>1, <2>1, <3>1, <3>2, DirectUnshown
    <3>4. ~Others(h, {"remove"})
      BY <2>1, <3>1, <3>2 DEF ShelfInv, RequestShelved, Others
    <3>5. \A k \in Handlers \ {h} : RequestShelved(k)'
      BY <2>1, <3>1, <3>4, OthersShelved DEF Moves, diskVars, ShowingSteps
    <3>6. RequestShelved(h)'
      BY <2>1, <3>1 DEF Moves, RequestShelved, CommitSteps
    <3>7. ~Within(SeenSteps)'
      BY <3>1, <3>3 DEF Within, Moves, Kept, SeenSteps
    <3> QED BY <2>1, <3>1, <3>3, <3>5, <3>6, <3>7
            DEF ShelfInv, StateShelved, OwnedByRow, FolderLabelled, ReadyLabelled, PublishedFirst, FolderExists, diskVars, Unready
  <2> QED BY <2>2, <2>3
<1>13. CASE PublishIndex(h)
  <2>1. Moves(h, "publish_ready") /\ UNCHANGED <<row, diskVars, manifest>> /\ req[h].pc = "publish_index"
    BY <1>1, <1>13, UploadingTurns DEF PublishIndex, bucketVars, At
  <2>2. ~Within({"publish_index"})'
    BY <1>1, <2>1, LocksOfSteps DEF Alone, Within, Moves, Kept
  <2>3. \A k \in Handlers \ {h} : RequestShelved(k)'
    BY <2>1, OthersShelved DEF Moves, diskVars, ShowingSteps
  <2>4. RequestShelved(h)' /\ Within(ShowingSteps)
    BY <1>1, <2>1 DEF RequestShelved, CommitSteps, Moves, Within, ShowingSteps
  <2> QED BY <1>1, <2>1, <2>2, <2>3, <2>4
          DEF ShelfInv, StateShelved, OwnedByRow, FolderLabelled, ReadyLabelled, PublishedFirst, FolderExists, diskVars
<1>14. CASE Unpublish(h)
  <2>1. Moves(h, "unpublish_rows") /\ manifest' = "none" /\ UNCHANGED <<row, model, diskVars>> /\ req[h].pc = "unpublish"
    BY <1>1, <1>14, GoesOn DEF Unpublish, Strays, At
  <2>2. RequestShelved(h)'
    BY <1>1, <2>1 DEF Moves, RequestShelved, CommitSteps
  <2>3. \A k \in Handlers \ {h} : RequestShelved(k)'
    BY <2>1, OthersShelved DEF Moves, diskVars, ShowingSteps
  <2>4. (Within(ShowingSteps)' => Within(ShowingSteps)) /\ ~Within({"publish_index"})'
    BY <1>1, <2>1, LocksOfSteps DEF Within, Moves, Kept, ShowingSteps, Alone
  <2> QED BY <1>1, <2>1, <2>2, <2>3, <2>4
          DEF ShelfInv, StateShelved, OwnedByRow, FolderLabelled, ReadyLabelled, PublishedFirst, FolderExists, diskVars
<1>15. ASSUME ~Overtakes(h), Kept(h), req'[h].pc \in {"idle", "forget"}
       PROVE  (\A k \in Handlers : RequestShelved(k)') /\ ~Within(ShowingSteps)' /\ ~Within({"publish_index"})'
  <2>1. \A k \in Handlers : req'[k].pc \in {"idle", "sweep", "sweep_discard", "delete", "delete_upload", "forget"}
    BY <1>1, <1>15, RequestFields DEF Overtakes, Others, Kept
  <2> QED BY <2>1 DEF RequestShelved, CommitSteps, Within, ShowingSteps
<1>16. CASE UnpublishRows(h)
  <2>1. Rests(h) /\ row' = "none" /\ model' = NoModel /\ UNCHANGED <<diskVars, manifest>> /\ ~Overtakes(h)
        /\ req[h].pc = "unpublish_rows"
    BY <1>1, <1>16, UploadingTurns DEF UnpublishRows, Strays, At, bucketVars
  <2>2. row = "uploading" /\ place = "direct" /\ ~Within(ShowingSteps)
    BY <1>1, <2>1 DEF RequestShelved, RequestPlaced, Within, Overtakes, Others, ShowingSteps, Steps, StoringSteps, PublishingSteps
  <2>3. label = "none" /\ ~FolderExists /\ manifest = "none"
    BY <1>1, <2>2, DirectUnshown
  <2> QED BY <1>15, <2>1, <2>3
          DEF ShelfInv, StateShelved, OwnedByRow, FolderLabelled, ReadyLabelled, PublishedFirst, FolderExists, diskVars, Rests
<1>17. CASE Remove(h, WorkerRuns)
  <2>1. UNCHANGED <<row, model, diskVars>> /\ req[h].pc = "delete"
    BY <1>17 DEF Remove, At
  <2>2. CASE Ends(h) /\ UNCHANGED bucketVars
    BY <1>1, <1>2, <2>1, <2>2, TurnsIdle DEF Rests, ShowingSteps, bucketVars
  <2>3. CASE ~(Ends(h) /\ UNCHANGED bucketVars)
    <3>1. /\ Moves(h, "remove") /\ Verified(req[h].kind) /\ (req[h].kind = "open" => row = "none")
          /\ manifest' \in {manifest, "none"} /\ (req[h].kind # "open" => manifest' = "none")
      BY <1>1, <1>17, <2>3, GoesOn DEF Remove, Strays, StatePlaced, bucketVars
    <3>2. req[h].kind # "open" /\ row = "uploading" /\ place = "direct" => Within(ShowingSteps)
      BY <1>1, <3>1, DirectUnshown DEF Verified
    <3>3. Within(ShowingSteps)' = Within(ShowingSteps) /\ (Within({"publish_index"})' => Within({"publish_index"}))
          /\ (Within(SeenSteps)' => Within(SeenSteps))
      BY <2>1, <3>1 DEF Moves, Kept, Within, ShowingSteps, SeenSteps
    <3>4. RequestShelved(h)'
      BY <2>1, <3>1, <3>2, <3>3 DEF RequestShelved, Moves, Carries, CommitSteps
    <3>5. \A k \in Handlers \ {h} : RequestShelved(k)'
      BY <2>1, <3>1, OthersShelved DEF Moves, diskVars, ShowingSteps
    <3> QED BY <1>1, <2>1, <3>1, <3>3, <3>4, <3>5
            DEF ShelfInv, StateShelved, OwnedByRow, FolderLabelled, ReadyLabelled, PublishedFirst, FolderExists, diskVars
  <2> QED BY <2>2, <2>3
<1>18. CASE RemoveFolder(h, WorkerRuns)
  <2>1. /\ Moves(h, "forget") /\ row' = "none" /\ model' = NoModel /\ label' = "none" /\ folder' = << >> /\ parts' = {}
        /\ ~Overtakes(h) /\ UNCHANGED manifest /\ req[h].pc = "remove"
    BY <1>1, <1>18, UploadingTurns DEF RemoveFolder, Strays, At, bucketVars
  <2>2. manifest # "owned"
    BY <1>1, <2>1 DEF RequestShelved, StateShelved, OwnedByRow
  <2> QED BY <1>15, <2>1, <2>2
          DEF ShelfInv, StateShelved, OwnedByRow, FolderLabelled, ReadyLabelled, PublishedFirst, FolderExists, Moves
<1> QED BY <1>3, <1>4, <1>5, <1>6, <1>7, <1>9, <1>10, <1>11, <1>12, <1>13, <1>14, <1>16, <1>17, <1>18 DEF Uploading

LEMMA ChangingKeepsShelf ==
    ASSUME LibraryTypeOK, PlaceInv, LockInv, ShelfInv, NEW h \in Handlers, Changing(h, ActiveDownload),
           UNCHANGED place, strays' \intersect Unsettling = {}
    PROVE  ShelfInv'
<1>1. /\ req \in [Handlers -> Request] /\ RequestPlaced(h) /\ StateShelved /\ RequestShelved(h)
      /\ Alone(RepoSteps) /\ Alone(WriteSteps) /\ UNCHANGED row /\ "failed" \notin strays'
  BY DEF LibraryTypeOK, PlaceInv, ShelfInv, LockInv, Unsettling, Changing, StartChange, StageChunk, AbortChange, Commit, CommitLocks,
         Apply, ApplyRemovals, Store, CommitRemote, FetchCopy, CommitIndex, CommitRecorded
<1>2. ASSUME NEW s \in Sessions, StartChange(h, s) \/ \E f \in Files : StageChunk(h, s, f) PROVE ShelfInv'
  <2>1. Rests(h) /\ req[h].pc = "idle" /\ UNCHANGED <<model, diskVars, manifest>>
    BY <1>1, <1>2, ChangingTurns DEF StartChange, StageChunk, bucketVars
  <2> QED BY <1>1, <2>1, ShelfKept DEF Rests, RequestShelved, CommitSteps, ShowingSteps, SeenSteps
<1>3. ASSUME NEW s \in Sessions, AbortChange(h, s) PROVE ShelfInv'
  <2>1. \A k \in Handlers : /\ req'[k].pc = req[k].pc /\ req'[k].local = req[k].local
                            /\ req[k].pc \notin {"apply", "store"} => req'[k] = req[k]
    BY <1>1, <1>3, AbortTurns
  <2>2. UNCHANGED <<model, diskVars, manifest>>
    BY <1>3 DEF AbortChange, bucketVars
  <2>3. \A steps : Within(steps)' = Within(steps)
    BY <2>1 DEF Within
  <2>4. \A k \in Handlers : RequestShelved(k)'
    BY <1>1, <2>1, <2>2, <2>3 DEF ShelfInv, RequestShelved, diskVars
  <2> QED BY <1>1, <2>2, <2>3, <2>4
          DEF ShelfInv, StateShelved, OwnedByRow, FolderLabelled, ReadyLabelled, PublishedFirst, FolderExists, diskVars
<1>4. ASSUME NEW s \in Sessions, Commit(h, s, ActiveDownload) PROVE ShelfInv'
  <2>1. /\ Kept(h) /\ req[h].pc = "idle" /\ req'[h].pc \in {"commit", "commit_upload"}
        /\ req'[h].local = (model.cached /\ FolderExists)
    BY <1>1, <1>4, ChangingTurns
  <2>2. UNCHANGED <<model, diskVars, manifest>> /\ model # NoModel
    BY <1>4 DEF Commit, bucketVars
  <2>3. req'[h].local => label' # "none"
    BY <1>1, <2>1, <2>2 DEF StateShelved, FolderLabelled, diskVars
  <2> QED BY <1>1, <2>1, <2>2, <2>3, ShelfKept DEF RequestShelved, ShowingSteps
<1>5. CASE CommitLocks(h)
  <2>1. Moves(h, "apply") /\ req[h].pc = "commit" /\ UNCHANGED <<model, diskVars, manifest>>
    BY <1>1, <1>5, ChangingTurns DEF CommitLocks, At, bucketVars
  <2>2. RequestShelved(h)'
    BY <1>1, <2>1 DEF RequestShelved, CommitSteps, Moves, Carries, diskVars
  <2> QED BY <1>1, <2>1, <2>2, ShelfKept DEF Moves, ShowingSteps, SeenSteps
<1>6. ASSUME Kept(h), req[h].pc \in CommitSteps, req'[h].pc \in CommitSteps \union {"idle", "history"},
             req'[h].local = req[h].local \/ req'[h].pc \in {"idle", "history"}, req'[h].pc = "fetch" => req[h].local,
             label' = label, manifest' = manifest \/ ~Others(h, {"remove"}),
             manifest' \in {manifest, label} \/ (manifest' = "owned" => row # "none"),
             UNCHANGED <<folder, parts>> \/ label # "none"
      PROVE  ShelfInv'
  <2>1. RequestShelved(h)'
    BY <1>1, <1>6 DEF RequestShelved, CommitSteps
  <2>2. \A k \in Handlers \ {h} : RequestShelved(k)'
    BY <1>1, <1>6, OthersShelved DEF CommitSteps, ShowingSteps
  <2>3. (Within(ShowingSteps)' => Within(ShowingSteps)) /\ ~Within({"publish_index"})'
    BY <1>1, <1>6 DEF Within, Kept, ShowingSteps, CommitSteps, SeenSteps, StateShelved, PublishedFirst
  <2> QED BY <1>1, <1>6, <2>1, <2>2, <2>3
          DEF ShelfInv, StateShelved, OwnedByRow, FolderLabelled, ReadyLabelled, PublishedFirst, FolderExists
<1>7. CASE \E f \in Files : Apply(h, f)
  <2>1. Kept(h) /\ req'[h].pc \in {"apply", "idle"} /\ (req'[h].local = req[h].local \/ req'[h].pc = "idle")
    BY <1>1, <1>7, ChangingTurns DEF Rests
  <2>2. req[h].pc = "apply" /\ UNCHANGED <<label, manifest>>
    BY <1>7 DEF Apply, Rollback, At, bucketVars
  <2>3. label # "none"
    BY <1>1, <2>2 DEF RequestPlaced, RequestShelved, CommitSteps
  <2> QED BY <1>6, <2>1, <2>2, <2>3 DEF CommitSteps, Rests
<1>8. CASE ApplyRemovals(h)
  <2>1. Kept(h) /\ req'[h].pc = "store" /\ req'[h].local = req[h].local
    BY <1>1, <1>8, ChangingTurns
  <2>2. req[h].pc = "apply" /\ UNCHANGED <<label, manifest>>
    BY <1>8 DEF ApplyRemovals, At, bucketVars
  <2>3. label # "none"
    BY <1>1, <2>2 DEF RequestPlaced, RequestShelved, CommitSteps
  <2> QED BY <1>6, <2>1, <2>2, <2>3 DEF CommitSteps
<1>9. ASSUME req[h].pc \in StoringSteps PROVE ~Others(h, {"remove"})
  BY <1>1, <1>9, LocksOfSteps DEF Alone, Others, RemovingSteps
<1>10. CASE Store(h)
  <2>1. Moves(h, "commit_index") /\ UNCHANGED diskVars /\ manifest' \in {manifest, label} /\ req[h].pc = "store"
    BY <1>1, <1>10, GoesOn DEF Store, Strays, At, bucketVars, diskVars
  <2> QED BY <1>6, <1>9, <2>1 DEF Moves, Carries, CommitSteps, diskVars, StoringSteps
<1>11. CASE CommitRemote(h)
  <2>1. req[h].pc \in {"commit", "commit_upload"} /\ UNCHANGED diskVars /\ ~Others(h, {"remove"})
    BY <1>11 DEF CommitRemote, At, WriteLock, Others, RemovingSteps
  <2>2. manifest' = manifest \/ (manifest' = "owned" => row # "none")
    BY <1>1, <1>11 DEF CommitRemote, Strays, bucketVars, ReplacementManifest
  <2>3. Moves(h, IF Local(h) THEN "fetch" ELSE "commit_index") \/ Rests(h)
    BY <1>1, <1>11, ChangingTurns
  <2>4. Kept(h) /\ req'[h].pc \in {"fetch", "commit_index", "idle"} /\ (req'[h].local = req[h].local \/ req'[h].pc = "idle")
        /\ (req'[h].pc = "fetch" => req[h].local)
    BY <2>3 DEF Moves, Carries, Rests, Local
  <2> QED BY <1>6, <2>1, <2>2, <2>4 DEF CommitSteps, diskVars
<1>12. CASE FetchCopy(h)
  <2>1. req[h].pc = "fetch" /\ UNCHANGED <<parts, manifest>> /\ Moves(h, "commit_index")
    BY <1>1, <1>12, GoesOn DEF FetchCopy, Strays, At, bucketVars
  <2>2. label # "none"
    BY <1>1, <2>1 DEF RequestShelved, CommitSteps
  <2>3. label' = label
    BY <1>12, <2>2 DEF FetchCopy
  <2> QED BY <1>6, <2>1, <2>2, <2>3 DEF Moves, Carries, CommitSteps
<1>13. CASE CommitIndex(h)
  <2>1. req[h].pc = "commit_index" /\ UNCHANGED <<diskVars, manifest>> /\ Moves(h, "history")
    BY <1>1, <1>13, ChangingTurns DEF CommitIndex, At, bucketVars
  <2> QED BY <1>6, <2>1 DEF Moves, CommitSteps, diskVars
<1>14. CASE CommitRecorded(h)
  <2>1. Rests(h) /\ req[h].pc = "history" /\ UNCHANGED <<model, diskVars, manifest>>
    BY <1>1, <1>14, ChangingTurns DEF CommitRecorded, At, bucketVars
  <2> QED BY <1>1, <2>1, ShelfKept DEF Rests, RequestShelved, CommitSteps, ShowingSteps, SeenSteps
<1> QED BY <1>2, <1>3, <1>4, <1>5, <1>7, <1>8, <1>10, <1>11, <1>12, <1>13, <1>14 DEF Changing

LEMMA ShelfStep ==
    ASSUME LifeInv, PlaceInv, LockInv, Timely => RowInv, Orderly => HiddenInv, Calm => WorkInv,
           Calm => FinalizingInv /\ ShelfInv, [Next]_vars
    PROVE  Calm' => ShelfInv'
<1>1. /\ LibraryTypeOK /\ UploadsTypeOK /\ DownloadsTypeOK /\ CancelsKnown /\ strays \subseteq strays'
  BY StraysGrow DEF LifeInv, TypeOK, DownloadsInv
<1> SUFFICES ASSUME Calm' PROVE ShelfInv'
  OBVIOUS
<1>2. WorkInv /\ FinalizingInv /\ ShelfInv /\ RowInv /\ HiddenInv /\ strays' \intersect Unsettling = {} /\ UNCHANGED place
  BY <1>1, CalmBefore DEF Next, vars
<1>3. ASSUME UNCHANGED <<diskVars, manifest, row, model, req>> PROVE ShelfInv'
  BY <1>2, <1>3 DEF ShelfInv, StateShelved, OwnedByRow, FolderLabelled, ReadyLabelled, PublishedFirst, RequestShelved,
       FolderExists, Within, diskVars
<1>4. ASSUME NEW x \in open, PartsSent(x) PROVE ShelfInv'
  BY <1>3, <1>4 DEF PartsSent, requestVars, bucketVars
<1>5. ASSUME UNCHANGED vars PROVE ShelfInv'
  BY <1>3, <1>5 DEF vars, requestVars, bucketVars
<1>6. ASSUME Restart PROVE ShelfInv'
  <2>1. (\A k \in Handlers : req[k].pc = "idle") /\ UNCHANGED <<diskVars, bucketVars, row, model>>
    BY <1>2, <1>6 DEF Restart, Strays, At, Unsettling
  <2>2. \A k \in Handlers : req'[k].pc = "idle"
    BY <1>6 DEF Restart, Idle
  <2> QED BY <1>2, <2>1, <2>2 DEF ShelfInv, StateShelved, OwnedByRow, FolderLabelled, ReadyLabelled, PublishedFirst, RequestShelved,
       FolderExists, Within, diskVars, bucketVars, ShowingSteps, CommitSteps
<1>7. ASSUME NEW h \in Handlers, Cache(h, ActiveDownload, WorkerRuns), UNCHANGED <<uploadVars, sessionVars, downloads>>
      PROVE  ShelfInv'
  BY <1>1, <1>2, <1>7, CacheKeepsShelf
<1>8. ASSUME NEW h \in Handlers, Uploading(h, ActiveDownload, WorkerRuns) \/ Changing(h, ActiveDownload) PROVE ShelfInv'
  BY <1>1, <1>2, <1>8, UploadingKeepsShelf, ChangingKeepsShelf
<1>9. ASSUME NEW h \in Handlers, FromTheHub(h) PROVE ShelfInv'
  BY <1>1, <1>2, <1>9, FromTheHubKeepsShelf
<1>10. ASSUME NEW d \in DOMAIN downloads, Worker(d) PROVE ShelfInv'
  BY <1>1, <1>2, <1>10, WorkerKeepsShelf
<1> QED BY <1>4, <1>5, <1>6, <1>7, <1>8, <1>9, <1>10 DEF Next

LEMMA ShelfStart == Init => ShelfInv
<1> SUFFICES ASSUME Init PROVE ShelfInv
  OBVIOUS
<1>1. \A h \in Handlers : req[h].pc = "idle"
  BY DEF Init, Idle
<1>2. OwnedByRow /\ FolderLabelled /\ (row = "ready" => label \notin Unready)
  <2>1. CASE NewName \/ Queued
    BY <2>1 DEF NewName, Queued, Absent, OwnedByRow, FolderLabelled, FolderExists, Unready
  <2>2. ASSUME NEW arrived \in SUBSET Files, Unfinished(arrived) PROVE OwnedByRow /\ FolderLabelled /\ row # "ready"
    BY <2>2 DEF Unfinished, OwnedByRow, FolderLabelled, FolderExists
  <2>3. CASE Uploaded \/ Downloaded
    BY <2>3 DEF Uploaded, Downloaded, Holds, OwnedByRow, FolderLabelled, FolderExists, Unready
  <2> QED BY <2>1, <2>2, <2>3 DEF Init
<1> QED BY <1>1, <1>2 DEF ShelfInv, StateShelved, ReadyLabelled, PublishedFirst, RequestShelved, Within, ShowingSteps, CommitSteps

----------------------------------------------------------------------------
(* A complete copy holds what the bucket holds, but while a request stores,  *)
(* changes or deletes it, or a worker is to store it; it is in the index,    *)
(* but until the request or the worker that made it has entered it; and what *)
(* a change has done to it so far can be undone, or stored.                  *)
CopyingSteps == {"finalize_sync", "apply", "store", "fetch", "remove"}
WorkerAt(steps) == \E d \in DOMAIN downloads : downloads[d].pc \in steps
Served(m) == m.cached /\ m.target = "bucket"
CopyFollows ==
    label \in Complete => (folder = bucket /\ manifest # "none") \/ Within(CopyingSteps) \/ WorkerAt({"sync"})
CopyIndexed ==
    label \in Complete /\ model # NoModel
        => Served(model) \/ Within({"restore_index"}) \/ WorkerAt({"sync", "index"})
ChangeBegun(h) ==
    /\ req[h].pc \in {"commit", "apply"} => req[h].kind = "none" /\ req[h].gone \intersect req[h].files = {}
    /\ req[h].pc = "commit" => req[h].moved = {} /\ req[h].backup = << >>
UndoneTo(r, content, base) ==
    /\ DOMAIN content = DOMAIN base \union r.moved
    /\ \A f \in DOMAIN content : content[f] = IF f \in r.moved THEN r.who ELSE base[f]
    /\ DOMAIN r.backup = r.moved \intersect DOMAIN base
    /\ \A f \in DOMAIN r.backup : r.backup[f] = base[f]
ChangeFollows(h) ==
    /\ req[h].pc \in CommitSteps => req[h].local /\ req[h].at = "bucket"
    /\ req[h].pc \in {"apply", "store", "fetch"} => manifest # "none"
    /\ req[h].pc = "apply" => UndoneTo(req[h], folder, bucket)
    /\ req[h].pc = "store" => folder = Over(Changed(h), Without(bucket, req[h].gone))
    /\ req[h].pc = "fetch" => bucket = Over(Changed(h), Without(folder, req[h].gone))
CopyInv ==
    /\ CopyFollows /\ CopyIndexed
    /\ \A h \in Handlers : ChangeBegun(h) /\ (label \in Complete => ChangeFollows(h))

LEMMA SameContents ==
    ASSUME NEW a \in Contents, NEW b \in Contents, DOMAIN a = DOMAIN b, \A x \in DOMAIN a : a[x] = b[x]
    PROVE  a = b
<1>1. a = [x \in DOMAIN a |-> a[x]] /\ b = [x \in DOMAIN b |-> b[x]]
  BY ContentsOf
<1> QED BY <1>1

(* What a change has done is undone, and what it has changed is stored.      *)
LEMMA UndoneFollows ==
    ASSUME LibraryTypeOK, NEW h \in Handlers, NEW base \in Contents, UndoneTo(req[h], folder, base)
    PROVE  Over(req[h].backup, Without(folder, req[h].moved)) = base
<1>1. folder \in Contents /\ req[h].backup \in Contents
  BY RequestFields DEF LibraryTypeOK
<1> DEFINE kept == Without(folder, req[h].moved)
           undone == Over(req[h].backup, kept)
<1>2. kept \in Contents /\ undone \in Contents
  BY <1>1, WithoutContents, OverContents
<1>3. DOMAIN kept = DOMAIN folder \ req[h].moved /\ \A f \in DOMAIN kept : kept[f] = folder[f]
  BY DEF Without, Restrict
<1> HIDE DEF kept
<1>4. /\ DOMAIN undone = DOMAIN req[h].backup \union DOMAIN kept
      /\ \A f \in DOMAIN undone : undone[f] = IF f \in DOMAIN req[h].backup THEN req[h].backup[f] ELSE kept[f]
  BY DEF Over
<1> HIDE DEF undone
<1>5. DOMAIN undone = DOMAIN base /\ \A f \in DOMAIN undone : undone[f] = base[f]
  BY <1>3, <1>4 DEF UndoneTo
<1>6. undone = base
  BY <1>2, <1>5, SameContents
<1> QED BY <1>6 DEF undone, kept

LEMMA AppliedUndoable ==
    ASSUME NEW r, NEW next, NEW content, NEW base, NEW f, UndoneTo(r, content, base), f \notin r.moved,
           next.backup = Over(Restrict(content, {f} \intersect DOMAIN content), r.backup),
           next.moved = r.moved \union {f}, next.who = r.who
    PROVE  UndoneTo(next, Over([x \in {f} |-> r.who], content), base)
<1> DEFINE new == [x \in {f} |-> r.who]
           kept == Restrict(content, {f} \intersect DOMAIN content)
           after == Over(new, content)
<1>1. DOMAIN new = {f} /\ new[f] = r.who /\ DOMAIN kept = {f} \intersect DOMAIN content /\ \A x \in DOMAIN kept : kept[x] = content[x]
  BY DEF Restrict
<1>2. next.backup = Over(kept, r.backup)
  OBVIOUS
<1> HIDE DEF new, kept
<1>3. /\ DOMAIN after = {f} \union DOMAIN content /\ after[f] = r.who
      /\ \A x \in DOMAIN content \ {f} : after[x] = content[x]
  BY <1>1 DEF Over
<1>4. /\ DOMAIN next.backup = ({f} \intersect DOMAIN content) \union DOMAIN r.backup
      /\ \A x \in DOMAIN next.backup :
           next.backup[x] = IF x \in {f} \intersect DOMAIN content THEN content[x] ELSE r.backup[x]
  BY <1>1, <1>2 DEF Over
<1> HIDE DEF after
<1>5. f \in DOMAIN content => f \in DOMAIN base /\ content[f] = base[f]
  BY DEF UndoneTo
<1>6. f \in DOMAIN base => f \in DOMAIN content
  BY DEF UndoneTo
<1>7. DOMAIN after = DOMAIN base \union next.moved
  BY <1>3 DEF UndoneTo
<1>8. \A x \in DOMAIN after : after[x] = IF x \in next.moved THEN next.who ELSE base[x]
  BY <1>3 DEF UndoneTo
<1>9. DOMAIN next.backup = next.moved \intersect DOMAIN base
  BY <1>4, <1>5, <1>6 DEF UndoneTo
<1>10. \A x \in DOMAIN next.backup : next.backup[x] = base[x]
  BY <1>4, <1>5 DEF UndoneTo
<1> QED BY <1>7, <1>8, <1>9, <1>10 DEF UndoneTo, after, new

LEMMA RemovedFollows ==
    ASSUME NEW r, NEW content \in Contents, NEW base \in Contents, r.who \in Origins, UndoneTo(r, content, base),
           r.files = r.moved, r.files \subseteq Files, r.gone \intersect r.files = {}
    PROVE  Without(content, r.gone) = Over([f \in r.files |-> r.who], Without(base, r.gone))
<1> DEFINE new == [f \in r.files |-> r.who]
           less == Without(content, r.gone)
           rest == Without(base, r.gone)
           both == Over(new, rest)
<1>1. new \in Contents /\ less \in Contents /\ rest \in Contents
  BY WithoutContents DEF Contents
<1>2. both \in Contents
  BY <1>1, OverContents
<1>3. /\ DOMAIN new = r.files /\ \A f \in r.files : new[f] = r.who
      /\ DOMAIN less = DOMAIN content \ r.gone /\ \A f \in DOMAIN less : less[f] = content[f]
      /\ DOMAIN rest = DOMAIN base \ r.gone /\ \A f \in DOMAIN rest : rest[f] = base[f]
  BY DEF Without, Restrict
<1> HIDE DEF new, less, rest
<1>4. DOMAIN both = DOMAIN new \union DOMAIN rest
      /\ \A f \in DOMAIN both : both[f] = IF f \in DOMAIN new THEN new[f] ELSE rest[f]
  BY DEF Over
<1> HIDE DEF both
<1>5. DOMAIN less = DOMAIN both
  BY <1>3, <1>4 DEF UndoneTo
<1>6. \A f \in DOMAIN less : less[f] = both[f]
  BY <1>3, <1>4, <1>5 DEF UndoneTo
<1>7. less = both
  BY <1>1, <1>2, <1>5, <1>6, SameContents
<1> QED BY <1>7 DEF less, both, new, rest

LEMMA SyncedFollows ==
    ASSUME LibraryTypeOK, NEW h \in Handlers, folder = Over(Changed(h), Without(bucket, req[h].gone))
    PROVE  SyncedBucket(req[h].files \union req[h].gone) = folder
<1> DEFINE changed == req[h].files \union req[h].gone
           rest == Without(bucket, req[h].gone)
<1>1. folder \in Contents /\ bucket \in Contents
  BY DEF LibraryTypeOK
<1>2. SyncedBucket(changed) \in Contents
  BY <1>1, SyncedContents
<1>3. DOMAIN Changed(h) = req[h].files /\ DOMAIN rest = DOMAIN bucket \ req[h].gone /\ \A f \in DOMAIN rest : rest[f] = bucket[f]
  BY DEF Changed, Without, Restrict
<1> HIDE DEF rest
<1>4. DOMAIN folder = req[h].files \union DOMAIN rest /\ \A f \in DOMAIN folder \ req[h].files : folder[f] = rest[f]
  BY <1>3 DEF Over, rest
<1>5. \A f \in DOMAIN folder : f \in changed \/ (f \in DOMAIN bucket /\ folder[f] = bucket[f])
  BY <1>3, <1>4
<1> HIDE DEF changed
<1>6. DOMAIN SyncedBucket(changed) = DOMAIN folder /\ \A f \in DOMAIN folder : SyncedBucket(changed)[f] = folder[f]
  BY <1>5 DEF SyncedBucket
<1>7. SyncedBucket(changed) = folder
  BY <1>1, <1>2, <1>6, SameContents
<1> QED BY <1>7 DEF changed

LEMMA FetchedFollows ==
    ASSUME LibraryTypeOK, NEW h \in Handlers, bucket = Over(Changed(h), Without(folder, req[h].gone))
    PROVE  Over(Restrict(bucket, req[h].files), Without(folder, req[h].gone)) = bucket
<1> DEFINE kept == Without(folder, req[h].gone)
           files == req[h].files
<1>1. DOMAIN Changed(h) = files
  BY DEF Changed
<1>2. DOMAIN bucket = files \union DOMAIN kept /\ \A f \in DOMAIN bucket \ files : bucket[f] = kept[f]
  BY <1>1 DEF Over
<1>3. files \subseteq DOMAIN bucket /\ bucket \in Contents /\ folder \in Contents
  BY <1>2 DEF LibraryTypeOK
<1>4. Restrict(bucket, files) \in Contents /\ kept \in Contents
  BY <1>3, RestrictContents, WithoutContents
<1> DEFINE got == Restrict(bucket, files)
           all == Over(got, kept)
<1>5. DOMAIN got = files /\ \A f \in files : got[f] = bucket[f]
  BY DEF Restrict
<1>6. got \in Contents /\ kept \in Contents /\ all \in Contents
  BY <1>4, OverContents
<1> HIDE DEF got, kept, files
<1>7. DOMAIN all = DOMAIN got \union DOMAIN kept /\ \A f \in DOMAIN all : all[f] = IF f \in DOMAIN got THEN got[f] ELSE kept[f]
  BY DEF Over
<1> HIDE DEF all
<1>8. DOMAIN all = DOMAIN bucket /\ \A f \in DOMAIN all : all[f] = bucket[f]
  BY <1>2, <1>5, <1>7
<1>9. all = bucket
  BY <1>3, <1>6, <1>8, SameContents
<1> QED BY <1>9 DEF all, got, kept, files

LEMMA RestoredFollows ==
    ASSUME LibraryTypeOK, ~FolderExists
    PROVE  Over(Restrict(bucket, DOMAIN bucket), folder) = bucket
<1>1. bucket \in Contents /\ folder = << >>
  BY DEF LibraryTypeOK, FolderExists
<1> DEFINE got == Restrict(bucket, DOMAIN bucket)
           all == Over(got, folder)
<1>2. DOMAIN got = DOMAIN bucket /\ \A f \in DOMAIN bucket : got[f] = bucket[f]
  BY DEF Restrict
<1>3. DOMAIN folder = {}
  BY <1>1
<1>4. got \in Contents /\ folder \in Contents /\ all \in Contents
  BY <1>1, RestrictContents, OverContents DEF LibraryTypeOK
<1> HIDE DEF got
<1>5. DOMAIN all = DOMAIN bucket /\ \A f \in DOMAIN all : all[f] = bucket[f]
  BY <1>2, <1>3 DEF Over
<1> HIDE DEF all
<1>6. all = bucket
  BY <1>1, <1>4, <1>5, SameContents
<1> QED BY <1>6 DEF all, got

(* The requests beside one that goes on.                                     *)
LEMMA OthersCopied ==
    ASSUME CopyInv, NEW h \in Handlers, Kept(h),
           label' \in Complete =>
             \/ ~Others(h, CommitSteps)
             \/ label \in Complete /\ ~Others(h, {"apply", "store", "fetch"})
             \/ label \in Complete /\ UNCHANGED <<folder, bucket>> /\ (manifest # "none" => manifest' # "none")
    PROVE  \A k \in Handlers \ {h} : ChangeBegun(k)' /\ (label' \in Complete => ChangeFollows(k)')
<1> SUFFICES ASSUME NEW k \in Handlers \ {h} PROVE ChangeBegun(k)' /\ (label' \in Complete => ChangeFollows(k)')
  OBVIOUS
<1>1. req'[k] = req[k] /\ ChangeBegun(k) /\ (label \in Complete => ChangeFollows(k))
  BY DEF Kept, CopyInv
<1>2. ChangeBegun(k)'
  BY <1>1 DEF ChangeBegun
<1>3. ASSUME label' \in Complete, ~Others(h, CommitSteps) PROVE ChangeFollows(k)'
  BY <1>1, <1>3 DEF Others, ChangeFollows, CommitSteps
<1>4. ASSUME label \in Complete, ~Others(h, {"apply", "store", "fetch"}) PROVE ChangeFollows(k)'
  BY <1>1, <1>4 DEF Others, ChangeFollows
<1>5. ASSUME label \in Complete, UNCHANGED <<folder, bucket>>, manifest # "none" => manifest' # "none" PROVE ChangeFollows(k)'
  BY <1>1, <1>5 DEF ChangeFollows, Changed
<1> QED BY <1>2, <1>3, <1>4, <1>5

LEMMA CopyKept ==
    ASSUME CopyInv, NEW h \in Handlers, Kept(h), UNCHANGED <<diskVars, bucketVars, downloads>>,
           req[h].pc \notin CopyingSteps, req'[h].pc \notin CommitSteps,
           label \in Complete => model' = NoModel \/ Served(model') \/ (UNCHANGED model /\ req[h].pc # "restore_index")
    PROVE  CopyInv'
<1>1. \A k \in Handlers \ {h} : ChangeBegun(k)' /\ (label' \in Complete => ChangeFollows(k)')
  BY OthersCopied DEF diskVars, bucketVars
<1>2. ChangeBegun(h)' /\ ChangeFollows(h)'
  BY DEF ChangeBegun, ChangeFollows, CommitSteps
<1>3. CopyFollows'
  <2>1. Within(CopyingSteps) => Within(CopyingSteps)'
    BY DEF Within, Kept
  <2> QED BY <2>1 DEF CopyInv, CopyFollows, WorkerAt, diskVars, bucketVars
<1>4. CopyIndexed'
  <2>1. Within({"restore_index"}) /\ req[h].pc # "restore_index" => Within({"restore_index"})'
    BY DEF Within, Kept
  <2> QED BY <2>1 DEF CopyInv, CopyIndexed, WorkerAt, diskVars
<1> QED BY <1>1, <1>2, <1>3, <1>4 DEF CopyInv

LEMMA NoCopy ==
    ASSUME CopyInv, NEW h \in Handlers, Kept(h), label' \notin Complete, ChangeBegun(h)'
    PROVE  CopyInv'
BY OthersCopied DEF CopyInv, CopyFollows, CopyIndexed

LEMMA IndexedServed ==
    ASSUME OwnedByRow, place # "disk", label \in Complete, IndexPath
    PROVE  Served(model')
<1>1. Registered(label)
  BY DEF OwnedByRow, Registered
<1>2. model' = [target |-> "bucket", cached |-> TRUE]
  BY <1>1 DEF IndexPath, FolderModel, Target
<1> QED BY <1>2 DEF Served

LEMMA CacheKeepsCopy ==
    ASSUME LibraryTypeOK, ShelfInv, CopyInv, NEW h \in Handlers, Cache(h, ActiveDownload, WorkerRuns),
           UNCHANGED downloads, strays' \intersect Unsettling = {}, place # "disk"
    PROVE  CopyInv'
<1>1. /\ req \in [Handlers -> Request] /\ OwnedByRow /\ FolderLabelled
      /\ Kept(h) /\ req'[h].pc \in CacheFree /\ UNCHANGED <<bucketVars, row>>
  BY CacheStaysFree DEF LibraryTypeOK, ShelfInv, StateShelved
<1>2. req[h].pc \notin CopyingSteps /\ req'[h].pc \notin CommitSteps /\ ChangeBegun(h)'
  BY <1>1 DEF CacheFree, CopyingSteps, CommitSteps, ChangeBegun, Cache, Scan, ScanFolder, ScanList, ScanIndex, ScanCommit,
       ScanLocal, Restore, RestoreFiles, RestoreIndex, Evict, EvictFolder, EvictIndex, Free, At
<1>3. CASE Scan(h) \/ ScanList(h) \/ ScanCommit(h) \/ ScanLocal(h) \/ Restore(h, ActiveDownload) \/ Evict(h, ActiveDownload)
  <2>1. UNCHANGED <<model, diskVars>> /\ req[h].pc # "restore_index"
    BY <1>3 DEF Scan, ScanList, ScanCommit, ScanLocal, Restore, Evict, Free, At
  <2> QED BY <1>1, <1>2, <2>1, CopyKept
<1>4. CASE ScanFolder(h, WorkerRuns) \/ RestoreIndex(h)
  <2>1. UNCHANGED diskVars /\ (label \in Complete => IndexPath)
    BY <1>1, <1>4 DEF ScanFolder, RestoreIndex, Candidate, Registered, OwnedByRow
  <2> QED BY <1>1, <1>2, <2>1, IndexedServed, CopyKept
<1>5. CASE ScanIndex(h)
  <2> DEFINE met == \/ req[h].kind # manifest \/ req[h].local # (label \in Complete)
                    \/ row = "uploading" \/ Others(h, StoringSteps \union PublishingSteps \union CacheSteps)
  <2>1. Strays("scan", met)
    BY <1>5 DEF ScanIndex
  <2>2. ~met
    <3> HIDE DEF met
    <3> QED BY <2>1 DEF Strays, Unsettling
  <2>3. req[h].local \in BOOLEAN
    BY <1>1, RequestFields
  <2>4. label \in Complete => req[h].local = TRUE
    BY <2>2, <2>3
  <2> HIDE DEF met
  <2>5. UNCHANGED diskVars /\ req[h].pc = "scan_index" /\ (UNCHANGED model \/ model' = NoModel \/ IndexRemote(req[h].local))
    BY <1>5 DEF ScanIndex, At
  <2>6. label \in Complete => UNCHANGED model \/ model' = NoModel \/ Served(model')
    BY <2>4, <2>5 DEF IndexRemote, Served
  <2> QED BY <1>1, <1>2, <2>5, <2>6, CopyKept
<1>6. CASE RestoreFiles(h)
  <2>1. /\ req[h].files = DOMAIN bucket /\ manifest # "none" /\ ~FolderExists
        /\ ~Others(h, StoringSteps \union RemovingSteps \union ScanSteps
                        \union {"delete", "commit", "commit_upload", "evict_index"})
        /\ folder' = Over(Restrict(bucket, DOMAIN bucket), folder) /\ GoesTo(h, "restore_index")
    BY <1>6 DEF RestoreFiles, Strays, Unsettling
  <2>2. folder' = bucket /\ Moves(h, "restore_index") /\ ~Others(h, CommitSteps)
    BY <1>1, <2>1, RestoredFollows, GoesOn DEF Others, CommitSteps, StoringSteps
  <2>3. CopyFollows' /\ CopyIndexed'
    BY <1>1, <2>1, <2>2 DEF CopyFollows, CopyIndexed, Within, Moves, bucketVars
  <2>4. \A k \in Handlers \ {h} : ChangeBegun(k)' /\ (label' \in Complete => ChangeFollows(k)')
    BY <1>1, <2>2, OthersCopied
  <2>5. ChangeFollows(h)'
    BY <1>2 DEF ChangeFollows, CommitSteps
  <2> QED BY <1>2, <2>3, <2>4, <2>5 DEF CopyInv
<1>7. CASE EvictFolder(h, WorkerRuns)
  <2>1. (UNCHANGED <<model, diskVars>> /\ req[h].pc = "evict") \/ label' = "none"
    BY <1>7 DEF EvictFolder, At
  <2> QED BY <1>1, <1>2, <2>1, CopyKept, NoCopy DEF Complete
<1>8. CASE EvictIndex(h)
  <2>1. UNCHANGED diskVars /\ label = "none"
    BY <1>8 DEF EvictIndex, Strays, Unsettling, FolderExists
  <2> QED BY <1>1, <1>2, <2>1, NoCopy DEF Complete, diskVars
<1> QED BY <1>3, <1>4, <1>5, <1>6, <1>7, <1>8 DEF Cache

LEMMA FromTheHubKeepsCopy ==
    ASSUME LibraryTypeOK, DownloadsTypeOK, CopyInv, NEW h \in Handlers, FromTheHub(h), CancelsKnown
    PROVE  CopyInv'
<1>1. req \in [Handlers -> Request] /\ downloads \in [1 .. MaxDownloads -> Download]
  BY DEF LibraryTypeOK, DownloadsTypeOK
<1>2. /\ Kept(h) /\ req'[h].pc \in {"idle", "enqueue", "cancel", "cancel_row"}
      /\ UNCHANGED <<folder, bucketVars, model>> /\ (UNCHANGED label \/ label' = "cancelled")
      /\ DOMAIN downloads' = DOMAIN downloads
      /\ \A d \in DOMAIN downloads : downloads'[d].pc = downloads[d].pc \/ downloads[d].pc = "none"
  BY <1>1, HubTurns DEF Starts, Moves, Rests
<1>3. req[h].pc \in {"idle", "enqueue", "cancel", "cancel_row"} /\ ChangeBegun(h)' /\ ChangeFollows(h)'
  BY <1>2 DEF FromTheHub, StartDownload, Enqueue, Cancel, CancelFolder, CancelRow, Free, At, ChangeBegun, ChangeFollows, CommitSteps
<1>4. CASE label' = "cancelled"
  BY <1>2, <1>3, <1>4, NoCopy DEF Complete
<1>5. CASE UNCHANGED label
  <2>1. \A k \in Handlers \ {h} : ChangeBegun(k)' /\ (label' \in Complete => ChangeFollows(k)')
    BY <1>2, <1>5, OthersCopied DEF bucketVars
  <2>2. /\ Within(CopyingSteps) => Within(CopyingSteps)' 
        /\ Within({"restore_index"}) => Within({"restore_index"})'
    BY <1>2, <1>3 DEF Within, Kept, CopyingSteps
  <2>3. (WorkerAt({"sync"}) => WorkerAt({"sync"})') /\ (WorkerAt({"sync", "index"}) => WorkerAt({"sync", "index"})')
    BY <1>2 DEF WorkerAt
  <2> QED BY <1>2, <1>3, <1>5, <2>1, <2>2, <2>3 DEF CopyInv, CopyFollows, CopyIndexed, bucketVars
<1> QED BY <1>2, <1>4, <1>5

LEMMA WorkerKeepsCopy ==
    ASSUME LibraryTypeOK, DownloadsTypeOK, WorkInv, ShelfInv, CopyInv, NEW d \in DOMAIN downloads, Worker(d),
           strays' \intersect Unsettling = {}, place # "disk"
    PROVE  CopyInv'
<1>1. downloads \in [1 .. MaxDownloads -> Download] /\ OwnedByRow
  BY DEF DownloadsTypeOK, ShelfInv, StateShelved
<1>2. UNCHANGED <<req, row>> /\ OthersStay(d) /\ (\A h \in Handlers : ChangeBegun(h)')
  BY <1>1, WorkerTurns DEF CopyInv, ChangeBegun
<1>3. \A steps : Within(steps)' = Within(steps)
  BY <1>2 DEF Within
<1>4. \A steps : WorkerAt(steps) => WorkerAt(steps)' \/ downloads[d].pc \in steps
  BY <1>2 DEF WorkerAt, OthersStay
<1>5. \A steps : downloads'[d].pc \in steps => WorkerAt(steps)'
  BY <1>2 DEF WorkerAt, OthersStay
<1>6. ASSUME label' \notin Complete PROVE CopyInv'
  BY <1>2, <1>6 DEF CopyInv, CopyFollows, CopyIndexed
<1>7. ASSUME UNCHANGED <<diskVars, bucketVars>> PROVE \A h \in Handlers : label' \in Complete => ChangeFollows(h)'
  BY <1>2, <1>7 DEF CopyInv, ChangeFollows, Changed, diskVars, bucketVars
<1>8. ASSUME SomeGoes PROVE \A h \in Handlers : ChangeFollows(h)'
  <2>1. \A h \in Handlers : req'[h].pc \notin CommitSteps
    BY <1>2, <1>8 DEF WorkInv, Within, AlteringSteps, StoringSteps, WaitingSteps, CommitSteps
  <2> QED BY <2>1 DEF ChangeFollows, CommitSteps
<1>9. CASE Stays(d) \/ Halts(d)
  <2>1. UNCHANGED <<diskVars, bucketVars, model>>
    BY <1>9 DEF Stays, Halts, Unaltered, Unsettling
  <2>2. (WorkerAt({"sync"}) => WorkerAt({"sync"})') /\ (WorkerAt({"sync", "index"}) => WorkerAt({"sync", "index"})')
    BY <1>4, <1>5, <1>9 DEF Stays, Halts, Unsettling
  <2> QED BY <1>2, <1>3, <1>7, <2>1, <2>2 DEF CopyInv, CopyFollows, CopyIndexed, diskVars, bucketVars
<1>10. CASE SetsOut(d)
  BY <1>6, <1>10 DEF SetsOut, Complete
<1>11. CASE Takes(d)
  <2>1. label' \notin Complete
    BY <1>11 DEF Takes, WorkInv, Going
  <2> QED BY <1>6, <2>1
<1>12. CASE HasAll(d)
  <2>1. SomeGoes /\ WorkerAt({"sync"})' /\ WorkerAt({"sync", "index"})'
    BY <1>5, <1>12 DEF HasAll, SomeGoes, Going
  <2> QED BY <1>2, <1>8, <2>1 DEF CopyInv, CopyFollows, CopyIndexed
<1>13. CASE Syncs(d)
  <2>1. SomeGoes /\ WorkerAt({"sync", "index"})' /\ label \in Complete /\ bucket' = folder /\ manifest' = label
        /\ UNCHANGED <<folder, label>>
    BY <1>5, <1>13 DEF Syncs, SomeGoes, Going, WorkInv, FetchedSteps, diskVars
  <2> QED BY <1>2, <1>8, <2>1 DEF CopyInv, CopyFollows, CopyIndexed, Complete
<1>14. CASE Indexes(d)
  <2>1. UNCHANGED <<diskVars, bucketVars>> /\ (label \in Complete => Served(model'))
    BY <1>1, <1>14, IndexedServed DEF Indexes
  <2>2. WorkerAt({"sync"}) => WorkerAt({"sync"})'
    BY <1>4, <1>14 DEF Indexes
  <2> QED BY <1>2, <1>3, <1>7, <2>1, <2>2 DEF CopyInv, CopyFollows, CopyIndexed, diskVars, bucketVars
<1> QED BY <1>1, <1>6, <1>9, <1>10, <1>11, <1>12, <1>13, <1>14, WorkerTurns

LEMMA UploadingKeepsCopy ==
    ASSUME LibraryTypeOK, UploadsTypeOK, PlaceInv, LockInv, RowInv, HiddenInv, ShelfInv, CopyInv, NEW h \in Handlers,
           Uploading(h, ActiveDownload, WorkerRuns), UNCHANGED <<place, downloads>>, strays' \intersect Unsettling = {},
           strays \subseteq strays', place # "disk"
    PROVE  CopyInv'
<1>1. /\ req \in [Handlers -> Request] /\ row \in {"none", "uploading", "ready"} /\ RequestPlaced(h) /\ RequestRow(h)
      /\ StateShelved /\ RequestShelved(h) /\ Alone(RepoSteps) /\ Alone(WriteSteps) /\ TargetRow /\ WorkersRow
      /\ label \in Complete \union Unready \union {"none"} /\ "failed" \notin strays
  BY DEF LibraryTypeOK, PlaceInv, RowInv, ShelfInv, LockInv, Unsettling, Unready
<1> DEFINE Plain == {"idle", "chunk", "begin_record", "complete_record", "sweep_discard", "finalize", "publish",
                     "delete", "delete_upload", "unpublish", "finalize_ready"}
<1>2. ASSUME Kept(h), UNCHANGED <<diskVars, bucketVars>>, req[h].pc \notin CopyingSteps, req'[h].pc \in Plain,
             (UNCHANGED model /\ req[h].pc # "restore_index") \/ model' = NoModel \/ (label \in Complete => Served(model'))
      PROVE  CopyInv'
  BY <1>2, CopyKept DEF CommitSteps
<1>3. ASSUME Kept(h), label' \notin Complete, req'[h].pc \notin CommitSteps PROVE CopyInv'
  BY <1>3, NoCopy DEF ChangeBegun, CommitSteps
<1>4. CASE CreateUpload(h)
  <2>1. Rests(h) /\ label' \in {"none", "uploading"}
    BY <1>1, <1>4, UploadingTurns DEF CreateUpload, NameFree, FolderExists
  <2> QED BY <1>3, <2>1 DEF Complete, CommitSteps, Rests
<1>5. CASE (\E f \in Files : Chunk(h, f)) \/ BeginRecord(h) \/ CompleteRecord(h) \/ SweepList(h) \/ SweepDiscard(h) \/ Forget(h)
           \/ (\E w \in Sessions \union {Upload}, f \in Files : BeginFile(h, w, f))
           \/ Finalize(h) \/ FinalizeReady(h) \/ PublishReady(h)
  <2>1. UNCHANGED <<diskVars, bucketVars, model>>
    BY <1>5 DEF Chunk, BeginRecord, CompleteRecord, SweepList, SweepDiscard, Forget, BeginFile, Finalize, FinalizeReady, PublishReady
  <2>2. req[h].pc \notin CopyingSteps /\ req[h].pc # "restore_index"
    BY <1>5 DEF Chunk, BeginRecord, CompleteRecord, SweepList, SweepDiscard, Forget, BeginFile, Finalize, FinalizeReady,
                PublishReady, Free, At, CopyingSteps
  <2>3. Kept(h) /\ req'[h].pc \in {"idle", "chunk", "begin_record", "sweep_discard", "finalize", "publish"}
    BY <1>1, <1>5, UploadingTurns DEF Starts, Rests
  <2> QED BY <1>2, <2>1, <2>2, <2>3
<1>6. CASE Delete(h, ActiveDownload) \/ AbortUpload(h)
  <2>1. UNCHANGED <<diskVars, bucketVars, model>> /\ req[h].pc \notin CopyingSteps /\ req[h].pc # "restore_index"
    BY <1>6 DEF Delete, AbortUpload, Free, At, CopyingSteps
  <2>2. Kept(h) /\ req'[h].pc \in {"delete", "delete_upload", "unpublish"}
    BY <1>1, <1>6, UploadingTurns, DeleteTurns DEF Moves
  <2> QED BY <1>2, <2>1, <2>2
<1>7. ASSUME NEW w \in Sessions \union {Upload}, NEW f \in Files, CompleteFile(h, w, f) PROVE CopyInv'
  <2>1. Kept(h) /\ req'[h].pc = "complete_record" /\ UNCHANGED <<diskVars, model, manifest>> /\ req[h].pc = "idle"
    BY <1>1, <1>7, UploadingTurns DEF CompleteFile, Starts
  <2>2. CASE w # Upload
    BY <1>2, <1>7, <2>1, <2>2 DEF CompleteFile, CopyingSteps, bucketVars
  <2>3. CASE w = Upload
    <3>1. /\ manifest = "none" /\ row = "uploading" /\ place = "direct"
          /\ \A k \in Handlers \ {h} : req[k].pc # "remove"
      BY <1>1, <1>7, <2>3 DEF CompleteFile, Accepts, TargetRow, Strays, Unsettling, Others, RemovingSteps
    <3>2. ~Within(ShowingSteps) => label = "none"
      BY <1>1, <3>1, DirectUnshown
    <3>3. ASSUME Within(ShowingSteps) PROVE ~Within(CopyingSteps)
      <4>1. PICK k \in Handlers : req[k].pc \in ShowingSteps
        BY <3>3 DEF Within
      <4>2. req[k].pc \in {"publish_index", "publish_ready"} /\ req[k].pc \in RepoSteps
        BY <3>1, <4>1, LocksOfSteps DEF RowInv, RequestRow, FinalizingSteps, ShowingSteps
      <4>3. \A j \in Handlers : req[j].pc \in RepoSteps => req[j].pc \in {"publish_index", "publish_ready"}
        BY <1>1, <4>2 DEF Alone
      <4> QED BY <2>1, <3>1, <4>3, LocksOfSteps DEF Within, CopyingSteps
    <3>4. ~WorkerAt({"sync"})
      BY <1>1, <3>1 DEF WorkersRow, WorkerAt
    <3>5. label \notin Complete
      BY <3>1, <3>2, <3>3, <3>4 DEF CopyInv, CopyFollows, Complete
    <3> QED BY <1>3, <2>1, <3>5 DEF diskVars, CommitSteps
  <2> QED BY <2>2, <2>3
<1>8. CASE ChunkWritten(h)
  <2>1. Rests(h) /\ UNCHANGED <<row, model, label, bucketVars>> /\ req[h].pc = "chunk"
    BY <1>1, <1>8, UploadingTurns DEF ChunkWritten, At
  <2>2. CASE UNCHANGED <<folder, parts>>
    BY <1>2, <2>1, <2>2 DEF Rests, diskVars, CopyingSteps
  <2>3. CASE ~UNCHANGED <<folder, parts>>
    <3>1. row = "uploading" /\ place # "direct" /\ WriteLock(h)
      BY <1>1, <1>8, <2>1, <2>3 DEF ChunkWritten, Strays, Unsettling, RequestRow, FinalizingSteps
    <3>2. ~Within(ShowingSteps) /\ ~Within({"finalize_sync"})
      BY <2>1, <3>1 DEF ShelfInv, RequestShelved, Within, ShowingSteps, WriteLock, Others, StoringSteps
    <3>3. label \in Unready
      BY <1>1, <3>1, <3>2, NotYetShown DEF Unshown, LabelInv
    <3> QED BY <1>3, <2>1, <3>3 DEF Rests, Complete, Unready, CommitSteps
  <2> QED BY <2>2, <2>3
<1>9. CASE FinalizeChecked(h)
  <2>1. UNCHANGED <<row, model, folder, parts, bucketVars>> /\ req[h].pc = "finalize" /\ RepoLock(h)
    BY <1>9 DEF FinalizeChecked, At
  <2>2. CASE parts = {} /\ folder # << >>
    <3>1. Kept(h) /\ req'[h].pc = "finalize_sync" /\ label' = "owned"
      BY <1>1, <1>9, <2>2, UploadingTurns DEF FinalizeChecked
    <3>2. row = "uploading" => model = NoModel /\ ~Within(SeenSteps)
      <4>1. ~Within(ShowingSteps) /\ ~Within({"finalize_sync"})
        BY <2>1 DEF RepoLock, Others, Within, ShowingSteps, StoringSteps, PublishingSteps
      <4> QED BY <1>1, <4>1, NotYetShown DEF Unshown, Unseeing, Within
    <3>3. row = "ready" => label \in Complete
      BY <1>1, <2>2 DEF StateShelved, FolderLabelled, ReadyLabelled, FolderExists
    <3>4. row \in {"uploading", "ready"}
      BY <1>1, <2>1 DEF RequestRow, UploadSteps, FinalizingSteps
    <3>5. ~Within(SeenSteps) => ~Others(h, CommitSteps)
      BY DEF Within, Others, SeenSteps, CommitSteps
    <3>6. \A k \in Handlers \ {h} : ChangeBegun(k)' /\ (label' \in Complete => ChangeFollows(k)')
      BY <2>1, <3>1, <3>2, <3>3, <3>4, <3>5, OthersCopied DEF bucketVars
    <3>7. ChangeBegun(h)' /\ ChangeFollows(h)' /\ Within(CopyingSteps)'
      BY <3>1 DEF ChangeBegun, ChangeFollows, CommitSteps, CopyingSteps, Within
    <3>8. Within({"restore_index"}) => Within({"restore_index"})'
      BY <2>1, <3>1 DEF Within, Kept
    <3> QED BY <2>1, <3>2, <3>3, <3>4, <3>6, <3>7, <3>8 DEF CopyInv, CopyFollows, CopyIndexed, WorkerAt
  <2>3. CASE ~(parts = {} /\ folder # << >>)
    BY <1>1, <1>2, <1>9, <2>1, <2>3, UploadingTurns DEF FinalizeChecked, Rests, diskVars, CopyingSteps
  <2> QED BY <2>2, <2>3
<1>10. CASE FinalizeSync(h)
  <2>1. Moves(h, "finalize_index") /\ UNCHANGED <<model, diskVars>> /\ label \in Complete /\ bucket' = folder /\ manifest' = label
        /\ req[h].pc = "finalize_sync"
    BY <1>1, <1>10, GoesOn DEF FinalizeSync, Strays, Unsettling, diskVars, At
  <2>2. ~Others(h, {"apply", "store", "fetch"})
    BY <1>1, <2>1, LocksOfSteps DEF Alone, Others
  <2>3. \A k \in Handlers \ {h} : ChangeBegun(k)' /\ (label' \in Complete => ChangeFollows(k)')
    BY <2>1, <2>2, OthersCopied DEF Moves
  <2>4. ChangeBegun(h)' /\ ChangeFollows(h)'
    BY <2>1 DEF Moves, ChangeBegun, ChangeFollows, CommitSteps
  <2>5. Within({"restore_index"}) => Within({"restore_index"})'
    BY <2>1 DEF Within, Moves, Kept
  <2> QED BY <2>1, <2>3, <2>4, <2>5 DEF CopyInv, CopyFollows, CopyIndexed, WorkerAt, diskVars, Complete
<1>11. CASE FinalizeIndex(h)
  <2>1. Moves(h, "finalize_ready") /\ UNCHANGED <<diskVars, bucketVars>> /\ req[h].pc = "finalize_index" /\ IndexPath
    BY <1>1, <1>11, UploadingTurns DEF FinalizeIndex, At
  <2> QED BY <1>1, <1>2, <2>1, IndexedServed DEF Moves, StateShelved, CopyingSteps
<1>12. CASE Publish(h)
  <2>1. UNCHANGED <<row, model, diskVars, bucket>> /\ req[h].pc = "publish" /\ RepoLock(h) /\ place = "direct"
    BY <1>1, <1>12 DEF Publish, At, RequestShelved
  <2>2. CASE Ends(h) /\ UNCHANGED <<manifest, ghosts>>
    BY <1>1, <1>2, <2>1, <2>2, TurnsIdle DEF Rests, CopyingSteps, bucketVars
  <2>3. CASE ~(Ends(h) /\ UNCHANGED <<manifest, ghosts>>)
    <3>1. Moves(h, "publish_index") /\ row = "uploading"
      BY <1>1, <1>12, <2>3, GoesOn DEF Publish, Strays, Unsettling
    <3>2. ~Within(ShowingSteps)
      BY <2>1 DEF RepoLock, Others, Within, ShowingSteps, StoringSteps, PublishingSteps
    <3>3. label = "none"
      BY <1>1, <2>1, <3>1, <3>2, DirectUnshown
    <3> QED BY <1>3, <2>1, <3>1, <3>3 DEF Moves, diskVars, Complete, CommitSteps
  <2> QED BY <2>2, <2>3
<1>13. CASE PublishIndex(h)
  <2>1. Moves(h, "publish_ready") /\ UNCHANGED diskVars /\ req[h].pc = "publish_index"
    BY <1>1, <1>13, UploadingTurns DEF PublishIndex, At
  <2>2. label = "none"
    BY <1>1, <2>1 DEF StateShelved, PublishedFirst, Within, FolderExists
  <2> QED BY <1>3, <2>1, <2>2 DEF Moves, diskVars, Complete, CommitSteps
<1>14. CASE Unpublish(h) \/ UnpublishRows(h)
  <2>1. Kept(h) /\ req'[h].pc \in {"idle", "unpublish_rows"} /\ UNCHANGED diskVars /\ req[h].pc \in {"unpublish", "unpublish_rows"}
    BY <1>1, <1>14, UploadingTurns DEF Unpublish, UnpublishRows, At, Moves, Rests
  <2>2. row = "uploading" /\ place = "direct"
    BY <1>1, <2>1 DEF RequestShelved, RequestPlaced
  <2>3. ~Within(ShowingSteps)
    <3>1. \A k \in Handlers : req[k].pc \in RepoSteps => req[k].pc \in {"unpublish", "unpublish_rows"}
      BY <1>1, <2>1, LocksOfSteps DEF Alone
    <3> QED BY <3>1, LocksOfSteps DEF Within, ShowingSteps
  <2>4. label = "none"
    BY <1>1, <2>2, <2>3, DirectUnshown
  <2> QED BY <1>3, <2>1, <2>4 DEF diskVars, Complete, CommitSteps
<1>15. CASE Remove(h, WorkerRuns)
  <2>1. UNCHANGED <<model, diskVars>> /\ req[h].pc = "delete" /\ WriteLock(h)
    BY <1>15 DEF Remove, At
  <2>2. CASE Ends(h) /\ UNCHANGED bucketVars
    BY <1>1, <1>2, <2>1, <2>2, TurnsIdle DEF Rests, CopyingSteps
  <2>3. CASE ~(Ends(h) /\ UNCHANGED bucketVars)
    <3>1. Moves(h, "remove")
      BY <1>1, <1>15, <2>3, GoesOn DEF Remove, Strays, Unsettling
    <3>2. ~Others(h, {"apply", "store", "fetch"})
      BY <2>1 DEF WriteLock, Others, StoringSteps
    <3>3. \A k \in Handlers \ {h} : ChangeBegun(k)' /\ (label' \in Complete => ChangeFollows(k)')
      BY <2>1, <3>1, <3>2, OthersCopied DEF Moves, diskVars
    <3>4. ChangeBegun(h)' /\ ChangeFollows(h)' /\ Within(CopyingSteps)'
      BY <3>1 DEF Moves, ChangeBegun, ChangeFollows, CommitSteps, Within, CopyingSteps
    <3>5. Within({"restore_index"}) => Within({"restore_index"})'
      BY <2>1, <3>1 DEF Within, Moves, Kept
    <3> QED BY <2>1, <3>3, <3>4, <3>5 DEF CopyInv, CopyFollows, CopyIndexed, WorkerAt, diskVars
  <2> QED BY <2>2, <2>3
<1>16. CASE RemoveFolder(h, WorkerRuns)
  <2>1. Moves(h, "forget") /\ label' = "none"
    BY <1>1, <1>16, UploadingTurns DEF RemoveFolder
  <2> QED BY <1>3, <2>1 DEF Moves, Complete, CommitSteps
<1> QED BY <1>4, <1>5, <1>6, <1>7, <1>8, <1>9, <1>10, <1>11, <1>12, <1>13, <1>14, <1>15, <1>16 DEF Uploading

(* The steps of a change, one commit at a time.                              *)
LEMMA ChangeCopied ==
    ASSUME CopyInv, NEW h \in Handlers, Kept(h), UNCHANGED <<label, downloads>>, ~Others(h, CopyingSteps),
           req[h].pc # "restore_index", UNCHANGED model, ChangeBegun(h)',
           label \in Complete =>
             ChangeFollows(h)' /\ ((folder' = bucket' /\ manifest' # "none") \/ req'[h].pc \in CopyingSteps)
    PROVE  CopyInv'
<1>1. CASE label \notin Complete
  BY <1>1, NoCopy
<1>2. CASE label \in Complete
  <2>1. \A k \in Handlers \ {h} : ChangeBegun(k)' /\ (label' \in Complete => ChangeFollows(k)')
    BY <1>2, OthersCopied DEF Others, CopyingSteps
  <2>2. CopyFollows'
    BY <1>2 DEF CopyFollows, Within
  <2>3. Within({"restore_index"}) => Within({"restore_index"})'
    BY DEF Within, Kept
  <2> QED BY <1>2, <2>1, <2>2, <2>3 DEF CopyInv, CopyIndexed, WorkerAt
<1> QED BY <1>1, <1>2

(* While a change is asked for, no worker stores or enters what it fetched.  *)
LEMMA WorkersWait ==
    ASSUME WorkInv, NEW h \in Handlers, req[h].pc \in CommitSteps
    PROVE  ~WorkerAt({"sync", "index"})
<1>1. Within(AlteringSteps)
  BY DEF Within, AlteringSteps, CommitSteps, StoringSteps, WaitingSteps
<1>2. ~SomeGoes
  BY <1>1 DEF WorkInv
<1> QED BY <1>2 DEF WorkInv, SomeGoes, Going, WorkerAt, FetchedSteps

LEMMA WorkersActive ==
    ASSUME WorkInv, WorkersCounted, WorkerAt({"sync", "index"})
    PROVE  ActiveDownload
<1>1. PICK d \in DOMAIN downloads : downloads[d].pc \in {"sync", "index"}
  BY DEF WorkerAt
<1>2. downloads[d].status \in Downloading
  BY <1>1 DEF WorkersCounted, WorkInv, FetchedSteps
<1> QED BY <1>1, <1>2 DEF ActiveDownload

(* A commit begins with nothing done.                                        *)
LEMMA CommitBegins ==
    ASSUME req \in [Handlers -> Request], NEW h \in Handlers, NEW s, NEW downloading, Commit(h, s, downloading)
    PROVE  req'[h].moved = {} /\ req'[h].backup = << >> /\ req'[h].gone \intersect req'[h].files = {}
<1> DEFINE files == IF session[s] = "direct" THEN Of1(s) ELSE Whole(s)
           gone == Deletes[s] \ files
           local == model.cached /\ FolderExists
           at == model.target
           step == IF session[s] = "direct" THEN "commit_upload" ELSE "commit"
<1>1. Begins(h, [Idle EXCEPT !.pc = step, !.who = s, !.files = files, !.gone = gone, !.local = local, !.at = at])
  BY DEF Commit
<1> HIDE DEF files, local, at, step
<1>3. gone \intersect files = {}
  OBVIOUS
<1> HIDE DEF gone
<1>2. req'[h] = [Idle EXCEPT !.pc = step, !.who = s, !.files = files, !.gone = gone, !.local = local, !.at = at]
  BY <1>1, TurnsTo
<1> QED BY <1>2, <1>3 DEF Idle

LEMMA CopySame ==
    ASSUME CopyInv, UNCHANGED <<diskVars, bucketVars, model, downloads>>, \A k \in Handlers : req'[k] = req[k]
    PROVE  CopyInv'
<1>1. UNCHANGED <<folder, label, bucket, manifest, model, downloads>>
  BY DEF diskVars, bucketVars
<1>2. ASSUME NEW k \in Handlers PROVE ChangeBegun(k)' /\ (label' \in Complete => ChangeFollows(k)')
  <2>1. req'[k] = req[k] /\ ChangeBegun(k) /\ (label \in Complete => ChangeFollows(k))
    BY DEF CopyInv
  <2>2. ChangeBegun(k)'
    BY <2>1 DEF ChangeBegun
  <2>3. ChangeFollows(k) => ChangeFollows(k)'
    BY <1>1, <2>1 DEF ChangeFollows, Changed
  <2> QED BY <1>1, <2>1, <2>2, <2>3
<1>3. /\ Within(CopyingSteps)' = Within(CopyingSteps) /\ Within({"restore_index"})' = Within({"restore_index"})
      /\ WorkerAt({"sync"})' = WorkerAt({"sync"}) /\ WorkerAt({"sync", "index"})' = WorkerAt({"sync", "index"})
  BY <1>1 DEF Within, WorkerAt
<1> QED BY <1>1, <1>2, <1>3 DEF CopyInv, CopyFollows, CopyIndexed

LEMMA ChangingKeepsCopy ==
    ASSUME LibraryTypeOK, WorkersCounted, PlaceInv, LockInv, WorkInv, ShelfInv, CopyInv, NEW h \in Handlers,
           Changing(h, ActiveDownload), UNCHANGED <<place, downloads>>, strays' \intersect Unsettling = {}, place # "disk"
    PROVE  CopyInv'
<1>1. /\ req \in [Handlers -> Request] /\ RequestPlaced(h) /\ StateShelved /\ RequestShelved(h)
      /\ Alone(RepoSteps) /\ Alone(WriteSteps) /\ "failed" \notin strays' /\ ChangeBegun(h)
  BY DEF LibraryTypeOK, PlaceInv, ShelfInv, LockInv, Unsettling, CopyInv
<1>2. ASSUME NEW s \in Sessions, StartChange(h, s) \/ (\E f \in Files : StageChunk(h, s, f)) PROVE CopyInv'
  <2>1. Rests(h) /\ req[h].pc = "idle" /\ UNCHANGED <<model, diskVars, bucketVars>>
    BY <1>1, <1>2, ChangingTurns DEF StartChange, StageChunk
  <2> QED BY <2>1, CopyKept DEF Rests, CopyingSteps, CommitSteps
<1>3. ASSUME NEW s \in Sessions, AbortChange(h, s) PROVE CopyInv'
  <2>1. UNCHANGED <<model, diskVars, bucketVars>>
    BY <1>3 DEF AbortChange
  <2>2. ~\E k \in Handlers : req[k].pc # "idle" /\ (req[k].who = s \/ s \in req[k].stale)
    BY <1>3 DEF AbortChange, Strays, Unsettling
  <2>3. \A k \in Handlers : req'[k] = req[k]
    BY <1>3, <2>2 DEF AbortChange
  <2> QED BY <2>1, <2>3, CopySame
<1>4. ASSUME NEW s \in Sessions, Commit(h, s, ActiveDownload) PROVE CopyInv'
  <2>1. /\ Kept(h) /\ req[h].pc = "idle" /\ req'[h].pc \in {"commit", "commit_upload"} /\ req'[h].kind = "none"
        /\ req'[h].local = (model.cached /\ FolderExists) /\ req'[h].at = model.target
        /\ req'[h].moved = {} /\ req'[h].backup = << >> /\ req'[h].gone \intersect req'[h].files = {}
    BY <1>1, <1>4, ChangingTurns, CommitBegins
  <2>2. UNCHANGED <<model, diskVars, bucketVars>> /\ model # NoModel
    BY <1>4 DEF Commit
  <2>3. ~ActiveDownload /\ ~Others(h, {"restore_index"})
    BY <1>4 DEF Commit, Unsettling, Others
  <2>4. ~Within({"restore_index"}) /\ ~WorkerAt({"sync", "index"})
    BY <2>1, <2>3, WorkersActive DEF Within, Others
  <2>5. label \in Complete => Served(model)
    BY <2>2, <2>4 DEF CopyInv, CopyIndexed
  <2>6. label \in Complete => FolderExists
    BY DEF Complete, FolderExists
  <2>7. label \in Complete => req'[h].local /\ req'[h].at = "bucket"
    BY <2>1, <2>5, <2>6 DEF Served
  <2>8. ChangeBegun(h)' /\ (label \in Complete => ChangeFollows(h)')
    BY <2>1, <2>7 DEF ChangeBegun, ChangeFollows
  <2>9. \A k \in Handlers \ {h} : ChangeBegun(k)' /\ (label' \in Complete => ChangeFollows(k)')
    BY <2>1, <2>2, OthersCopied DEF diskVars, bucketVars
  <2>10. Within(CopyingSteps) => Within(CopyingSteps)'
    BY <2>1 DEF Within, Kept, CopyingSteps
  <2> QED BY <2>2, <2>5, <2>8, <2>9, <2>10 DEF CopyInv, CopyFollows, CopyIndexed, WorkerAt, diskVars, bucketVars
<1>5. ASSUME req[h].pc \in CommitSteps, label \in Complete, ~Others(h, CopyingSteps), req[h].pc \notin CopyingSteps
      PROVE  folder = bucket /\ manifest # "none"
  <2>1. ~Within(CopyingSteps) /\ ~WorkerAt({"sync"})
    BY <1>5, WorkersWait DEF Within, Others, WorkerAt
  <2> QED BY <1>5, <2>1 DEF CopyInv, CopyFollows
<1>6. ASSUME req[h].pc \in {"apply", "store", "fetch"} PROVE ~Others(h, CopyingSteps)
  <2>1. \A k \in Handlers : req[k].pc \in CopyingSteps => req[k].pc \in RepoSteps \/ req[k].pc \in WriteSteps
    BY LocksOfSteps DEF CopyingSteps, RepoSteps, WriteSteps, StoringSteps, RemovingSteps
  <2>2. req[h].pc \in RepoSteps /\ req[h].pc \in WriteSteps
    BY <1>6 DEF RepoSteps, WriteSteps, StoringSteps
  <2> QED BY <1>1, <2>1, <2>2 DEF Others, Alone
<1>7. ASSUME RepoLock(h), WriteLock(h) PROVE ~Others(h, CopyingSteps)
  BY <1>7 DEF RepoLock, WriteLock, Others, CopyingSteps, StoringSteps, RemovingSteps
<1>8. CASE CommitLocks(h)
  <2>1. Moves(h, "apply") /\ req[h].pc = "commit" /\ UNCHANGED <<model, diskVars, bucketVars>> /\ ~Others(h, CopyingSteps)
    BY <1>1, <1>7, <1>8, ChangingTurns DEF CommitLocks, At
  <2>2. ChangeBegun(h)'
    BY <1>1, <2>1 DEF ChangeBegun, Moves, Carries
  <2>3. ASSUME label \in Complete PROVE ChangeFollows(h)'
    <3>1. folder = bucket /\ manifest # "none" /\ req[h].local /\ req[h].at = "bucket"
      BY <1>5, <2>1, <2>3 DEF CommitSteps, CopyingSteps, CopyInv, ChangeFollows
    <3>2. req'[h].moved = {} /\ req'[h].backup = << >>
      BY <1>1, <2>1 DEF ChangeBegun, Moves, Carries
    <3>3. UndoneTo(req'[h], folder', bucket')
      BY <2>1, <3>1, <3>2 DEF UndoneTo, diskVars, bucketVars
    <3> QED BY <2>1, <3>1, <3>3 DEF ChangeFollows, Moves, Carries, bucketVars
  <2> QED BY <2>1, <2>2, <2>3, ChangeCopied DEF Moves, CopyingSteps, diskVars
<1>9. ASSUME NEW f \in Files, Apply(h, f) PROVE CopyInv'
  <2>1. req[h].pc = "apply" /\ f \notin req[h].moved /\ UNCHANGED <<label, model, bucketVars>> /\ ~Others(h, CopyingSteps)
        /\ req[h].kind = "none" /\ req[h].gone \intersect req[h].files = {}
    BY <1>1, <1>6, <1>9 DEF Apply, Rollback, At, ChangeBegun
  <2>2. label \in Complete => UndoneTo(req[h], folder, bucket) /\ manifest # "none" /\ req[h].local /\ req[h].at = "bucket"
    BY <2>1 DEF CopyInv, ChangeFollows, CommitSteps
  <2>3. CASE staging[req[h].who][f] = "whole"
    <3>1. folder' = Over([x \in {f} |-> req[h].who], folder)
          /\ Continues(h, [req[h] EXCEPT !.backup = Keeps(h, {f}), !.moved = @ \union {f}])
      BY <1>9, <2>3 DEF Apply
    <3> DEFINE kept == Keeps(h, {f})
    <3>2. Kept(h) /\ req'[h] = [req[h] EXCEPT !.backup = kept, !.moved = @ \union {f}]
      BY <1>1, <3>1, TurnsTo
    <3> HIDE DEF kept
    <3>3. /\ req'[h].pc = "apply" /\ req'[h].kind = req[h].kind /\ req'[h].local = req[h].local /\ req'[h].at = req[h].at
          /\ req'[h].backup = kept /\ req'[h].moved = req[h].moved \union {f} /\ req'[h].who = req[h].who
          /\ req'[h].files = req[h].files /\ req'[h].gone = req[h].gone
      BY <1>1, <2>1, <3>2 DEF Request
    <3>4. label \in Complete => UndoneTo(req'[h], folder', bucket')
      BY <2>1, <2>2, <3>1, <3>3, AppliedUndoable DEF kept, Keeps, bucketVars
    <3>5. ChangeBegun(h)' /\ (label \in Complete => ChangeFollows(h)')
      BY <2>1, <2>2, <3>3, <3>4 DEF ChangeBegun, ChangeFollows, bucketVars
    <3> QED BY <2>1, <3>2, <3>3, <3>5, ChangeCopied DEF CopyingSteps
  <2>4. CASE staging[req[h].who][f] # "whole"
    <3>1. Rests(h) /\ folder' = Over(req[h].backup, Without(folder, req[h].moved))
      BY <1>1, <1>9, <2>1, <2>4, TurnsIdle DEF Apply, Rollback
    <3>2. label \in Complete => folder' = bucket'
      BY <2>1, <2>2, <3>1, UndoneFollows DEF bucketVars, LibraryTypeOK
    <3>3. ChangeBegun(h)' /\ ChangeFollows(h)'
      BY <3>1 DEF Rests, ChangeBegun, ChangeFollows, CommitSteps
    <3> QED BY <2>1, <2>2, <3>1, <3>2, <3>3, ChangeCopied DEF Rests, bucketVars
  <2> QED BY <2>3, <2>4
<1>10. CASE ApplyRemovals(h)
  <2>1. /\ req[h].pc = "apply" /\ req[h].files = req[h].moved /\ UNCHANGED <<label, model, bucketVars>>
        /\ ~Others(h, CopyingSteps) /\ folder' = Without(folder, req[h].gone)
        /\ Continues(h, [req[h] EXCEPT !.pc = "store", !.backup = Keeps(h, req[h].gone)])
    BY <1>1, <1>6, <1>10 DEF ApplyRemovals, At
  <2> DEFINE kept == Keeps(h, req[h].gone)
  <2>2. Kept(h) /\ req'[h] = [req[h] EXCEPT !.pc = "store", !.backup = kept]
    BY <1>1, <2>1, TurnsTo
  <2> HIDE DEF kept
  <2>3. /\ req'[h].pc = "store" /\ req'[h].local = req[h].local /\ req'[h].at = req[h].at
        /\ req'[h].files = req[h].files /\ req'[h].gone = req[h].gone /\ req'[h].who = req[h].who
    BY <1>1, <2>2 DEF Request
  <2>4. label \in Complete => UndoneTo(req[h], folder, bucket) /\ manifest # "none" /\ req[h].local /\ req[h].at = "bucket"
    BY <2>1 DEF CopyInv, ChangeFollows, CommitSteps
  <2>5. /\ req[h].gone \intersect req[h].files = {} /\ req[h].who \in Origins /\ req[h].files \subseteq Files
        /\ folder \in Contents /\ bucket \in Contents
    BY <1>1, <2>1, RequestFields DEF ChangeBegun, LibraryTypeOK
  <2>6. label \in Complete => folder' = Over(Changed(h), Without(bucket, req[h].gone))
    BY <2>1, <2>4, <2>5, RemovedFollows DEF Changed
  <2>7. Changed(h)' = Changed(h)
    BY <2>3 DEF Changed
  <2>8. ChangeBegun(h)' /\ (label \in Complete => ChangeFollows(h)')
    BY <2>1, <2>3, <2>4, <2>6, <2>7 DEF ChangeBegun, ChangeFollows, bucketVars
  <2> QED BY <2>1, <2>2, <2>3, <2>8, ChangeCopied DEF CopyingSteps
<1>11. CASE Store(h)
  <2> DEFINE changed == req[h].files \union req[h].gone
  <2>1. /\ req[h].pc = "store" /\ UNCHANGED <<label, model, folder>> /\ ~Others(h, CopyingSteps) /\ Moves(h, "commit_index")
        /\ req[h].at = "local" \/ (bucket' = SyncedBucket(changed) /\ manifest' = label)
    BY <1>1, <1>6, <1>11, GoesOn DEF Store, Strays, At
  <2>2. ASSUME label \in Complete PROVE folder' = bucket' /\ manifest' # "none" /\ ChangeFollows(h)'
    <3>1. req[h].local /\ req[h].at = "bucket" /\ folder = Over(Changed(h), Without(bucket, req[h].gone))
      BY <2>1, <2>2 DEF CopyInv, ChangeFollows, CommitSteps
    <3>2. SyncedBucket(changed) = folder
      BY <3>1, SyncedFollows
    <3> HIDE DEF changed
    <3>3. bucket' = folder /\ manifest' = label
      BY <2>1, <3>1, <3>2
    <3> QED BY <2>1, <2>2, <3>1, <3>3 DEF ChangeFollows, Moves, Carries, Complete
  <2>3. ChangeBegun(h)'
    BY <2>1 DEF ChangeBegun, Moves
  <2> QED BY <2>1, <2>2, <2>3, ChangeCopied DEF Moves
<1>12. CASE CommitRemote(h)
  <2>1. /\ req[h].pc \in {"commit", "commit_upload"} /\ UNCHANGED <<diskVars, model>> /\ ~Others(h, CopyingSteps)
        /\ req[h].pc = "commit" => ~req[h].local
    BY <1>7, <1>12 DEF CommitRemote, At, Local
  <2>2. Moves(h, IF Local(h) THEN "fetch" ELSE "commit_index") \/ Rests(h)
    BY <1>1, <1>12, ChangingTurns
  <2>3. Kept(h) /\ ChangeBegun(h)'
    BY <2>2 DEF Moves, Rests, ChangeBegun
  <2>4. ASSUME label \in Complete PROVE ChangeFollows(h)' /\ req'[h].pc = "fetch"
    <3>1. folder = bucket /\ manifest # "none" /\ req[h].local /\ req[h].at = "bucket"
      BY <1>5, <2>1, <2>4 DEF CommitSteps, CopyingSteps, CopyInv, ChangeFollows
    <3>2. /\ bucket' = Over(Changed(h), Without(bucket, req[h].gone))
          /\ manifest' = manifest /\ Moves(h, "fetch")
      BY <1>1, <1>12, <3>1, GoesOn DEF CommitRemote, Strays, Local
    <3>3. Changed(h)' = Changed(h) /\ folder' = bucket /\ req'[h].gone = req[h].gone
      BY <2>1, <3>1, <3>2 DEF Changed, Moves, Carries, diskVars
    <3>4. bucket' = Over(Changed(h)', Without(folder', req'[h].gone))
      BY <3>2, <3>3
    <3>5. req'[h].pc = "fetch" /\ req'[h].local /\ req'[h].at = "bucket" /\ manifest' # "none"
      BY <3>1, <3>2 DEF Moves, Carries
    <3> QED BY <3>4, <3>5 DEF ChangeFollows
  <2> QED BY <2>1, <2>3, <2>4, ChangeCopied DEF CopyingSteps, diskVars
<1>13. CASE FetchCopy(h)
  <2>1. /\ req[h].pc = "fetch" /\ UNCHANGED <<model, bucketVars>> /\ ~Others(h, CopyingSteps) /\ Moves(h, "commit_index")
        /\ folder' = Over(Restrict(bucket, req[h].files), Without(folder, req[h].gone))
    BY <1>1, <1>6, <1>13, GoesOn DEF FetchCopy, Strays, At
  <2>2. label' = label
    BY <1>1, <1>13, <2>1 DEF FetchCopy, RequestShelved, CommitSteps
  <2>3. ASSUME label \in Complete PROVE folder' = bucket' /\ manifest' # "none" /\ ChangeFollows(h)'
    <3>1. req[h].local /\ req[h].at = "bucket" /\ manifest # "none" /\ bucket = Over(Changed(h), Without(folder, req[h].gone))
      BY <2>1, <2>3 DEF CopyInv, ChangeFollows, CommitSteps
    <3>2. folder' = bucket
      BY <2>1, <3>1, FetchedFollows
    <3> QED BY <2>1, <3>1, <3>2 DEF ChangeFollows, Moves, Carries, bucketVars
  <2>4. ChangeBegun(h)'
    BY <2>1 DEF ChangeBegun, Moves
  <2> QED BY <2>1, <2>2, <2>3, <2>4, ChangeCopied DEF Moves
<1>14. CASE CommitIndex(h)
  <2>1. req[h].pc = "commit_index" /\ UNCHANGED <<diskVars, bucketVars>> /\ Moves(h, "history")
        /\ (req[h].local => IndexPath)
    BY <1>1, <1>14, ChangingTurns DEF CommitIndex, At, Local
  <2>2. label \in Complete => IndexPath
    BY <2>1 DEF CopyInv, ChangeFollows, CommitSteps
  <2> QED BY <1>1, <2>1, <2>2, IndexedServed, CopyKept DEF Moves, StateShelved, CopyingSteps, CommitSteps
<1>15. CASE CommitRecorded(h)
  <2>1. Rests(h) /\ req[h].pc = "history" /\ UNCHANGED <<model, diskVars, bucketVars>>
    BY <1>1, <1>15, ChangingTurns DEF CommitRecorded, At
  <2> QED BY <2>1, CopyKept DEF Rests, CopyingSteps, CommitSteps
<1> QED BY <1>2, <1>3, <1>4, <1>8, <1>9, <1>10, <1>11, <1>12, <1>13, <1>14, <1>15 DEF Changing

LEMMA CopyStep ==
    ASSUME LifeInv, PlaceInv, LockInv, Timely => RowInv, Orderly => HiddenInv,
           Calm => WorkInv, Cached => ShelfInv /\ CopyInv, [Next]_vars
    PROVE  Cached' => CopyInv'
<1>1. /\ LibraryTypeOK /\ UploadsTypeOK /\ DownloadsTypeOK /\ CancelsKnown /\ WorkersCounted /\ strays \subseteq strays'
  BY StraysGrow DEF LifeInv, TypeOK, DownloadsInv
<1> SUFFICES ASSUME Cached' PROVE CopyInv'
  OBVIOUS
<1>2. /\ WorkInv /\ ShelfInv /\ CopyInv /\ RowInv /\ HiddenInv /\ strays' \intersect Unsettling = {}
      /\ place # "disk" /\ UNCHANGED place
  BY <1>1, CalmBefore DEF Next, vars, Cached
<1>3. ASSUME UNCHANGED <<diskVars, bucketVars, model, req, downloads>> PROVE CopyInv'
  BY <1>2, <1>3, CopySame
<1>4. ASSUME NEW x \in open, PartsSent(x), UNCHANGED downloads PROVE CopyInv'
  BY <1>3, <1>4 DEF PartsSent, requestVars
<1>5. ASSUME UNCHANGED vars PROVE CopyInv'
  BY <1>3, <1>5 DEF vars, requestVars
<1>6. ASSUME Restart PROVE CopyInv'
  <2>1. (\A k \in Handlers : req[k].pc = "idle") /\ UNCHANGED <<diskVars, bucketVars, row, model>>
    BY <1>2, <1>6 DEF Restart, Strays, At, Unsettling
  <2>2. \A k \in Handlers : req'[k].pc = "idle"
    BY <1>6 DEF Restart, Idle
  <2>3. \A d \in DOMAIN downloads : downloads[d].pc \in {"none", "submitted"}
    BY <1>2, <1>6 DEF Restart, Strays, Unsettling
  <2>4. ~Within(CopyingSteps) /\ ~Within({"restore_index"}) /\ ~WorkerAt({"sync"}) /\ ~WorkerAt({"sync", "index"})
    BY <2>1, <2>3 DEF Within, WorkerAt, CopyingSteps
  <2> QED BY <1>2, <2>1, <2>2, <2>4 DEF CopyInv, CopyFollows, CopyIndexed, ChangeBegun, ChangeFollows, CommitSteps,
       diskVars, bucketVars
<1>7. ASSUME NEW h \in Handlers, Cache(h, ActiveDownload, WorkerRuns), UNCHANGED <<uploadVars, sessionVars, downloads>>
      PROVE  CopyInv'
  BY <1>1, <1>2, <1>7, CacheKeepsCopy
<1>8. ASSUME NEW h \in Handlers, Uploading(h, ActiveDownload, WorkerRuns) \/ Changing(h, ActiveDownload), UNCHANGED downloads
      PROVE  CopyInv'
  BY <1>1, <1>2, <1>8, UploadingKeepsCopy, ChangingKeepsCopy
<1>9. ASSUME NEW h \in Handlers, FromTheHub(h) PROVE CopyInv'
  BY <1>1, <1>2, <1>9, FromTheHubKeepsCopy
<1>10. ASSUME NEW d \in DOMAIN downloads, Worker(d) PROVE CopyInv'
  BY <1>1, <1>2, <1>10, WorkerKeepsCopy
<1> QED BY <1>4, <1>5, <1>6, <1>7, <1>8, <1>9, <1>10 DEF Next

LEMMA CopyStart == Init /\ place # "disk" => CopyInv
<1> SUFFICES ASSUME Init, place # "disk" PROVE CopyInv
  OBVIOUS
<1>1. \A h \in Handlers : req[h].pc = "idle"
  BY DEF Init, Idle
<1>2. \A h \in Handlers : ChangeBegun(h) /\ ChangeFollows(h)
  BY <1>1 DEF ChangeBegun, ChangeFollows, CommitSteps
<1>3. label \in Complete => folder = bucket /\ manifest # "none" /\ Served(model)
  <2>1. CASE NewName \/ Queued
    BY <2>1 DEF NewName, Queued, Absent, Complete
  <2>2. ASSUME NEW arrived \in SUBSET Files, Unfinished(arrived) PROVE label \notin Complete
    BY <2>2 DEF Unfinished, Complete
  <2>3. ASSUME NEW content, NEW kind \in Complete, NEW cached \in BOOLEAN, Holds(content, kind, cached)
        PROVE  label \in Complete => folder = bucket /\ manifest # "none" /\ Served(model)
    BY <2>3 DEF Holds, Complete, Served, Target
  <2>4. CASE Uploaded \/ Downloaded
    BY <2>3, <2>4 DEF Uploaded, Downloaded, Complete
  <2> QED BY <2>1, <2>2, <2>4 DEF Init
<1> QED BY <1>2, <1>3 DEF CopyInv, CopyFollows, CopyIndexed

LEMMA CacheFollows ==
    ASSUME Cached => CopyInv
    PROVE  CacheFollowsBucket
<1>1. ASSUME Cached, Quiet, label \in Complete PROVE folder = bucket
  BY <1>1 DEF CopyInv, CopyFollows, Within, WorkerAt, Quiet, At, CopyingSteps
<1> QED BY <1>1 DEF CacheFollowsBucket, Cached, Calm, Unsettling, Except

----------------------------------------------------------------------------
(* What is stored is what the last commit, upload or download was to leave.  *)
(* On the disk, a complete folder holds it but while a request stores,       *)
(* changes or deletes it, or a worker is to store it; and what a change has  *)
(* done to it so far can be undone, or is what it was to leave.              *)
Still == ~Except(Unsettling \union {"queue", "monitor"})
DiskSteps == {"finalize_sync", "apply", "store", "remove"}
DiskFollows == label \in Complete => folder = intended \/ Within(DiskSteps) \/ WorkerAt({"sync"})
ChangeOnDisk(h) ==
    /\ req[h].pc = "apply" => UndoneTo(req[h], folder, intended)
    /\ req[h].pc = "store" => folder = Over(Changed(h), Without(intended, req[h].gone))
OnDisk == DiskFollows /\ \A h \in Handlers : ChangeBegun(h) /\ (label \in Complete => ChangeOnDisk(h))

LEMMA StillBefore ==
    ASSUME strays \subseteq strays', UNCHANGED place, Still'
    PROVE  Still /\ Calm /\ Tended /\ Timely /\ Orderly /\ strays' \intersect Unsettling = {}
BY DEF Still, Calm, Tended, Timely, Orderly, Except, Unsettling

LEMMA OthersOnDisk ==
    ASSUME OnDisk, NEW h \in Handlers, Kept(h),
           label' \in Complete => ~Others(h, {"apply", "store"}) \/ (label \in Complete /\ UNCHANGED <<folder, intended>>)
    PROVE  \A k \in Handlers \ {h} : ChangeBegun(k)' /\ (label' \in Complete => ChangeOnDisk(k)')
<1> SUFFICES ASSUME NEW k \in Handlers \ {h} PROVE ChangeBegun(k)' /\ (label' \in Complete => ChangeOnDisk(k)')
  OBVIOUS
<1>1. req'[k] = req[k] /\ ChangeBegun(k) /\ (label \in Complete => ChangeOnDisk(k))
  BY DEF Kept, OnDisk
<1>2. ChangeBegun(k)'
  BY <1>1 DEF ChangeBegun
<1>3. ASSUME ~Others(h, {"apply", "store"}) PROVE ChangeOnDisk(k)'
  BY <1>1, <1>3 DEF Others, ChangeOnDisk
<1>4. ASSUME label \in Complete, UNCHANGED <<folder, intended>> PROVE ChangeOnDisk(k)'
  BY <1>1, <1>4 DEF ChangeOnDisk, Changed
<1> QED BY <1>2, <1>3, <1>4

LEMMA DiskStays ==
    ASSUME OnDisk, NEW h \in Handlers, Kept(h), UNCHANGED <<folder, label, intended, downloads>>,
           req[h].pc \notin DiskSteps, ChangeBegun(h)', req'[h].pc \notin {"apply", "store"}
    PROVE  OnDisk'
<1>1. \A k \in Handlers \ {h} : ChangeBegun(k)' /\ (label' \in Complete => ChangeOnDisk(k)')
  BY OthersOnDisk
<1>2. ChangeOnDisk(h)'
  BY DEF ChangeOnDisk
<1>3. Within(DiskSteps) => Within(DiskSteps)'
  BY DEF Within, Kept
<1> QED BY <1>1, <1>2, <1>3 DEF OnDisk, DiskFollows, WorkerAt

LEMMA DiskUnlabelled ==
    ASSUME OnDisk, NEW h \in Handlers, Kept(h), label' \notin Complete, ChangeBegun(h)'
    PROVE  OnDisk'
BY OthersOnDisk DEF OnDisk, DiskFollows

LEMMA CacheKeepsDisk ==
    ASSUME LibraryTypeOK, StatePlaced, OnDisk, NEW h \in Handlers, Cache(h, ActiveDownload, WorkerRuns),
           UNCHANGED downloads, strays' \intersect Unsettling = {}, place = "disk"
    PROVE  OnDisk'
<1>1. Kept(h) /\ req'[h].pc \in CacheFree /\ manifest = "none"
  BY CacheStaysFree DEF LibraryTypeOK, StatePlaced
<1>2. req[h].pc \notin DiskSteps
  BY DEF DiskSteps, Cache, Scan, ScanFolder, ScanList, ScanIndex, ScanCommit,
       ScanLocal, Restore, RestoreFiles, RestoreIndex, Evict, EvictFolder, EvictIndex, Free, At
<1>3. ~RestoreFiles(h)
  BY <1>1 DEF RestoreFiles, Strays, Unsettling
<1>4. UNCHANGED <<folder, label, intended>>
  BY <1>1, <1>3 DEF Cache, Scan, ScanFolder, ScanList, ScanIndex, ScanCommit, ScanLocal, Restore, RestoreIndex,
       Evict, EvictFolder, EvictIndex, diskVars, ghosts
<1>5. ChangeBegun(h)' /\ req'[h].pc \notin {"apply", "store"}
  BY <1>1 DEF ChangeBegun, CacheFree
<1> QED BY <1>1, <1>2, <1>4, <1>5, DiskStays

LEMMA FromTheHubKeepsDisk ==
    ASSUME LibraryTypeOK, DownloadsTypeOK, OnDisk, NEW h \in Handlers, FromTheHub(h), CancelsKnown
    PROVE  OnDisk'
<1>1. req \in [Handlers -> Request] /\ downloads \in [1 .. MaxDownloads -> Download]
  BY DEF LibraryTypeOK, DownloadsTypeOK
<1>2. /\ Kept(h) /\ req'[h].pc \in {"idle", "enqueue", "cancel", "cancel_row"} /\ UNCHANGED <<folder, intended>>
      /\ UNCHANGED label \/ label' = "cancelled"
  BY <1>1, HubTurns DEF Starts, Moves, Rests
<1>3. req[h].pc \in {"idle", "enqueue", "cancel", "cancel_row"}
  BY DEF FromTheHub, StartDownload, Enqueue, Cancel, CancelFolder, CancelRow, Free, At
<1>4. ChangeBegun(h)' /\ req'[h].pc \notin {"apply", "store"} /\ req[h].pc \notin DiskSteps
  BY <1>2, <1>3 DEF ChangeBegun, DiskSteps
<1>5. CASE label' = "cancelled"
  BY <1>2, <1>4, <1>5, DiskUnlabelled DEF Complete
<1>6. CASE UNCHANGED label
  <2>1. WorkerAt({"sync"})' = WorkerAt({"sync"})
    <3>1. /\ DOMAIN downloads' = DOMAIN downloads
          /\ \A d \in DOMAIN downloads : downloads'[d].pc = downloads[d].pc
                                           \/ (downloads[d].pc = "none" /\ downloads'[d].pc = "submitted")
      BY <1>1, HubTurns
    <3> QED BY <3>1 DEF WorkerAt
  <2>2. \A k \in Handlers \ {h} : ChangeBegun(k)' /\ (label' \in Complete => ChangeOnDisk(k)')
    BY <1>2, <1>6, OthersOnDisk
  <2>3. Within(DiskSteps) => Within(DiskSteps)'
    BY <1>2, <1>4 DEF Within, Kept
  <2> QED BY <1>2, <1>4, <1>6, <2>1, <2>2, <2>3 DEF OnDisk, DiskFollows, ChangeOnDisk
<1> QED BY <1>2, <1>5, <1>6

LEMMA WorkerKeepsDisk ==
    ASSUME LibraryTypeOK, DownloadsTypeOK, WorkInv, OnDisk, NEW d \in DOMAIN downloads, Worker(d),
           UNCHANGED place, strays' \intersect Unsettling = {}
    PROVE  OnDisk'
<1>1. downloads \in [1 .. MaxDownloads -> Download]
  BY DEF DownloadsTypeOK
<1>2. UNCHANGED req /\ OthersStay(d)
  BY <1>1, WorkerTurns
<1>3. \A h \in Handlers : ChangeBegun(h)'
  BY <1>2 DEF OnDisk, ChangeBegun
<1>4. Within(DiskSteps)' = Within(DiskSteps)
  BY <1>2 DEF Within
<1>5. ASSUME UNCHANGED <<folder, label, intended>>, downloads[d].pc # "sync" PROVE OnDisk'
  <2>1. WorkerAt({"sync"}) => WorkerAt({"sync"})'
    BY <1>2, <1>5 DEF WorkerAt, OthersStay
  <2>2. \A h \in Handlers : ChangeOnDisk(h)' = ChangeOnDisk(h)
    BY <1>2, <1>5 DEF ChangeOnDisk, Changed
  <2> QED BY <1>3, <1>4, <1>5, <2>1, <2>2 DEF OnDisk, DiskFollows
<1>6. CASE label' \notin Complete
  BY <1>3, <1>6 DEF OnDisk, DiskFollows
<1>7. CASE Stays(d)
  <2>1. WorkerAt({"sync"}) => WorkerAt({"sync"})'
    BY <1>2, <1>7 DEF WorkerAt, OthersStay, Stays
  <2>2. \A h \in Handlers : ChangeOnDisk(h)' = ChangeOnDisk(h)
    BY <1>2, <1>7 DEF ChangeOnDisk, Changed, Stays, Unaltered, diskVars
  <2> QED BY <1>3, <1>4, <1>7, <2>1, <2>2 DEF OnDisk, DiskFollows, Stays, Unaltered, diskVars
<1>8. CASE Halts(d)
  BY <1>5, <1>8 DEF Halts, Unaltered, Unsettling, diskVars
<1>9. CASE SetsOut(d)
  BY <1>6, <1>9 DEF SetsOut, Complete
<1>10. CASE Takes(d)
  <2>1. label' \notin Complete
    BY <1>10 DEF Takes, WorkInv, Going
  <2> QED BY <1>6, <2>1
<1>11. CASE HasAll(d) \/ Syncs(d)
  <2>1. SomeGoes
    BY <1>11 DEF HasAll, Syncs, WorkInv, SomeGoes, Going, FetchedSteps
  <2>2. \A h \in Handlers : req'[h].pc \notin {"apply", "store"}
    BY <1>2, <2>1 DEF WorkInv, Within, AlteringSteps, StoringSteps
  <2>3. folder' = intended' \/ WorkerAt({"sync"})'
    BY <1>2, <1>11 DEF HasAll, Syncs, WorkerAt, OthersStay, diskVars
  <2> QED BY <1>3, <2>2, <2>3 DEF OnDisk, DiskFollows, ChangeOnDisk
<1>12. CASE Indexes(d)
  BY <1>5, <1>12 DEF Indexes, diskVars
<1> QED BY <1>1, <1>7, <1>8, <1>9, <1>10, <1>11, <1>12, WorkerTurns

LEMMA UploadingKeepsDisk ==
    ASSUME LibraryTypeOK, PlaceInv, LockInv, HiddenInv, OnDisk, NEW h \in Handlers,
           Uploading(h, ActiveDownload, WorkerRuns), UNCHANGED <<place, downloads>>,
           strays' \intersect Unsettling = {}, strays \subseteq strays', place = "disk"
    PROVE  OnDisk'
<1>1. /\ req \in [Handlers -> Request] /\ StatePlaced /\ RequestPlaced(h) /\ Alone(RepoSteps) /\ Alone(WriteSteps)
      /\ "late" \notin strays' /\ "failed" \notin strays' /\ "failed" \notin strays
  BY DEF LibraryTypeOK, PlaceInv, LockInv, Unsettling
<1> DEFINE Plain == {"idle", "chunk", "begin_record", "complete_record", "sweep_discard", "finalize", "publish",
                     "delete", "delete_upload", "unpublish", "unpublish_rows", "remove", "forget",
                     "finalize_sync", "finalize_index", "finalize_ready", "publish_index", "publish_ready"}
<1>2. ASSUME req'[h].pc \in Plain PROVE ChangeBegun(h)' /\ req'[h].pc \notin {"apply", "store"}
  BY <1>2 DEF ChangeBegun
<1>3. ASSUME Kept(h), req'[h].pc \in Plain, req[h].pc \notin DiskSteps, UNCHANGED <<folder, label, intended>> PROVE OnDisk'
  BY <1>2, <1>3, DiskStays
<1>4. CASE CreateUpload(h)
  <2>1. Rests(h) /\ label' = "uploading"
    BY <1>1, <1>4, UploadingTurns DEF CreateUpload
  <2> QED BY <1>2, <2>1, DiskUnlabelled DEF Rests, Complete
<1>5. CASE (\E f \in Files : Chunk(h, f)) \/ BeginRecord(h) \/ CompleteRecord(h) \/ SweepList(h) \/ SweepDiscard(h) \/ Forget(h)
           \/ (\E w \in Sessions \union {Upload}, f \in Files : BeginFile(h, w, f) \/ CompleteFile(h, w, f))
  <2>1. Kept(h) /\ req'[h].pc \in {"idle", "chunk", "begin_record", "complete_record", "sweep_discard"}
    BY <1>1, <1>5, UploadingTurns DEF Starts, Rests
  <2>2. UNCHANGED <<folder, label, intended>>
    BY <1>5 DEF Chunk, BeginRecord, CompleteRecord, SweepList, SweepDiscard, Forget, BeginFile, CompleteFile, diskVars, ghosts
  <2>3. req[h].pc \notin DiskSteps
    BY <1>5 DEF Chunk, BeginRecord, CompleteRecord, SweepList, SweepDiscard, Forget, BeginFile, CompleteFile, Free, At, DiskSteps
  <2> QED BY <1>3, <2>1, <2>2, <2>3
<1>6. CASE Finalize(h) \/ FinalizeIndex(h) \/ FinalizeReady(h) \/ PublishIndex(h) \/ PublishReady(h)
           \/ AbortUpload(h)
  <2>1. Kept(h) /\ req'[h].pc \in {"idle", "publish", "finalize", "finalize_ready", "publish_ready", "unpublish"}
    BY <1>1, <1>6, UploadingTurns DEF Starts, Moves, Rests
  <2>2. UNCHANGED <<folder, label, intended>>
    BY <1>6 DEF Finalize, FinalizeIndex, FinalizeReady, PublishIndex, PublishReady, AbortUpload, diskVars, ghosts
  <2>3. req[h].pc \notin DiskSteps
    BY <1>6 DEF Finalize, FinalizeIndex, FinalizeReady, PublishIndex, PublishReady, AbortUpload, Free, At, DiskSteps
  <2> QED BY <1>3, <2>1, <2>2, <2>3
<1>7. CASE Unpublish(h) \/ Remove(h, WorkerRuns)
  <2>1. Kept(h) /\ req'[h].pc \in {"idle", "unpublish_rows", "remove"}
    BY <1>1, <1>7, UploadingTurns DEF Moves, Rests
  <2>2. UNCHANGED <<folder, label, intended>> /\ req[h].pc \notin DiskSteps
    BY <1>7 DEF Unpublish, Remove, diskVars, At, DiskSteps
  <2> QED BY <1>3, <2>1, <2>2
<1>8. CASE Delete(h, ActiveDownload)
  <2>1. Kept(h) /\ req'[h].pc \in {"delete", "delete_upload"} /\ UNCHANGED <<folder, label, intended>> /\ req[h].pc \notin DiskSteps
    BY <1>1, <1>8, DeleteTurns DEF Delete, diskVars, ghosts, Free, DiskSteps
  <2> QED BY <1>3, <2>1
<1>9. CASE Publish(h)
  <2>1. Rests(h) /\ UNCHANGED <<folder, label, intended>> /\ req[h].pc \notin DiskSteps
    BY <1>1, <1>9, TurnsIdle DEF Publish, StatePlaced, diskVars, ghosts, At, DiskSteps
  <2> QED BY <1>3, <2>1 DEF Rests
<1>10. CASE ChunkWritten(h)
  <2>1. Rests(h) /\ UNCHANGED <<label, intended>> /\ req[h].pc = "chunk" /\ WriteLock(h)
    BY <1>1, <1>10, UploadingTurns DEF ChunkWritten, At
  <2>2. CASE UNCHANGED folder
    BY <1>3, <2>1, <2>2 DEF Rests, DiskSteps
  <2>3. CASE ~UNCHANGED folder
    <3>1. row = "uploading"
      BY <1>1, <1>10, <2>3 DEF ChunkWritten, Strays
    <3>2. ~Within(ShowingSteps) /\ ~Within({"finalize_sync"})
      <4>1. \A k \in Handlers : req[k].pc \notin {"publish_index", "publish_ready"}
        BY DEF PlaceInv, RequestPlaced
      <4> QED BY <2>1, <4>1 DEF WriteLock, Others, Within, ShowingSteps, StoringSteps
    <3>3. label \notin Complete
      BY <1>1, <3>1, <3>2 DEF HiddenInv, Hidden, Unshown, LabelInv, Unready, Complete
    <3> QED BY <1>2, <2>1, <3>3, DiskUnlabelled DEF Rests
  <2> QED BY <2>2, <2>3
<1>11. CASE FinalizeChecked(h)
  <2>1. Kept(h) /\ req'[h].pc \in {"finalize_sync", "idle"} /\ UNCHANGED <<folder, intended>> /\ req[h].pc = "finalize" /\ RepoLock(h)
    BY <1>1, <1>11, UploadingTurns DEF FinalizeChecked, Rests, ghosts, At
  <2>2. CASE UNCHANGED label
    BY <1>3, <2>1, <2>2 DEF DiskSteps
  <2>3. CASE ~UNCHANGED label
    <3>1. req'[h].pc = "finalize_sync"
      BY <1>1, <1>11, <2>3, UploadingTurns DEF FinalizeChecked
    <3>2. ~Others(h, {"apply", "store"})
      BY <2>1 DEF RepoLock, Others, StoringSteps
    <3>3. ChangeOnDisk(h)' /\ Within(DiskSteps)'
      BY <3>1 DEF ChangeOnDisk, Within, DiskSteps
    <3> QED BY <1>2, <2>1, <3>1, <3>2, <3>3, OthersOnDisk DEF OnDisk, DiskFollows
  <2> QED BY <2>2, <2>3
<1>12. CASE FinalizeSync(h)
  <2>1. Moves(h, "finalize_index") /\ intended' = folder /\ UNCHANGED <<folder, label>> /\ req[h].pc = "finalize_sync"
    BY <1>1, <1>12, GoesOn DEF FinalizeSync, At
  <2>2. ~Others(h, {"apply", "store"})
    BY <1>1, <2>1, LocksOfSteps DEF Alone, Others, RepoSteps, StoringSteps
  <2> QED BY <1>2, <2>1, <2>2, OthersOnDisk DEF OnDisk, DiskFollows, ChangeOnDisk, Moves
<1>13. CASE RemoveFolder(h, WorkerRuns)
  <2>1. Moves(h, "forget") /\ label' = "none"
    BY <1>1, <1>13, UploadingTurns DEF RemoveFolder
  <2> QED BY <1>2, <2>1, DiskUnlabelled DEF Moves, Complete
<1>14. ~UnpublishRows(h)
  BY <1>1 DEF RequestPlaced, UnpublishRows, At
<1> QED BY <1>4, <1>5, <1>6, <1>7, <1>8, <1>9, <1>10, <1>11, <1>12, <1>13, <1>14 DEF Uploading

LEMMA DiskSame ==
    ASSUME OnDisk, UNCHANGED <<folder, label, intended, downloads>>, \A k \in Handlers : req'[k] = req[k]
    PROVE  OnDisk'
<1>1. ASSUME NEW k \in Handlers PROVE ChangeBegun(k)' /\ (label' \in Complete => ChangeOnDisk(k)')
  <2>1. req'[k] = req[k] /\ ChangeBegun(k) /\ (label \in Complete => ChangeOnDisk(k))
    BY DEF OnDisk
  <2>2. ChangeBegun(k)'
    BY <2>1 DEF ChangeBegun
  <2>3. ChangeOnDisk(k) => ChangeOnDisk(k)'
    BY <2>1 DEF ChangeOnDisk, Changed
  <2> QED BY <2>1, <2>2, <2>3
<1>2. Within(DiskSteps)' = Within(DiskSteps) /\ WorkerAt({"sync"})' = WorkerAt({"sync"})
  BY DEF Within, WorkerAt
<1> QED BY <1>1, <1>2 DEF OnDisk, DiskFollows

LEMMA ChangingKeepsDisk ==
    ASSUME LibraryTypeOK, PlaceInv, LockInv, WorkInv, OnDisk, NEW h \in Handlers,
           Changing(h, ActiveDownload), UNCHANGED <<place, downloads>>, strays' \intersect Unsettling = {}, place = "disk"
    PROVE  OnDisk'
<1>1. /\ req \in [Handlers -> Request] /\ RequestPlaced(h) /\ Alone(RepoSteps) /\ Alone(WriteSteps)
      /\ "failed" \notin strays' /\ ChangeBegun(h) /\ folder \in Contents /\ intended \in Contents
  BY DEF LibraryTypeOK, PlaceInv, LockInv, Unsettling, OnDisk
<1>2. ASSUME NEW s \in Sessions, StartChange(h, s) \/ (\E f \in Files : StageChunk(h, s, f)) PROVE OnDisk'
  <2>1. Rests(h) /\ req[h].pc = "idle" /\ UNCHANGED <<folder, label, intended>>
    BY <1>1, <1>2, ChangingTurns DEF StartChange, StageChunk, diskVars, ghosts
  <2> QED BY <2>1, DiskStays DEF Rests, DiskSteps, ChangeBegun
<1>3. ASSUME NEW s \in Sessions, AbortChange(h, s) PROVE OnDisk'
  <2>1. UNCHANGED <<folder, label, intended>>
    BY <1>3 DEF AbortChange, diskVars
  <2>2. ~\E k \in Handlers : req[k].pc # "idle" /\ (req[k].who = s \/ s \in req[k].stale)
    BY <1>3 DEF AbortChange, Strays, Unsettling
  <2>3. \A k \in Handlers : req'[k] = req[k]
    BY <1>3, <2>2 DEF AbortChange
  <2> QED BY <2>1, <2>3, DiskSame
<1>4. ASSUME NEW s \in Sessions, Commit(h, s, ActiveDownload) PROVE OnDisk'
  <2>1. /\ Kept(h) /\ req[h].pc = "idle" /\ req'[h].pc \in {"commit", "commit_upload"} /\ req'[h].kind = "none"
        /\ req'[h].moved = {} /\ req'[h].backup = << >> /\ req'[h].gone \intersect req'[h].files = {}
    BY <1>1, <1>4, ChangingTurns, CommitBegins
  <2>2. UNCHANGED <<folder, label, intended>>
    BY <1>4 DEF Commit, diskVars
  <2> QED BY <2>1, <2>2, DiskStays DEF ChangeBegun, DiskSteps
<1>5. ASSUME label \in Complete, RepoLock(h), WriteLock(h), req[h].pc = "commit" PROVE folder = intended
  <2>1. ~Within(DiskSteps)
    BY <1>5 DEF RepoLock, WriteLock, Others, Within, DiskSteps, StoringSteps, RemovingSteps
  <2>2. ~WorkerAt({"sync"})
    <3>1. Within(AlteringSteps)
      BY <1>5 DEF Within, AlteringSteps, WaitingSteps
    <3> QED BY <3>1 DEF WorkInv, SomeGoes, Going, WorkerAt, FetchedSteps
  <2> QED BY <1>5, <2>1, <2>2 DEF OnDisk, DiskFollows
<1>6. ASSUME req[h].pc \in {"apply", "store"} PROVE ~Others(h, {"apply", "store"})
  BY <1>1, <1>6 DEF Others, Alone, RepoSteps, StoringSteps
<1>7. CASE CommitLocks(h)
  <2>1. Moves(h, "apply") /\ req[h].pc = "commit" /\ UNCHANGED <<folder, label, intended>> /\ RepoLock(h) /\ WriteLock(h)
    BY <1>1, <1>7, ChangingTurns DEF CommitLocks, At, diskVars, ghosts
  <2>2. ChangeBegun(h)' /\ req'[h].moved = {} /\ req'[h].backup = << >>
    BY <1>1, <2>1 DEF ChangeBegun, Moves, Carries
  <2>3. label \in Complete => folder = intended /\ UndoneTo(req'[h], folder', intended')
    BY <1>5, <2>1, <2>2 DEF UndoneTo
  <2>4. \A k \in Handlers \ {h} : ChangeBegun(k)' /\ (label' \in Complete => ChangeOnDisk(k)')
    BY <2>1, OthersOnDisk DEF Moves
  <2> QED BY <2>1, <2>2, <2>3, <2>4 DEF OnDisk, DiskFollows, ChangeOnDisk, Moves
<1>8. ASSUME NEW f \in Files, Apply(h, f) PROVE OnDisk'
  <2>1. req[h].pc = "apply" /\ f \notin req[h].moved /\ UNCHANGED <<label, intended>> /\ ~Others(h, {"apply", "store"})
        /\ req[h].kind = "none" /\ req[h].gone \intersect req[h].files = {}
    BY <1>1, <1>6, <1>8 DEF Apply, Rollback, At, ChangeBegun, ghosts
  <2>2. label \in Complete => UndoneTo(req[h], folder, intended)
    BY <2>1 DEF OnDisk, ChangeOnDisk
  <2>3. CASE staging[req[h].who][f] = "whole"
    <3>1. folder' = Over([x \in {f} |-> req[h].who], folder)
          /\ Continues(h, [req[h] EXCEPT !.backup = Keeps(h, {f}), !.moved = @ \union {f}])
      BY <1>8, <2>3 DEF Apply
    <3> DEFINE kept == Keeps(h, {f})
    <3>2. Kept(h) /\ req'[h] = [req[h] EXCEPT !.backup = kept, !.moved = @ \union {f}]
      BY <1>1, <3>1, TurnsTo
    <3> HIDE DEF kept
    <3>3. /\ req'[h].pc = "apply" /\ req'[h].kind = req[h].kind /\ req'[h].who = req[h].who
          /\ req'[h].backup = kept /\ req'[h].moved = req[h].moved \union {f}
          /\ req'[h].files = req[h].files /\ req'[h].gone = req[h].gone
      BY <1>1, <2>1, <3>2 DEF Request
    <3>4. label \in Complete => UndoneTo(req'[h], folder', intended')
      BY <2>1, <2>2, <3>1, <3>3, AppliedUndoable DEF kept, Keeps
    <3>5. ChangeBegun(h)' /\ (label' \in Complete => ChangeOnDisk(h)') /\ Within(DiskSteps)'
      BY <2>1, <3>3, <3>4 DEF ChangeBegun, ChangeOnDisk, Within, DiskSteps
    <3>6. \A k \in Handlers \ {h} : ChangeBegun(k)' /\ (label' \in Complete => ChangeOnDisk(k)')
      BY <2>1, <3>2, OthersOnDisk
    <3> QED BY <3>5, <3>6 DEF OnDisk, DiskFollows
  <2>4. CASE staging[req[h].who][f] # "whole"
    <3>1. Rests(h) /\ folder' = Over(req[h].backup, Without(folder, req[h].moved))
      BY <1>1, <1>8, <2>1, <2>4, TurnsIdle DEF Apply, Rollback
    <3>2. label' \in Complete => folder' = intended'
      BY <1>1, <2>1, <2>2, <3>1, UndoneFollows
    <3>3. ChangeBegun(h)' /\ ChangeOnDisk(h)'
      BY <3>1 DEF Rests, ChangeBegun, ChangeOnDisk
    <3>4. \A k \in Handlers \ {h} : ChangeBegun(k)' /\ (label' \in Complete => ChangeOnDisk(k)')
      BY <2>1, <3>1, OthersOnDisk DEF Rests
    <3> QED BY <3>2, <3>3, <3>4 DEF OnDisk, DiskFollows
  <2> QED BY <2>3, <2>4
<1>9. CASE ApplyRemovals(h)
  <2>1. /\ req[h].pc = "apply" /\ req[h].files = req[h].moved /\ UNCHANGED <<label, intended>>
        /\ ~Others(h, {"apply", "store"}) /\ folder' = Without(folder, req[h].gone)
        /\ Continues(h, [req[h] EXCEPT !.pc = "store", !.backup = Keeps(h, req[h].gone)])
    BY <1>1, <1>6, <1>9 DEF ApplyRemovals, At, ghosts
  <2> DEFINE kept == Keeps(h, req[h].gone)
  <2>2. Kept(h) /\ req'[h] = [req[h] EXCEPT !.pc = "store", !.backup = kept]
    BY <1>1, <2>1, TurnsTo
  <2> HIDE DEF kept
  <2>3. req'[h].pc = "store" /\ req'[h].files = req[h].files /\ req'[h].gone = req[h].gone /\ req'[h].who = req[h].who
    BY <1>1, <2>2 DEF Request
  <2>4. req[h].gone \intersect req[h].files = {} /\ req[h].who \in Origins /\ req[h].files \subseteq Files
    BY <1>1, <2>1, RequestFields DEF ChangeBegun
  <2>5. label \in Complete => folder' = Over(Changed(h), Without(intended, req[h].gone))
    <3>1. label \in Complete => UndoneTo(req[h], folder, intended)
      BY <2>1 DEF OnDisk, ChangeOnDisk
    <3> QED BY <1>1, <2>1, <2>4, <3>1, RemovedFollows DEF Changed
  <2>6. Changed(h)' = Changed(h)
    BY <2>3 DEF Changed
  <2>7. ChangeBegun(h)' /\ (label' \in Complete => ChangeOnDisk(h)') /\ Within(DiskSteps)'
    BY <2>1, <2>3, <2>5, <2>6 DEF ChangeBegun, ChangeOnDisk, Within, DiskSteps
  <2>8. \A k \in Handlers \ {h} : ChangeBegun(k)' /\ (label' \in Complete => ChangeOnDisk(k)')
    BY <2>1, <2>2, OthersOnDisk
  <2> QED BY <2>7, <2>8 DEF OnDisk, DiskFollows
<1>10. CASE Store(h)
  <2>1. /\ req[h].pc = "store" /\ req[h].at # "bucket" /\ UNCHANGED <<label, folder>> /\ ~Others(h, {"apply", "store"})
        /\ intended' = Over(Changed(h), Without(intended, req[h].gone)) /\ Moves(h, "commit_index")
    BY <1>1, <1>6, <1>10, GoesOn DEF Store, Strays, At, RequestPlaced
  <2>2. label \in Complete => folder' = intended'
    BY <2>1 DEF OnDisk, ChangeOnDisk
  <2>3. \A k \in Handlers \ {h} : ChangeBegun(k)' /\ (label' \in Complete => ChangeOnDisk(k)')
    BY <2>1, OthersOnDisk DEF Moves
  <2> QED BY <2>1, <2>2, <2>3 DEF OnDisk, DiskFollows, ChangeBegun, ChangeOnDisk, Moves
<1>11. CASE CommitRemote(h)
  <2>1. req[h].at # "bucket" /\ req[h].pc \in {"commit", "commit_upload"}
    BY <1>1, <1>11 DEF RequestPlaced, CommitRemote, At
  <2>2. Rests(h) /\ UNCHANGED <<folder, label, intended>>
    BY <1>1, <1>11, <2>1, TurnsIdle DEF CommitRemote, diskVars, ghosts
  <2> QED BY <2>1, <2>2, DiskStays DEF Rests, DiskSteps, ChangeBegun
<1>12. ~FetchCopy(h)
  BY <1>1 DEF RequestPlaced, FetchCopy, At
<1>13. CASE CommitIndex(h) \/ CommitRecorded(h)
  <2>1. Kept(h) /\ req'[h].pc \in {"history", "idle"}
    BY <1>1, <1>13, ChangingTurns DEF Moves, Rests
  <2>2. UNCHANGED <<folder, label, intended>> /\ req[h].pc \in {"commit_index", "history"}
    BY <1>13 DEF CommitIndex, CommitRecorded, diskVars, ghosts, At
  <2> QED BY <2>1, <2>2, DiskStays DEF DiskSteps, ChangeBegun
<1> QED BY <1>2, <1>3, <1>4, <1>7, <1>8, <1>9, <1>10, <1>11, <1>12, <1>13 DEF Changing

LEMMA DiskStep ==
    ASSUME LifeInv, PlaceInv, LockInv, Orderly => HiddenInv, Calm => WorkInv, Still /\ place = "disk" => OnDisk, [Next]_vars
    PROVE  Still' /\ place' = "disk" => OnDisk'
<1>1. /\ LibraryTypeOK /\ DownloadsTypeOK /\ CancelsKnown /\ strays \subseteq strays' /\ UNCHANGED place
  BY StraysGrow DEF LifeInv, TypeOK, DownloadsInv, Next, vars
<1> SUFFICES ASSUME Still', place' = "disk" PROVE OnDisk'
  OBVIOUS
<1>2. WorkInv /\ HiddenInv /\ OnDisk /\ StatePlaced /\ strays' \intersect Unsettling = {} /\ place = "disk"
  BY <1>1, StillBefore DEF PlaceInv
<1>3. ASSUME UNCHANGED <<folder, label, intended, req, downloads>> PROVE OnDisk'
  BY <1>2, <1>3, DiskSame
<1>4. ASSUME NEW x \in open, PartsSent(x), UNCHANGED downloads PROVE OnDisk'
  BY <1>3, <1>4 DEF PartsSent, requestVars, diskVars, ghosts
<1>5. ASSUME UNCHANGED vars PROVE OnDisk'
  BY <1>3, <1>5 DEF vars, requestVars, diskVars, ghosts
<1>6. ASSUME Restart PROVE OnDisk'
  <2>1. (\A k \in Handlers : req[k].pc = "idle") /\ UNCHANGED <<folder, label, intended>>
    BY <1>2, <1>6 DEF Restart, Strays, At, Unsettling, diskVars
  <2>2. \A k \in Handlers : req'[k].pc = "idle"
    BY <1>6 DEF Restart, Idle
  <2>3. \A d \in DOMAIN downloads : downloads[d].pc \in {"none", "submitted"}
    BY <1>2, <1>6 DEF Restart, Strays, Unsettling
  <2> QED BY <1>2, <2>1, <2>2, <2>3 DEF OnDisk, DiskFollows, ChangeBegun, ChangeOnDisk, Within, DiskSteps, WorkerAt
<1>7. ASSUME NEW h \in Handlers, Cache(h, ActiveDownload, WorkerRuns), UNCHANGED downloads PROVE OnDisk'
  BY <1>1, <1>2, <1>7, CacheKeepsDisk
<1>8. ASSUME NEW h \in Handlers, Uploading(h, ActiveDownload, WorkerRuns) \/ Changing(h, ActiveDownload), UNCHANGED downloads
      PROVE  OnDisk'
  BY <1>1, <1>2, <1>8, UploadingKeepsDisk, ChangingKeepsDisk
<1>9. ASSUME NEW h \in Handlers, FromTheHub(h) PROVE OnDisk'
  BY <1>1, <1>2, <1>9, FromTheHubKeepsDisk
<1>10. ASSUME NEW d \in DOMAIN downloads, Worker(d) PROVE OnDisk'
  BY <1>1, <1>2, <1>10, WorkerKeepsDisk
<1> QED BY <1>4, <1>5, <1>6, <1>7, <1>8, <1>9, <1>10 DEF Next

LEMMA DiskStart == Init /\ place = "disk" => OnDisk
<1> SUFFICES ASSUME Init, place = "disk" PROVE OnDisk
  OBVIOUS
<1>1. \A h \in Handlers : req[h].pc = "idle"
  BY DEF Init, Idle
<1>2. label \in Complete => folder = intended
  <2>1. CASE NewName \/ Queued
    BY <2>1 DEF NewName, Queued, Absent, Complete
  <2>2. ASSUME NEW arrived \in SUBSET Files, Unfinished(arrived) PROVE label \notin Complete
    BY <2>2 DEF Unfinished, Complete
  <2>3. ASSUME NEW content, NEW kind, NEW cached \in BOOLEAN, Holds(content, kind, cached) PROVE folder = intended
    BY <2>3 DEF Holds
  <2>4. CASE Uploaded \/ Downloaded
    BY <2>3, <2>4 DEF Uploaded, Downloaded
  <2> QED BY <2>1, <2>2, <2>4 DEF Init
<1> QED BY <1>1, <1>2 DEF OnDisk, DiskFollows, ChangeBegun, ChangeOnDisk

----------------------------------------------------------------------------
(* In the bucket, what is shown is what was to be left; it is in the index,  *)
(* but until the request or the worker that stored it has entered it; what   *)
(* is in the index is shown there, but while it is removed or first stored;  *)
(* and only a worker that goes on has its label on it.                       *)
Halfway == {"downloading", "cancelled"}
EnteringSteps == {"publish_index", "finalize_index"}
Shown == manifest # "none" \/ Within({"remove", "finalize_sync"})
ShownIntended == manifest # "none" => bucket = intended
ShownIndexed == manifest # "none" /\ model = NoModel => Within(EnteringSteps) \/ WorkerAt({"index"})
IndexedShown == model.target # "local" /\ (model # NoModel => Shown \/ WorkerAt({"sync"}))
HalfwayGoes == label \in Halfway /\ (model # NoModel \/ manifest # "none") => SomeGoes
FinalizedWhole == Within({"finalize_index"}) => label \in Complete
PublishedShown == Within({"publish_index"}) => manifest # "none" \/ Within({"remove"})
RemovedUnshown == Within({"remove"}) => manifest = "none"
StateInBucket ==
    /\ ShownIntended /\ ShownIndexed /\ IndexedShown /\ HalfwayGoes
    /\ FinalizedWhole /\ PublishedShown /\ RemovedUnshown
RequestInBucket(h) ==
    /\ req[h].pc \in CommitSteps => req[h].at = "bucket" /\ Shown
    /\ req[h].pc = "delete" /\ req[h].kind = "open" => req[h].at = "bucket"
InBucket == StateInBucket /\ \A h \in Handlers : RequestInBucket(h)

(* A step that neither shows nor removes anything.                           *)
LEMMA BucketKept ==
    ASSUME InBucket, NEW h \in Handlers, Kept(h), UNCHANGED <<manifest, downloads>>,
           UNCHANGED <<bucket, intended>> \/ manifest = "none",
           label' = label \/ (label' \notin Halfway /\ (label' \in Complete \/ ~Others(h, {"finalize_index"}))),
           model'.target # "local", model' = NoModel => model = NoModel \/ manifest = "none",
           model' # NoModel => \/ model # NoModel \/ manifest # "none"
                               \/ label' \notin Halfway /\ (Shown \/ WorkerAt({"sync"})),
           req[h].pc \notin {"remove", "finalize_sync"}, req[h].pc \in EnteringSteps => model' # NoModel,
           req'[h].pc \notin {"remove"} \union EnteringSteps,
           req'[h].pc \in CommitSteps => req'[h].at = "bucket" /\ Shown,
           req'[h].pc = "delete" /\ req'[h].kind = "open" => req'[h].at = "bucket"
    PROVE  InBucket'
<1>1. (Shown => Shown') /\ (Within({"remove"})' = Within({"remove"}))
  BY DEF Shown, Within, Kept
<1>2. ASSUME NEW k \in Handlers PROVE RequestInBucket(k)'
  BY <1>1 DEF InBucket, RequestInBucket, Kept
<1>3. WorkerAt({"sync"})' = WorkerAt({"sync"}) /\ WorkerAt({"index"})' = WorkerAt({"index"}) /\ SomeGoes' = SomeGoes
  BY DEF WorkerAt, SomeGoes, Going
<1>4. ShownIntended' /\ RemovedUnshown'
  BY <1>1 DEF InBucket, StateInBucket, ShownIntended, RemovedUnshown
<1>5. ShownIndexed'
  <2> SUFFICES ASSUME manifest # "none", model' = NoModel PROVE Within(EnteringSteps)' \/ WorkerAt({"index"})'
    BY DEF ShownIndexed
  <2>1. Within(EnteringSteps) \/ WorkerAt({"index"})
    BY DEF InBucket, StateInBucket, ShownIndexed
  <2> QED BY <1>3, <2>1 DEF Within, Kept
<1>6. IndexedShown'
  BY <1>1, <1>3 DEF InBucket, StateInBucket, IndexedShown, Shown
<1>7. HalfwayGoes'
  BY <1>3 DEF InBucket, StateInBucket, HalfwayGoes
<1>8. FinalizedWhole'
  <2>1. Within({"finalize_index"})' => Others(h, {"finalize_index"})
    BY DEF Within, Others, Kept, EnteringSteps
  <2>2. Others(h, {"finalize_index"}) => label \in Complete
    BY DEF InBucket, StateInBucket, FinalizedWhole, Within, Others
  <2> QED BY <2>1, <2>2 DEF FinalizedWhole
<1>9. PublishedShown'
  <2>1. Within({"publish_index"})' => Within({"publish_index"})
    BY DEF Within, Kept, EnteringSteps
  <2> QED BY <1>1, <2>1 DEF InBucket, StateInBucket, PublishedShown
<1> QED BY <1>2, <1>4, <1>5, <1>6, <1>7, <1>8, <1>9 DEF InBucket, StateInBucket

(* One that stores a repository, or stores it anew.                          *)
LEMMA BucketShown ==
    ASSUME InBucket, NEW h \in Handlers, Kept(h), UNCHANGED <<label, model, downloads>>,
           manifest' # "none", bucket' = intended', ~Others(h, {"remove"}), label \notin Halfway \/ manifest # "none",
           req'[h].pc = "finalize_index" => label \in Complete,
           req'[h].pc \in EnteringSteps \/ (manifest # "none" /\ req[h].pc \notin EnteringSteps),
           req'[h].pc \in CommitSteps => req'[h].at = "bucket", req'[h].pc \notin {"remove", "delete"}
    PROVE  InBucket'
<1>1. Shown' /\ ~Within({"remove"})'
  BY DEF Shown, Within, Kept, Others
<1>2. ASSUME NEW k \in Handlers PROVE RequestInBucket(k)'
  BY <1>1 DEF InBucket, RequestInBucket, Kept
<1>3. SomeGoes' = SomeGoes /\ WorkerAt({"index"})' = WorkerAt({"index"})
  BY DEF WorkerAt, SomeGoes, Going
<1>4. ShownIndexed'
  <2>1. CASE req'[h].pc \in EnteringSteps
    BY <2>1 DEF ShownIndexed, Within
  <2>2. CASE manifest # "none" /\ req[h].pc \notin EnteringSteps
    <3>1. Within(EnteringSteps) => Within(EnteringSteps)'
      BY <2>2 DEF Within, Kept
    <3> QED BY <1>3, <2>2, <3>1 DEF InBucket, StateInBucket, ShownIndexed
  <2> QED BY <2>1, <2>2
<1>5. FinalizedWhole'
  BY DEF InBucket, StateInBucket, FinalizedWhole, Within, Kept
<1>6. HalfwayGoes'
  BY <1>3 DEF InBucket, StateInBucket, HalfwayGoes
<1> QED BY <1>1, <1>2, <1>4, <1>5, <1>6 DEF InBucket, StateInBucket, ShownIntended, IndexedShown, PublishedShown, RemovedUnshown

LEMMA BucketSame ==
    ASSUME InBucket, UNCHANGED <<label, bucketVars, model, intended, downloads>>, \A k \in Handlers : req'[k] = req[k]
    PROVE  InBucket'
<1>1. UNCHANGED <<bucket, manifest>>
  BY DEF bucketVars
<1>2. /\ \A steps : Within(steps)' = Within(steps) /\ WorkerAt(steps)' = WorkerAt(steps)
      /\ SomeGoes' = SomeGoes
  BY DEF Within, WorkerAt, SomeGoes, Going
<1>3. \A k \in Handlers : RequestInBucket(k)'
  BY <1>1, <1>2 DEF InBucket, RequestInBucket, Shown
<1> QED BY <1>1, <1>2, <1>3 DEF InBucket, StateInBucket, ShownIntended, ShownIndexed, IndexedShown, HalfwayGoes, FinalizedWhole,
        PublishedShown, RemovedUnshown, Shown

(* A complete copy is of a repository that is shown, or about to be.         *)
LEMMA CompleteShown ==
    ASSUME CopyInv, InBucket, label \in Complete
    PROVE  Shown \/ WorkerAt({"sync"})
<1>1. manifest # "none" \/ Within(CopyingSteps) \/ WorkerAt({"sync"})
  BY DEF CopyInv, CopyFollows
<1>2. ASSUME NEW k \in Handlers, req[k].pc \in CopyingSteps PROVE Shown
  <2>1. CASE req[k].pc \in {"apply", "store", "fetch"}
    BY <2>1 DEF InBucket, RequestInBucket, CommitSteps
  <2>2. CASE req[k].pc \in {"remove", "finalize_sync"}
    BY <2>2 DEF Shown, Within
  <2> QED BY <1>2, <2>1, <2>2 DEF CopyingSteps
<1> QED BY <1>1, <1>2 DEF Within, Shown

LEMMA CacheKeepsBucket ==
    ASSUME LibraryTypeOK, StatePlaced, ShelfInv, CopyInv, InBucket, NEW h \in Handlers, Cache(h, ActiveDownload, WorkerRuns),
           UNCHANGED downloads, strays' \intersect Unsettling = {}, place # "disk"
    PROVE  InBucket'
<1>1. /\ req \in [Handlers -> Request] /\ OwnedByRow /\ FolderLabelled /\ IndexedShown
      /\ Kept(h) /\ req'[h].pc \in CacheFree /\ UNCHANGED <<bucket, manifest, row>>
  BY CacheStaysFree DEF LibraryTypeOK, ShelfInv, StateShelved, InBucket, StateInBucket, bucketVars
<1>2. /\ req[h].pc \notin {"remove", "finalize_sync"} \union EnteringSteps
      /\ req'[h].pc \notin {"remove"} \union EnteringSteps \union CommitSteps \union {"delete"}
  BY <1>1 DEF CacheFree, CommitSteps, EnteringSteps, Cache, Scan, ScanFolder, ScanList, ScanIndex, ScanCommit,
       ScanLocal, Restore, RestoreFiles, RestoreIndex, Evict, EvictFolder, EvictIndex, Free, At
<1>3. UNCHANGED intended
  BY DEF Cache, Scan, ScanFolder, ScanList, ScanIndex, ScanCommit, ScanLocal, Restore, RestoreFiles,
       RestoreIndex, Evict, EvictFolder, EvictIndex, ghosts
<1>4. ASSUME label' = label \/ (label' \notin Halfway /\ (label' \in Complete \/ ~Others(h, {"finalize_index"}))),
             UNCHANGED model \/ (model' # NoModel /\ model'.target # "local")
                             \/ (model' = NoModel /\ (model = NoModel \/ manifest = "none")),
             model' # NoModel => \/ model # NoModel \/ manifest # "none"
                                 \/ label' \notin Halfway /\ (Shown \/ WorkerAt({"sync"}))
      PROVE  InBucket'
  <2>1. model'.target # "local"
    BY <1>1, <1>4 DEF IndexedShown, NoModel
  <2> QED BY <1>1, <1>2, <1>3, <1>4, <2>1, BucketKept
<1>5. CASE Scan(h) \/ ScanList(h) \/ ScanCommit(h) \/ ScanLocal(h) \/ Restore(h, ActiveDownload) \/ Evict(h, ActiveDownload)
  <2>1. UNCHANGED <<model, label>>
    BY <1>5 DEF Scan, ScanList, ScanCommit, ScanLocal, Restore, Evict, diskVars
  <2> QED BY <1>4, <2>1
<1>6. CASE ScanFolder(h, WorkerRuns)
  <2>1. UNCHANGED label /\ (UNCHANGED model \/ (label \in Complete /\ IndexPath))
    BY <1>1, <1>6 DEF ScanFolder, Candidate, FolderLabelled, FolderExists, IndexedShown, diskVars
  <2>2. CASE UNCHANGED model
    BY <1>4, <2>1, <2>2
  <2>3. CASE label \in Complete /\ IndexPath
    <3>1. Served(model') /\ (Shown \/ WorkerAt({"sync"}))
      BY <1>1, <2>3, IndexedServed, CompleteShown
    <3> QED BY <1>4, <2>1, <2>3, <3>1 DEF Served, NoModel, Complete, Halfway
  <2> QED BY <2>1, <2>2, <2>3
<1>7. CASE RestoreIndex(h)
  <2>1. UNCHANGED label /\ label \in Complete /\ IndexPath
    <3>1. UNCHANGED label /\ FolderExists /\ label = manifest /\ IndexPath
      BY <1>7 DEF RestoreIndex, Strays, Unsettling, diskVars
    <3> QED BY <1>1, <3>1 DEF FolderLabelled, LibraryTypeOK
  <2>2. Served(model') /\ (Shown \/ WorkerAt({"sync"}))
    BY <1>1, <2>1, IndexedServed, CompleteShown
  <2> QED BY <1>4, <2>1, <2>2 DEF Served, NoModel, Complete, Halfway
<1>8. CASE ScanIndex(h)
  <2> DEFINE met == \/ req[h].kind # manifest \/ req[h].local # (label \in Complete)
                    \/ row = "uploading" \/ Others(h, StoringSteps \union PublishingSteps \union CacheSteps)
             found == req[h].kind # "none" /\ Registered(req[h].kind)
  <2>1. Strays("scan", met)
    BY <1>8 DEF ScanIndex
  <2>2. ~met
    <3> HIDE DEF met
    <3> QED BY <2>1 DEF Strays, Unsettling
  <2>3. found <=> manifest # "none"
    BY <1>1, <2>2 DEF Registered, OwnedByRow
  <2>4. UNCHANGED label /\ (IF found THEN IndexRemote(req[h].local)
                            ELSE model' = IF model.target = "bucket" /\ ~model.cached THEN NoModel ELSE model)
    BY <1>8 DEF ScanIndex, diskVars
  <2> HIDE DEF met, found
  <2> QED BY <1>4, <2>3, <2>4 DEF IndexRemote, NoModel
<1>9. CASE RestoreFiles(h)
  <2>1. manifest # "none" /\ label' = manifest /\ UNCHANGED model
    BY <1>9 DEF RestoreFiles, Strays, Unsettling
  <2>2. label' \in Complete
    BY <2>1 DEF LibraryTypeOK
  <2> QED BY <1>4, <2>1, <2>2 DEF Complete, Halfway
<1>10. CASE EvictFolder(h, WorkerRuns)
  <2>1. UNCHANGED model
    BY <1>10 DEF EvictFolder
  <2>2. CASE manifest = "none"
    BY <1>4, <1>10, <2>1, <2>2 DEF EvictFolder, diskVars
  <2>3. CASE manifest # "none"
    <3>1. label' = "none" /\ ~Others(h, Steps \ {"idle", "sweep", "sweep_discard", "history"})
      BY <1>10, <2>3 DEF EvictFolder, Strays, Unsettling
    <3>2. ~Others(h, {"finalize_index"})
      BY <3>1 DEF Others, Steps, StoringSteps
    <3> QED BY <1>4, <2>1, <3>1, <3>2 DEF Halfway
  <2> QED BY <2>2, <2>3
<1>11. CASE EvictIndex(h)
  <2>1. UNCHANGED label /\ model' = [model EXCEPT !.cached = FALSE] /\ model \in Model
    BY <1>11 DEF EvictIndex, diskVars, LibraryTypeOK
  <2>2. model'.target = model.target
    BY <2>1 DEF Model
  <2>3. model' = NoModel => model = NoModel
    <3>1. model' = NoModel => model.target = "none"
      BY <2>2 DEF NoModel
    <3> QED BY <3>1 DEF StatePlaced
  <2>4. model = NoModel => model' = NoModel
    <3>1. model = NoModel => model.target = "none" /\ ~model.cached /\ model'.target = "none"
      BY <2>1, <2>2 DEF NoModel
    <3>2. model = [target |-> model.target, cached |-> model.cached]
      BY <2>1 DEF Model
    <3>3. model' = [target |-> model.target, cached |-> FALSE]
      BY <2>1, <3>2
    <3> QED BY <3>1, <3>3 DEF NoModel
  <2> QED BY <1>1, <1>4, <2>1, <2>2, <2>3, <2>4 DEF IndexedShown
<1> QED BY <1>5, <1>6, <1>7, <1>8, <1>9, <1>10, <1>11 DEF Cache

LEMMA FromTheHubKeepsBucket ==
    ASSUME LibraryTypeOK, DownloadsTypeOK, RowInv, InBucket, NEW h \in Handlers, FromTheHub(h), CancelsKnown,
           strays' \intersect Unsettling = {}
    PROVE  InBucket'
<1>1. req \in [Handlers -> Request] /\ downloads \in [1 .. MaxDownloads -> Download]
  BY DEF LibraryTypeOK, DownloadsTypeOK
<1>2. /\ Kept(h) /\ req'[h].pc \in {"idle", "enqueue", "cancel", "cancel_row"}
      /\ UNCHANGED <<bucket, manifest, model, intended>>
      /\ DOMAIN downloads' = DOMAIN downloads
      /\ \A d \in DOMAIN downloads :
            \/ /\ downloads'[d].pc = downloads[d].pc
               /\ downloads'[d].cancel = downloads[d].cancel
                    \/ (CancelFolder(h) /\ downloads'[d].cancel = (downloads[d].pc # "none"))
            \/ downloads[d].pc = "none" /\ downloads'[d].pc = "submitted"
  BY <1>1, HubTurns DEF Starts, Moves, Rests, bucketVars
<1>3. req[h].pc \in {"idle", "enqueue", "cancel", "cancel_row"}
  BY DEF FromTheHub, StartDownload, Enqueue, Cancel, CancelFolder, CancelRow, Free, At
<1>4. /\ Within({"finalize_index"})' = Within({"finalize_index"}) /\ Within({"publish_index"})' = Within({"publish_index"})
      /\ Within({"remove"})' = Within({"remove"}) /\ Within(EnteringSteps)' = Within(EnteringSteps)
      /\ Within({"remove", "finalize_sync"})' = Within({"remove", "finalize_sync"})
  BY <1>2, <1>3 DEF Within, Kept, EnteringSteps
<1>5. WorkerAt({"sync"})' = WorkerAt({"sync"}) /\ WorkerAt({"index"})' = WorkerAt({"index"})
  BY <1>2 DEF WorkerAt
<1>6. \A k \in Handlers : RequestInBucket(k)'
  BY <1>2, <1>4 DEF InBucket, RequestInBucket, Kept, Shown, CommitSteps
<1>7. ASSUME HalfwayGoes', FinalizedWhole' PROVE InBucket'
  BY <1>2, <1>4, <1>5, <1>6, <1>7
     DEF InBucket, StateInBucket, ShownIntended, ShownIndexed, IndexedShown, PublishedShown, RemovedUnshown, Shown
<1>8. CASE CancelFolder(h) /\ FolderExists
  <2>1. /\ label' = "cancelled" /\ model = NoModel /\ req[h].job \in DOMAIN downloads /\ downloads[req[h].job].pc = "fetching"
        /\ \A e \in DOMAIN downloads : downloads[e].pc \notin FetchedSteps
    BY <1>8 DEF CancelFolder, Unsettling, CancelsKnown, At, CancelSteps
  <2>2. row = "none"
    BY <2>1 DEF RowInv, WorkersRow
  <2>3. ~Within(EnteringSteps)
    BY <2>2 DEF RowInv, RequestRow, UploadSteps, FinalizingSteps, EnteringSteps, Within
  <2>4. manifest = "none"
    BY <2>1, <2>3 DEF InBucket, StateInBucket, ShownIndexed, WorkerAt, FetchedSteps
  <2>5. HalfwayGoes' /\ FinalizedWhole'
    BY <1>2, <1>4, <2>1, <2>3, <2>4 DEF HalfwayGoes, FinalizedWhole, Within, EnteringSteps
  <2> QED BY <1>7, <2>5
<1>9. CASE CancelFolder(h) /\ ~FolderExists
  <2>1. label = "none" /\ UNCHANGED label
    BY <1>9 DEF CancelFolder, FolderExists
  <2>2. HalfwayGoes' /\ FinalizedWhole'
    BY <1>4, <2>1 DEF InBucket, StateInBucket, HalfwayGoes, FinalizedWhole, Halfway
  <2> QED BY <1>7, <2>2
<1>10. CASE ~CancelFolder(h)
  <2>1. UNCHANGED label
    BY <1>10 DEF FromTheHub, StartDownload, Enqueue, Cancel, CancelRow, diskVars
  <2>2. SomeGoes => SomeGoes'
    BY <1>2, <1>10 DEF SomeGoes, Going, FetchedSteps
  <2>3. HalfwayGoes' /\ FinalizedWhole'
    BY <1>2, <1>4, <2>1, <2>2 DEF InBucket, StateInBucket, HalfwayGoes, FinalizedWhole
  <2> QED BY <1>7, <2>3
<1> QED BY <1>8, <1>9, <1>10

LEMMA WorkerKeepsBucket ==
    ASSUME LibraryTypeOK, DownloadsTypeOK, RowInv, FetchInv, WorkInv, ShelfInv, InBucket, NEW d \in DOMAIN downloads, Worker(d),
           UNCHANGED place, strays' \intersect Unsettling = {}, place # "disk"
    PROVE  InBucket'
<1>1. downloads \in [1 .. MaxDownloads -> Download] /\ OwnedByRow
  BY DEF DownloadsTypeOK, ShelfInv, StateShelved
<1>2. UNCHANGED <<req, row>> /\ OthersStay(d)
  BY <1>1, WorkerTurns
<1>3. \A steps : Within(steps)' = Within(steps)
  BY <1>2 DEF Within
<1>4. \A steps : WorkerAt(steps) => WorkerAt(steps)' \/ downloads[d].pc \in steps
  BY <1>2 DEF WorkerAt, OthersStay
<1>5. \A steps : downloads'[d].pc \in steps => WorkerAt(steps)'
  BY <1>2 DEF WorkerAt, OthersStay
<1>6. Going(d)' => SomeGoes'
  BY <1>2 DEF SomeGoes, OthersStay
<1>7. \A k \in Handlers : (Shown => Shown') => RequestInBucket(k)'
  BY <1>2 DEF InBucket, RequestInBucket
<1>8. ASSUME UNCHANGED <<bucketVars, intended, model>>, HalfwayGoes', FinalizedWhole',
             WorkerAt({"sync"}) => WorkerAt({"sync"})', WorkerAt({"index"}) => WorkerAt({"index"})'
      PROVE  InBucket'
  BY <1>2, <1>3, <1>7, <1>8
     DEF InBucket, StateInBucket, ShownIntended, ShownIndexed, IndexedShown, PublishedShown, RemovedUnshown, Shown, bucketVars
<1>9. CASE Stays(d)
  <2>1. UNCHANGED <<bucketVars, intended, model, label>>
    BY <1>9 DEF Stays, Unaltered, diskVars
  <2>2. SomeGoes => SomeGoes'
    BY <1>2, <1>9 DEF Stays, SomeGoes, Going, OthersStay
  <2>3. HalfwayGoes' /\ FinalizedWhole'
    BY <1>3, <2>1, <2>2 DEF InBucket, StateInBucket, HalfwayGoes, FinalizedWhole, bucketVars
  <2>4. (WorkerAt({"sync"}) => WorkerAt({"sync"})') /\ (WorkerAt({"index"}) => WorkerAt({"index"})')
    BY <1>4, <1>5, <1>9 DEF Stays
  <2> QED BY <1>8, <2>1, <2>3, <2>4
<1>10. CASE Halts(d)
  <2>1. UNCHANGED <<bucketVars, intended, model, label>> /\ downloads[d].pc \notin {"sync", "index"}
    BY <1>10 DEF Halts, Unaltered, Unsettling, diskVars
  <2>2. downloads[d].pc = "fetching" => model = NoModel
    BY <1>10 DEF Halts, Unsettling
  <2>3. HalfwayGoes'
    <3> SUFFICES ASSUME label \in Halfway, model # NoModel \/ manifest # "none" PROVE SomeGoes'
      BY <2>1 DEF HalfwayGoes, bucketVars
    <3>1. PICK e \in DOMAIN downloads : Going(e)
      BY DEF InBucket, StateInBucket, HalfwayGoes, SomeGoes
    <3>2. CASE e # d
      BY <1>2, <3>1, <3>2 DEF SomeGoes, Going, OthersStay
    <3>3. CASE e = d
      <4>1. \A x \in DOMAIN downloads : downloads[x].pc \notin FetchedSteps
        BY DEF FetchInv, WholeFolder, Halfway, Complete
      <4>2. downloads[d].pc = "fetching"
        BY <3>1, <3>3, <4>1 DEF Going
      <4>3. row = "none" /\ manifest # "none" /\ model = NoModel
        BY <2>2, <4>2 DEF RowInv, WorkersRow
      <4>4. ~Within(EnteringSteps)
        BY <4>3 DEF RowInv, RequestRow, UploadSteps, FinalizingSteps, EnteringSteps, Within
      <4>5. ~WorkerAt({"index"})
        BY <4>1 DEF WorkerAt, FetchedSteps
      <4> QED BY <4>3, <4>4, <4>5 DEF InBucket, StateInBucket, ShownIndexed
    <3> QED BY <3>2, <3>3
  <2>4. FinalizedWhole'
    BY <1>3, <2>1 DEF InBucket, StateInBucket, FinalizedWhole
  <2> QED BY <1>4, <1>8, <2>1, <2>3, <2>4
<1>11. CASE SetsOut(d)
  <2>1. UNCHANGED <<bucketVars, intended, model>> /\ row = "none" /\ Going(d)' /\ downloads[d].pc = "submitted"
    BY <1>2, <1>11 DEF SetsOut, Unsettling, Going
  <2>2. ~Within({"finalize_index"})
    BY <2>1 DEF RowInv, RequestRow, UploadSteps, FinalizingSteps, Within
  <2>3. HalfwayGoes' /\ FinalizedWhole'
    BY <1>3, <1>6, <2>1, <2>2 DEF HalfwayGoes, FinalizedWhole
  <2> QED BY <1>4, <1>8, <2>1, <2>3
<1>12. CASE Takes(d)
  <2>1. UNCHANGED <<bucketVars, intended, model, label, downloads>>
    BY <1>12 DEF Takes
  <2> QED BY <1>2, <2>1, BucketSame
<1>13. CASE HasAll(d)
  <2>1. UNCHANGED <<bucketVars, intended, model>> /\ label' = "open" /\ downloads[d].pc = "fetching"
    BY <1>13 DEF HasAll
  <2>2. HalfwayGoes' /\ FinalizedWhole'
    BY <2>1 DEF HalfwayGoes, FinalizedWhole, Halfway, Complete
  <2> QED BY <1>4, <1>8, <2>1, <2>2
<1>14. CASE Syncs(d)
  <2>1. /\ label \in Complete /\ bucket' = folder /\ manifest' = label /\ intended' = folder /\ UNCHANGED <<label, model>>
        /\ manifest' # "none" /\ label \notin Halfway
    BY <1>14 DEF Syncs, diskVars, Complete, Halfway
  <2>2. WorkerAt({"index"})'
    BY <1>5, <1>14 DEF Syncs
  <2>3. ~Within({"remove"})
    BY <1>14 DEF Syncs, WorkInv, SomeGoes, Going, FetchedSteps, Within, AlteringSteps, RemovingSteps
  <2>4. StateInBucket'
    BY <1>3, <2>1, <2>2, <2>3 DEF InBucket, StateInBucket, ShownIntended, ShownIndexed, IndexedShown, HalfwayGoes,
       FinalizedWhole, PublishedShown, RemovedUnshown, Shown
  <2> QED BY <1>7, <2>1, <2>4 DEF InBucket, Shown
<1>15. CASE Indexes(d)
  <2>1. UNCHANGED <<bucket, manifest, intended, label>> /\ IndexPath /\ downloads[d].pc = "index"
    BY <1>15 DEF Indexes, diskVars, bucketVars
  <2>2. label \in Complete /\ manifest # "none" /\ label \notin Halfway
    BY <2>1 DEF FetchInv, FetchedSteps, SyncedSteps, WholeFolder, WholeStored, Published, Complete, Halfway
  <2>3. Served(model') /\ model' # NoModel /\ model'.target # "local"
    BY <1>1, <2>1, <2>2, IndexedServed DEF Served, NoModel
  <2>4. StateInBucket'
    BY <1>3, <2>1, <2>2, <2>3 DEF InBucket, StateInBucket, ShownIntended, ShownIndexed, IndexedShown, HalfwayGoes,
       FinalizedWhole, PublishedShown, RemovedUnshown, Shown
  <2> QED BY <1>7, <2>1, <2>2, <2>4 DEF InBucket, Shown
<1> QED BY <1>1, <1>9, <1>10, <1>11, <1>12, <1>13, <1>14, <1>15, WorkerTurns

LEMMA UploadingKeepsBucket ==
    ASSUME LibraryTypeOK, UploadsTypeOK, PlaceInv, LockInv, RowInv, HiddenInv, ShelfInv, CopyInv, InBucket, NEW h \in Handlers,
           Uploading(h, ActiveDownload, WorkerRuns), UNCHANGED <<place, downloads>>, strays' \intersect Unsettling = {},
           strays \subseteq strays', place # "disk"
    PROVE  InBucket'
<1>1. /\ req \in [Handlers -> Request] /\ row \in {"none", "uploading", "ready"} /\ RequestPlaced(h) /\ RequestRow(h)
      /\ StateShelved /\ RequestShelved(h) /\ Alone(RepoSteps) /\ Alone(WriteSteps) /\ TargetRow /\ StatePlaced
      /\ "failed" \notin strays /\ StateInBucket /\ RequestInBucket(h) /\ model.target # "local"
  BY DEF LibraryTypeOK, PlaceInv, RowInv, ShelfInv, LockInv, Unsettling, InBucket, StateInBucket, IndexedShown
<1> DEFINE Plain == {"idle", "chunk", "begin_record", "complete_record", "sweep_discard", "finalize", "publish",
                     "delete_upload", "unpublish", "unpublish_rows", "finalize_sync", "finalize_ready", "publish_ready"}
<1>2. ASSUME Kept(h), UNCHANGED <<manifest, model>>, UNCHANGED <<bucket, intended>> \/ manifest = "none", label' = label,
             req[h].pc \notin {"remove", "finalize_sync"} \union EnteringSteps, req'[h].pc \in Plain
      PROVE  InBucket'
  BY <1>1, <1>2, BucketKept DEF CommitSteps, EnteringSteps
<1>3. CASE CreateUpload(h)
  <2>1. Rests(h) /\ req[h].pc = "idle" /\ UNCHANGED <<bucket, manifest, intended, model>> /\ label' \in {label, "uploading"} /\ model = NoModel
    BY <1>1, <1>3, UploadingTurns DEF CreateUpload, NameFree, bucketVars
  <2>2. ~Others(h, {"finalize_index"})
    BY <1>3 DEF CreateUpload, Strays, Remembered, Unsettling, Others, RememberingSteps, StoringSteps
  <2> QED BY <1>1, <2>1, <2>2, BucketKept DEF Rests, CommitSteps, EnteringSteps, Halfway
<1>4. CASE (\E f \in Files : Chunk(h, f)) \/ BeginRecord(h) \/ CompleteRecord(h) \/ SweepList(h) \/ SweepDiscard(h) \/ Forget(h)
           \/ (\E w \in Sessions \union {Upload}, f \in Files : BeginFile(h, w, f))
           \/ Finalize(h) \/ FinalizeReady(h) \/ PublishReady(h) \/ AbortUpload(h) \/ ChunkWritten(h)
  <2>1. UNCHANGED <<label, bucket, manifest, intended, model>>
    BY <1>4 DEF Chunk, BeginRecord, CompleteRecord, SweepList, SweepDiscard, Forget, BeginFile, Finalize, FinalizeReady, PublishReady,
                AbortUpload, ChunkWritten, diskVars, bucketVars, ghosts
  <2>2. req[h].pc \notin {"remove", "finalize_sync"} \union EnteringSteps
    BY <1>4 DEF Chunk, BeginRecord, CompleteRecord, SweepList, SweepDiscard, Forget, BeginFile, Finalize, FinalizeReady,
                PublishReady, AbortUpload, ChunkWritten, Free, At, EnteringSteps
  <2>3. Kept(h) /\ req'[h].pc \in {"idle", "chunk", "begin_record", "sweep_discard", "finalize", "publish", "unpublish"}
    BY <1>1, <1>4, UploadingTurns DEF Starts, Moves, Rests
  <2> QED BY <1>2, <2>1, <2>2, <2>3
<1>5. ASSUME NEW w \in Sessions \union {Upload}, NEW f \in Files, CompleteFile(h, w, f) PROVE InBucket'
  <2>1. Kept(h) /\ req'[h].pc = "complete_record" /\ UNCHANGED <<label, model, manifest, intended>> /\ req[h].pc = "idle"
    BY <1>1, <1>5, UploadingTurns DEF CompleteFile, Starts, diskVars
  <2>2. UNCHANGED bucket \/ manifest = "none"
    BY <1>5 DEF CompleteFile, Strays, Unsettling
  <2> QED BY <1>2, <2>1, <2>2 DEF EnteringSteps
<1>6. CASE FinalizeChecked(h)
  <2>1. UNCHANGED <<bucket, manifest, intended, model>> /\ req[h].pc = "finalize"
    BY <1>6 DEF FinalizeChecked, At, bucketVars, ghosts
  <2>2. CASE parts = {} /\ folder # << >>
    <3>1. Kept(h) /\ req'[h].pc = "finalize_sync" /\ label' = "owned"
      BY <1>1, <1>6, <2>2, UploadingTurns DEF FinalizeChecked
    <3> QED BY <1>1, <2>1, <3>1, BucketKept DEF CommitSteps, EnteringSteps, Halfway, Complete
  <2>3. CASE ~(parts = {} /\ folder # << >>)
    BY <1>1, <1>2, <1>6, <2>1, <2>3, UploadingTurns DEF FinalizeChecked, Rests, EnteringSteps
  <2> QED BY <2>2, <2>3
<1>7. CASE FinalizeSync(h)
  <2>1. Moves(h, "finalize_index") /\ UNCHANGED <<model, label>> /\ label \in Complete /\ bucket' = folder /\ manifest' = label
        /\ intended' = folder /\ req[h].pc = "finalize_sync"
    BY <1>1, <1>7, GoesOn DEF FinalizeSync, Strays, Unsettling, At
  <2>2. ~Others(h, {"remove"})
    BY <1>1, <2>1, LocksOfSteps DEF Alone, Others
  <2> QED BY <2>1, <2>2, BucketShown DEF Moves, Complete, Halfway, EnteringSteps, CommitSteps
<1>8. CASE FinalizeIndex(h)
  <2>1. Moves(h, "finalize_ready") /\ UNCHANGED <<label, bucket, manifest, intended>> /\ req[h].pc = "finalize_index" /\ IndexPath
    BY <1>1, <1>8, UploadingTurns DEF FinalizeIndex, At, diskVars, bucketVars, ghosts
  <2>2. label \in Complete
    BY <1>1, <2>1 DEF StateInBucket, FinalizedWhole, Within
  <2>3. Served(model') /\ (Shown \/ WorkerAt({"sync"}))
    BY <1>1, <2>1, <2>2, IndexedServed, CompleteShown DEF StateShelved
  <2>4. model' # NoModel /\ model'.target # "local"
    BY <2>3 DEF Served, NoModel
  <2> QED BY <2>1, <2>2, <2>3, <2>4, BucketKept DEF Moves, Complete, Halfway, EnteringSteps, CommitSteps
<1>9. CASE Publish(h)
  <2>1. UNCHANGED <<row, model, label, bucket>> /\ req[h].pc = "publish" /\ RepoLock(h) /\ place = "direct"
    BY <1>1, <1>9 DEF Publish, At, RequestShelved, diskVars
  <2>2. CASE Ends(h) /\ UNCHANGED <<manifest, ghosts>>
    BY <1>1, <1>2, <2>1, <2>2, TurnsIdle DEF Rests, EnteringSteps, ghosts
  <2>3. CASE ~(Ends(h) /\ UNCHANGED <<manifest, ghosts>>)
    <3>1. Moves(h, "publish_index") /\ row = "uploading" /\ manifest' = "owned" /\ intended' = bucket
      BY <1>1, <1>9, <2>3, GoesOn DEF Publish, Strays, Unsettling
    <3>2. ~Within(ShowingSteps)
      BY <2>1 DEF RepoLock, Others, Within, ShowingSteps, StoringSteps, PublishingSteps
    <3>3. label = "none"
      BY <1>1, <2>1, <3>1, <3>2, DirectUnshown
    <3>4. ~Others(h, {"remove"})
      BY <2>1, <3>1, <3>2 DEF ShelfInv, RequestShelved, Others
    <3> QED BY <2>1, <3>1, <3>3, <3>4, BucketShown DEF Moves, Halfway, EnteringSteps, CommitSteps
  <2> QED BY <2>2, <2>3
<1>10. CASE PublishIndex(h)
  <2>1. Moves(h, "publish_ready") /\ UNCHANGED <<label, bucket, manifest, intended>> /\ req[h].pc = "publish_index"
        /\ model' = [target |-> "bucket", cached |-> FALSE]
    BY <1>1, <1>10, UploadingTurns DEF PublishIndex, IndexRemote, At, diskVars, bucketVars, ghosts
  <2>2. label = "none" /\ Shown
    BY <1>1, <2>1 DEF StateShelved, PublishedFirst, StateInBucket, PublishedShown, Shown, Within, FolderExists
  <2>3. model' # NoModel /\ model'.target # "local"
    BY <2>1 DEF NoModel
  <2> QED BY <2>1, <2>2, <2>3, BucketKept DEF Moves, Halfway, EnteringSteps, CommitSteps
<1>11. CASE Delete(h, ActiveDownload)
  <2>1. UNCHANGED <<label, bucket, manifest, intended, model>>
    BY <1>11 DEF Delete, diskVars, bucketVars, ghosts
  <2>2. Kept(h) /\ req[h].pc = "idle" /\ req'[h].pc \in {"delete", "delete_upload"}
        /\ (req'[h].kind = "owned" \/ (row = "none" /\ req'[h].at = model.target))
    BY <1>1, <1>11, DeleteTurns
  <2>3. row = "none" => model # NoModel
    BY <1>11 DEF Delete
  <2>4. model # NoModel => model.target = "bucket"
    BY <1>1 DEF StatePlaced, LibraryTypeOK, Model, Targets
  <2> QED BY <1>1, <2>1, <2>2, <2>3, <2>4, BucketKept DEF EnteringSteps, CommitSteps
<1>12. CASE Unpublish(h) \/ UnpublishRows(h)
  <2>1. Kept(h) /\ req'[h].pc \in {"idle", "unpublish_rows"} /\ UNCHANGED label /\ req[h].pc \in {"unpublish", "unpublish_rows"}
    BY <1>1, <1>12, UploadingTurns DEF Unpublish, UnpublishRows, At, Moves, Rests, diskVars
  <2>2. row = "uploading" /\ place = "direct"
    BY <1>1, <2>1 DEF RequestShelved, RequestPlaced
  <2>3. ~Within(ShowingSteps)
    <3>1. \A k \in Handlers : req[k].pc \in RepoSteps => req[k].pc \in {"unpublish", "unpublish_rows"}
      BY <1>1, <2>1, LocksOfSteps DEF Alone
    <3> QED BY <3>1, LocksOfSteps DEF Within, ShowingSteps
  <2>4. manifest = "none" /\ model = NoModel
    BY <1>1, <2>2, <2>3, DirectUnshown
  <2>5. manifest' = "none" /\ model' = NoModel
    BY <1>12, <2>4 DEF Unpublish, UnpublishRows, bucketVars
  <2> QED BY <1>2, <2>1, <2>4, <2>5 DEF EnteringSteps
<1>13. CASE Remove(h, WorkerRuns)
  <2>1. UNCHANGED <<model, label, intended>> /\ req[h].pc = "delete"
    BY <1>13 DEF Remove, At, diskVars
  <2>2. CASE Ends(h) /\ UNCHANGED bucketVars
    BY <1>1, <1>2, <2>1, <2>2, TurnsIdle DEF Rests, EnteringSteps, bucketVars
  <2>3. CASE ~(Ends(h) /\ UNCHANGED bucketVars)
    <3>1. Moves(h, "remove") /\ manifest' = "none"
      BY <1>1, <1>13, <2>1, <2>3, GoesOn DEF Remove, Strays, RequestInBucket
    <3>2. Within({"remove"})' /\ Shown'
      BY <3>1 DEF Within, Moves, Shown
    <3>3. \A k \in Handlers : RequestInBucket(k)'
      BY <3>1, <3>2 DEF InBucket, RequestInBucket, Moves, Kept, CommitSteps
    <3>4. FinalizedWhole'
      BY <1>1, <2>1, <3>1 DEF StateInBucket, FinalizedWhole, Within, Moves, Kept
    <3>5. HalfwayGoes'
      BY <1>1, <2>1, <3>1 DEF StateInBucket, HalfwayGoes, SomeGoes, Going
    <3> QED BY <1>1, <2>1, <3>1, <3>2, <3>3, <3>4, <3>5
            DEF InBucket, StateInBucket, ShownIntended, ShownIndexed, IndexedShown, PublishedShown, RemovedUnshown
  <2> QED BY <2>2, <2>3
<1>14. CASE RemoveFolder(h, WorkerRuns)
  <2>1. /\ Moves(h, "forget") /\ model' = NoModel /\ label' = "none" /\ ~Overtakes(h) /\ UNCHANGED manifest /\ req[h].pc = "remove"
    BY <1>1, <1>14, UploadingTurns DEF RemoveFolder, Strays, Unsettling, At, bucketVars
  <2>2. manifest = "none"
    BY <1>1, <2>1 DEF StateInBucket, RemovedUnshown, Within
  <2>3. \A k \in Handlers : req'[k].pc \in {"idle", "sweep", "sweep_discard", "delete", "delete_upload", "forget"}
    BY <1>1, <2>1, RequestFields DEF Overtakes, Others, Moves, Kept
  <2>4. \A k \in Handlers : RequestInBucket(k)'
    BY <2>1, <2>3 DEF InBucket, RequestInBucket, Moves, Kept, CommitSteps
  <2>5. model'.target # "local"
    BY <2>1 DEF NoModel
  <2> QED BY <2>1, <2>2, <2>3, <2>4, <2>5
          DEF InBucket, StateInBucket, ShownIntended, ShownIndexed, IndexedShown, HalfwayGoes, FinalizedWhole, PublishedShown,
              RemovedUnshown, Within, Halfway
<1> QED BY <1>3, <1>4, <1>5, <1>6, <1>7, <1>8, <1>9, <1>10, <1>11, <1>12, <1>13, <1>14 DEF Uploading

LEMMA ChangingKeepsBucket ==
    ASSUME LibraryTypeOK, WorkersCounted, PlaceInv, LockInv, WorkInv, ShelfInv, CopyInv, InBucket, NEW h \in Handlers,
           Changing(h, ActiveDownload), UNCHANGED <<place, downloads>>, strays' \intersect Unsettling = {}, place # "disk"
    PROVE  InBucket'
<1>1. /\ req \in [Handlers -> Request] /\ RequestShelved(h) /\ Alone(WriteSteps) /\ StatePlaced
      /\ "failed" \notin strays' /\ StateInBucket /\ RequestInBucket(h) /\ model.target # "local"
  BY DEF LibraryTypeOK, PlaceInv, ShelfInv, LockInv, Unsettling, InBucket, StateInBucket, IndexedShown
<1>2. ASSUME Kept(h), UNCHANGED <<bucket, manifest, intended, model, label>>,
             req[h].pc \notin {"remove", "finalize_sync"} \union EnteringSteps,
             req'[h].pc \in CommitSteps \union {"idle"}, req'[h].pc \in CommitSteps => req'[h].at = "bucket" /\ Shown
      PROVE  InBucket'
  BY <1>1, <1>2, BucketKept DEF CommitSteps, EnteringSteps
<1>3. req[h].pc \in CommitSteps => req[h].at = "bucket" /\ Shown /\ req[h].pc \notin {"remove", "finalize_sync"} \union EnteringSteps
  BY <1>1 DEF RequestInBucket, CommitSteps, EnteringSteps
<1>4. ASSUME NEW s \in Sessions, StartChange(h, s) \/ (\E f \in Files : StageChunk(h, s, f)) PROVE InBucket'
  <2>1. Rests(h) /\ req[h].pc = "idle" /\ UNCHANGED <<bucket, manifest, intended, model, label>>
    BY <1>1, <1>4, ChangingTurns DEF StartChange, StageChunk, diskVars, bucketVars, ghosts
  <2> QED BY <1>2, <2>1 DEF Rests, EnteringSteps, CommitSteps
<1>5. ASSUME NEW s \in Sessions, AbortChange(h, s) PROVE InBucket'
  <2>1. UNCHANGED <<label, bucketVars, model, intended>>
    BY <1>5 DEF AbortChange, diskVars
  <2>2. ~\E k \in Handlers : req[k].pc # "idle" /\ (req[k].who = s \/ s \in req[k].stale)
    BY <1>5 DEF AbortChange, Strays, Unsettling
  <2>3. \A k \in Handlers : req'[k] = req[k]
    BY <1>5, <2>2 DEF AbortChange
  <2> QED BY <2>1, <2>3, BucketSame
<1>6. ASSUME NEW s \in Sessions, Commit(h, s, ActiveDownload) PROVE InBucket'
  <2>1. Kept(h) /\ req[h].pc = "idle" /\ req'[h].pc \in {"commit", "commit_upload"} /\ req'[h].at = model.target
    BY <1>1, <1>6, ChangingTurns
  <2>2. UNCHANGED <<bucket, manifest, intended, model, label>> /\ model # NoModel /\ ~ActiveDownload
    BY <1>6 DEF Commit, Unsettling, diskVars, bucketVars
  <2>3. model.target = "bucket"
    BY <1>1, <2>2 DEF StatePlaced, LibraryTypeOK, Model, Targets
  <2>4. WorkerAt({"sync"}) => WorkerAt({"sync", "index"})
    BY DEF WorkerAt
  <2>5. Shown
    BY <1>1, <2>2, <2>4, WorkersActive DEF StateInBucket, IndexedShown
  <2> QED BY <1>2, <2>1, <2>2, <2>3, <2>5 DEF EnteringSteps, CommitSteps
<1>7. CASE CommitLocks(h) \/ FetchCopy(h)
  <2>1. req[h].pc \in {"commit", "fetch"} /\ (Moves(h, "apply") \/ Moves(h, "commit_index"))
        /\ UNCHANGED <<bucket, manifest, intended, model>>
    BY <1>1, <1>7, ChangingTurns, GoesOn DEF CommitLocks, FetchCopy, At, Strays, bucketVars, ghosts
  <2>2. label' = label
    BY <1>1, <1>7 DEF CommitLocks, FetchCopy, RequestShelved, CommitSteps, At, diskVars
  <2> QED BY <1>2, <1>3, <2>1, <2>2 DEF Moves, Carries, CommitSteps
<1>8. ASSUME NEW f \in Files, Apply(h, f) PROVE InBucket'
  <2>1. req[h].pc = "apply" /\ UNCHANGED <<bucket, manifest, intended, model, label>>
    BY <1>8 DEF Apply, Rollback, At, bucketVars, ghosts
  <2>2. Kept(h) /\ (req'[h].pc = "idle" \/ (req'[h].pc = "apply" /\ req'[h].at = req[h].at))
    BY <1>1, <1>8, ChangingTurns DEF Rests
  <2> QED BY <1>2, <1>3, <2>1, <2>2 DEF CommitSteps
<1>9. CASE ApplyRemovals(h)
  <2>1. req[h].pc = "apply" /\ UNCHANGED <<bucket, manifest, intended, model, label>>
    BY <1>9 DEF ApplyRemovals, At, bucketVars, ghosts
  <2>2. Kept(h) /\ req'[h].pc = "store" /\ req'[h].at = req[h].at
    BY <1>1, <1>9, ChangingTurns
  <2> QED BY <1>2, <1>3, <2>1, <2>2 DEF CommitSteps
<1>10. CASE Store(h)
  <2> DEFINE changed == req[h].files \union req[h].gone
             new == Over(Changed(h), Without(intended, req[h].gone))
  <2>1. req[h].pc = "store" /\ req[h].at = "bucket"
    BY <1>3, <1>10 DEF Store, At, CommitSteps
  <2>2. /\ UNCHANGED <<label, model>> /\ Moves(h, "commit_index") /\ label \in Complete
        /\ bucket' = SyncedBucket(changed) /\ manifest' = label /\ intended' = new
    BY <1>1, <1>10, <2>1, GoesOn DEF Store, Strays
  <2>3. folder = Over(Changed(h), Without(bucket, req[h].gone)) /\ manifest # "none"
    BY <2>1, <2>2 DEF CopyInv, ChangeFollows
  <2>4. SyncedBucket(changed) = folder
    BY <2>3, SyncedFollows
  <2>5. bucket = intended
    BY <1>1, <2>3 DEF StateInBucket, ShownIntended
  <2>6. bucket' = intended' /\ manifest' # "none"
    BY <2>2, <2>3, <2>4, <2>5 DEF Complete
  <2>7. ~Others(h, {"remove"})
    BY <1>1, <2>1, LocksOfSteps DEF Alone, Others, WriteSteps, StoringSteps, RemovingSteps
  <2> HIDE DEF changed, new
  <2> QED BY <2>1, <2>2, <2>3, <2>6, <2>7, BucketShown DEF Moves, Carries, EnteringSteps, CommitSteps
<1>11. CASE CommitRemote(h)
  <2> DEFINE new == Over(Changed(h), Without(bucket, req[h].gone))
             intent == Over(Changed(h), Without(intended, req[h].gone))
  <2>1. /\ req[h].pc \in {"commit", "commit_upload"} /\ UNCHANGED <<label, model>>
        /\ ~Others(h, {"remove"}) /\ ~Others(h, {"finalize_sync"})
    BY <1>11 DEF CommitRemote, At, diskVars, WriteLock, RepoLock, Others, RemovingSteps, StoringSteps
  <2>2. req[h].at = "bucket" /\ Shown
    BY <1>3, <2>1 DEF CommitSteps
  <2>3. manifest # "none"
    BY <2>1, <2>2 DEF Shown, Within, Others
  <2>4. /\ bucket' = new /\ manifest' = manifest /\ intended' = intent
        /\ Moves(h, "fetch") \/ Moves(h, "commit_index")
    BY <1>1, <1>11, <2>2, <2>3, GoesOn DEF CommitRemote, Strays
  <2>5. bucket = intended
    BY <1>1, <2>3 DEF StateInBucket, ShownIntended
  <2>6. bucket' = intended' /\ manifest' # "none"
    BY <2>3, <2>4, <2>5
  <2> HIDE DEF new, intent
  <2> QED BY <2>1, <2>2, <2>3, <2>4, <2>6, BucketShown DEF Moves, Carries, EnteringSteps, CommitSteps
<1>12. CASE CommitIndex(h)
  <2>1. /\ req[h].pc = "commit_index" /\ UNCHANGED <<label, bucket, manifest, intended>> /\ Moves(h, "history")
        /\ model # NoModel /\ IF req[h].local THEN IndexPath ELSE IndexRemote(FALSE)
    BY <1>1, <1>12, ChangingTurns DEF CommitIndex, At, Local, Strays, Unsettling, diskVars, bucketVars
  <2>2. label \notin Halfway
    <3>1. ~SomeGoes
      BY <2>1 DEF WorkInv, Within, AlteringSteps, StoringSteps
    <3> QED BY <1>1, <2>1, <3>1 DEF StateInBucket, HalfwayGoes
  <2>3. req[h].local => label # "none"
    BY <1>1, <2>1 DEF RequestShelved, CommitSteps
  <2>4. model' = model \/ model'.target = "bucket"
    <3>1. CASE req[h].local
      <4>1. label \in Complete \union {"uploading"}
        BY <2>2, <2>3, <3>1 DEF LibraryTypeOK, Halfway
      <4>2. FolderModel.target = "bucket"
        BY <4>1 DEF FolderModel, Target
      <4> QED BY <2>1, <3>1, <4>2 DEF IndexPath
    <3>2. CASE ~req[h].local
      BY <2>1, <3>2 DEF IndexRemote
    <3> QED BY <3>1, <3>2
  <2>5. model' # NoModel /\ model'.target # "local"
    BY <1>1, <2>1, <2>4 DEF NoModel
  <2> QED BY <2>1, <2>5, BucketKept DEF Moves, EnteringSteps, CommitSteps
<1>13. CASE CommitRecorded(h)
  <2>1. Rests(h) /\ req[h].pc = "history" /\ UNCHANGED <<bucket, manifest, intended, model, label>>
    BY <1>1, <1>13, ChangingTurns DEF CommitRecorded, At, diskVars, bucketVars, ghosts
  <2> QED BY <1>2, <2>1 DEF Rests, EnteringSteps, CommitSteps
<1> QED BY <1>4, <1>5, <1>6, <1>7, <1>8, <1>9, <1>10, <1>11, <1>12, <1>13 DEF Changing

LEMMA BucketStep ==
    ASSUME LifeInv, PlaceInv, LockInv, Timely => RowInv, Orderly => HiddenInv, Tended => FetchInv, Calm => WorkInv,
           Cached => ShelfInv /\ CopyInv, Still /\ place # "disk" => InBucket, [Next]_vars
    PROVE  Still' /\ place' # "disk" => InBucket'
<1>1. /\ LibraryTypeOK /\ UploadsTypeOK /\ DownloadsTypeOK /\ CancelsKnown /\ WorkersCounted
      /\ strays \subseteq strays' /\ UNCHANGED place
  BY StraysGrow DEF LifeInv, TypeOK, DownloadsInv, Next, vars
<1> SUFFICES ASSUME Still', place' # "disk" PROVE InBucket'
  OBVIOUS
<1>2. /\ RowInv /\ WorkInv /\ HiddenInv /\ ShelfInv /\ CopyInv /\ FetchInv /\ InBucket /\ StatePlaced
      /\ strays' \intersect Unsettling = {} /\ place # "disk"
  BY <1>1, StillBefore DEF PlaceInv, Cached
<1>3. ASSUME UNCHANGED <<label, bucketVars, model, intended, req, downloads>> PROVE InBucket'
  BY <1>2, <1>3, BucketSame
<1>4. ASSUME NEW x \in open, PartsSent(x), UNCHANGED downloads PROVE InBucket'
  BY <1>3, <1>4 DEF PartsSent, requestVars, diskVars, ghosts
<1>5. ASSUME UNCHANGED vars PROVE InBucket'
  BY <1>3, <1>5 DEF vars, requestVars, diskVars, ghosts
<1>6. ASSUME Restart PROVE InBucket'
  <2>1. (\A k \in Handlers : req[k].pc = "idle") /\ UNCHANGED <<label, bucket, manifest, model, intended>>
    BY <1>2, <1>6 DEF Restart, Strays, At, Unsettling, diskVars, bucketVars
  <2>2. \A k \in Handlers : req'[k].pc = "idle"
    BY <1>6 DEF Restart, Idle
  <2>3. \A d \in DOMAIN downloads : downloads[d].pc \in {"none", "submitted"}
    BY <1>2, <1>6 DEF Restart, Strays, Unsettling
  <2>4. ~WorkerAt({"sync"}) /\ ~WorkerAt({"index"}) /\ ~SomeGoes
    BY <2>3 DEF WorkerAt, SomeGoes, Going, FetchedSteps
  <2>5. ~Within({"remove", "finalize_sync"}) /\ ~Within(EnteringSteps)
    BY <2>1 DEF Within, EnteringSteps
  <2>6. \A k \in Handlers : RequestInBucket(k)'
    BY <2>2 DEF RequestInBucket, CommitSteps
  <2> QED BY <1>2, <2>1, <2>2, <2>4, <2>5, <2>6
          DEF InBucket, StateInBucket, ShownIntended, ShownIndexed, IndexedShown, HalfwayGoes, FinalizedWhole, PublishedShown,
              RemovedUnshown, Shown, Within
<1>7. ASSUME NEW h \in Handlers, Cache(h, ActiveDownload, WorkerRuns), UNCHANGED downloads PROVE InBucket'
  BY <1>1, <1>2, <1>7, CacheKeepsBucket
<1>8. ASSUME NEW h \in Handlers, Uploading(h, ActiveDownload, WorkerRuns) \/ Changing(h, ActiveDownload), UNCHANGED downloads
      PROVE  InBucket'
  BY <1>1, <1>2, <1>8, UploadingKeepsBucket, ChangingKeepsBucket
<1>9. ASSUME NEW h \in Handlers, FromTheHub(h) PROVE InBucket'
  BY <1>1, <1>2, <1>9, FromTheHubKeepsBucket
<1>10. ASSUME NEW d \in DOMAIN downloads, Worker(d) PROVE InBucket'
  BY <1>1, <1>2, <1>10, WorkerKeepsBucket
<1> QED BY <1>4, <1>5, <1>6, <1>7, <1>8, <1>9, <1>10 DEF Next

LEMMA BucketStart == Init /\ place # "disk" => InBucket
<1> SUFFICES ASSUME Init, place # "disk" PROVE InBucket
  OBVIOUS
<1>1. \A h \in Handlers : req[h].pc = "idle"
  BY DEF Init, Idle
<1>2. /\ manifest # "none" => bucket = intended /\ model # NoModel
      /\ model # NoModel => manifest # "none"
      /\ model.target # "local" /\ (label \in Halfway => model = NoModel /\ manifest = "none")
  <2>1. CASE NewName \/ Queued
    BY <2>1 DEF NewName, Queued, Absent, NoModel, Halfway
  <2>2. ASSUME NEW arrived \in SUBSET Files, Unfinished(arrived) PROVE manifest = "none" /\ model = NoModel /\ model.target = "none"
    BY <2>2 DEF Unfinished, NoModel
  <2>3. ASSUME NEW content, NEW kind \in Complete, NEW cached \in BOOLEAN, Holds(content, kind, cached)
        PROVE  /\ manifest # "none" /\ bucket = intended /\ model # NoModel /\ model.target = "bucket" /\ label \notin Halfway
    BY <2>3 DEF Holds, Complete, Halfway, Target, NoModel
  <2>4. CASE Uploaded \/ Downloaded
    BY <2>3, <2>4 DEF Uploaded, Downloaded, Complete
  <2> QED BY <2>1, <2>2, <2>4 DEF Init
<1> QED BY <1>1, <1>2 DEF InBucket, StateInBucket, RequestInBucket, ShownIntended, ShownIndexed, IndexedShown, HalfwayGoes,
        FinalizedWhole, PublishedShown, RemovedUnshown, Shown, Within, CommitSteps, EnteringSteps

LEMMA CommittedStored ==
    ASSUME Still /\ place = "disk" => OnDisk, Still /\ place # "disk" => InBucket
    PROVE  CommittedIsStored
<1> SUFFICES ASSUME Still, Published, Quiet PROVE Stored = intended
  BY DEF CommittedIsStored, Still, Unsettling, Except
<1>1. CASE place = "disk"
  BY <1>1 DEF OnDisk, DiskFollows, Published, Stored, Quiet, At, Within, DiskSteps, WorkerAt
<1>2. CASE place # "disk"
  BY <1>2 DEF InBucket, StateInBucket, ShownIntended, Published, Stored
<1> QED BY <1>1, <1>2

----------------------------------------------------------------------------
(* The history ends with what is stored: with what was to be left, but while *)
(* a request or a worker that alters it has yet to record it.                *)
RecordingSteps == (StoringSteps \ {"apply"}) \union PublishingSteps \union RemovingSteps \union {"history"}
Applied(h) == place = "disk" /\ req[h].pc = "apply" /\ req[h].moved # {}
Recording == Within(RecordingSteps) \/ WorkerAt(FetchedSteps) \/ \E h \in Handlers : Applied(h)
HistoryRecorded == Published => Recording \/ history = intended
ForgottenUnshown == Within({"forget"}) => row = "none" /\ ~Published
StagedFor(h) ==
    req[h].pc \in {"commit", "apply"} =>
        /\ req[h].who \in Sessions
        /\ \/ \A f \in req[h].files : staging[req[h].who][f] = "whole"
           \/ req[h].moved = {} /\ staging[req[h].who] = NoFiles /\ session[req[h].who] # "staged"
IndexedOnDisk == model # NoModel => label \in Complete \/ SomeGoes
HistoryOnDisk == IndexedOnDisk /\ \A h \in Handlers : StagedFor(h)

(* Nothing is stored under a name that a deletion has yet to forget.         *)
LEMMA UploadingForgets ==
    ASSUME LibraryTypeOK, LockInv, RowInv, NEW h \in Handlers, Uploading(h, ActiveDownload, WorkerRuns),
           strays' \intersect Unsettling = {}, UNCHANGED place, row = "none", Others(h, {"forget"})
    PROVE  row' = "none" /\ (Published' => Published)
<1>1. req \in [Handlers -> Request] /\ Alone(WriteSteps) /\ RequestRow(h) /\ "late" \notin strays'
  BY DEF LibraryTypeOK, LockInv, RowInv, Unsettling
<1>2. req[h].pc \notin WriteSteps /\ req[h].pc \notin UploadSteps /\ ~WriteLock(h)
  BY <1>1, LocksOfSteps DEF Alone, Others, RequestRow, WriteLock, RemovingSteps
<1>3. ~CreateUpload(h)
  BY <1>1 DEF CreateUpload, Strays, Remembered, Others, RememberingSteps, RemovingSteps
<1>4. /\ ~FinalizeChecked(h) /\ ~FinalizeSync(h) /\ ~FinalizeIndex(h) /\ ~FinalizeReady(h)
      /\ ~Publish(h) /\ ~PublishIndex(h) /\ ~PublishReady(h) /\ ~Unpublish(h) /\ ~UnpublishRows(h)
  BY <1>2 DEF FinalizeChecked, FinalizeSync, FinalizeIndex, FinalizeReady, Publish, PublishIndex, PublishReady, Unpublish,
              UnpublishRows, At, UploadSteps, FinalizingSteps
<1>5. ~Remove(h, WorkerRuns) /\ ~RemoveFolder(h, WorkerRuns) /\ ~Forget(h)
  BY <1>2 DEF Remove, RemoveFolder, Forget, At, WriteSteps, RemovingSteps
<1>6. UNCHANGED <<row, label, manifest>>
  BY <1>3, <1>4, <1>5 DEF Uploading, Chunk, ChunkWritten, BeginRecord, CompleteRecord, BeginFile, CompleteFile, SweepList,
     SweepDiscard, Finalize, Delete, AbortUpload, diskVars, bucketVars
<1> QED BY <1>6 DEF Published

LEMMA ChangingForgets ==
    ASSUME LibraryTypeOK, LockInv, NEW h \in Handlers, Changing(h, ActiveDownload), UNCHANGED place, row = "none",
           Others(h, {"forget"})
    PROVE  row' = "none" /\ (Published' => Published)
<1>1. Alone(WriteSteps)
  BY DEF LockInv
<1>2. req[h].pc \notin StoringSteps /\ ~WriteLock(h)
  BY <1>1, LocksOfSteps DEF Alone, Others, WriteLock, RemovingSteps
<1>3. /\ ~ApplyRemovals(h) /\ ~Store(h) /\ ~CommitRemote(h) /\ ~FetchCopy(h) /\ ~CommitIndex(h)
      /\ \A f \in Files : ~Apply(h, f)
  BY <1>2 DEF Apply, ApplyRemovals, Store, CommitRemote, FetchCopy, CommitIndex, At, StoringSteps
<1>4. UNCHANGED <<row, label, manifest>>
  BY <1>3 DEF Changing, StartChange, StageChunk, AbortChange, Commit, CommitLocks, CommitRecorded, diskVars, bucketVars
<1> QED BY <1>4 DEF Published

LEMMA ForgottenStep ==
    ASSUME LifeInv, PlaceInv, LockInv, Timely => RowInv, Calm => WorkInv, Still /\ place # "disk" => InBucket,
           Still => ForgottenUnshown, [Next]_vars
    PROVE  Still' => ForgottenUnshown'
<1>1. /\ LibraryTypeOK /\ DownloadsTypeOK /\ CancelsKnown /\ strays \subseteq strays'
      /\ req \in [Handlers -> Request] /\ downloads \in [1 .. MaxDownloads -> Download] /\ StatePlaced
      /\ UNCHANGED place
  BY StraysGrow DEF LifeInv, TypeOK, DownloadsInv, LibraryTypeOK, DownloadsTypeOK, PlaceInv, Next, vars
<1> SUFFICES ASSUME Still' PROVE ForgottenUnshown'
  OBVIOUS
<1>2. /\ ForgottenUnshown /\ RowInv /\ WorkInv /\ strays' \intersect Unsettling = {}
      /\ place # "disk" => InBucket
  BY <1>1, StillBefore
<1>3. ASSUME UNCHANGED <<row, label, manifest, req>> PROVE ForgottenUnshown'
  BY <1>1, <1>2, <1>3 DEF ForgottenUnshown, Within, Published
<1>4. CASE UNCHANGED vars \/ \E x \in open : PartsSent(x)
  BY <1>3, <1>4 DEF vars, PartsSent, requestVars, diskVars, bucketVars
<1>5. CASE Restart
  BY <1>5 DEF Restart, Idle, ForgottenUnshown, Within
<1>6. ASSUME NEW h \in Handlers, Kept(h), req'[h].pc # "forget",
             row = "none" /\ Others(h, {"forget"}) => row' = "none" /\ (Published' => Published)
      PROVE  ForgottenUnshown'
  <2>1. Within({"forget"})' => Others(h, {"forget"}) /\ Within({"forget"})
    BY <1>6 DEF Within, Others, Kept
  <2> QED BY <1>2, <1>6, <2>1 DEF ForgottenUnshown
<1>7. ASSUME NEW h \in Handlers, Cache(h, ActiveDownload, WorkerRuns) PROVE ForgottenUnshown'
  <2>1. Kept(h) /\ req'[h].pc # "forget" /\ UNCHANGED <<row, manifest>>
    BY <1>1, <1>7, CacheStaysFree DEF CacheFree, bucketVars
  <2>2. ~RestoreFiles(h) \/ manifest # "none"
    BY <1>2 DEF RestoreFiles, Strays, Unsettling
  <2>3. place = "disk" => UNCHANGED label
    BY <1>1, <1>7, <2>2 DEF StatePlaced, Cache, Scan, ScanFolder, ScanList, ScanIndex, ScanCommit, ScanLocal, Restore,
       RestoreIndex, Evict, EvictFolder, EvictIndex, diskVars
  <2> QED BY <1>1, <1>6, <2>1, <2>3 DEF Published
<1>8. ASSUME NEW h \in Handlers, Uploading(h, ActiveDownload, WorkerRuns) PROVE ForgottenUnshown'
  <2>1. CASE RemoveFolder(h, WorkerRuns)
    <3>1. row' = "none" /\ label' = "none" /\ UNCHANGED manifest /\ req[h].pc = "remove"
      BY <2>1 DEF RemoveFolder, At, bucketVars
    <3>2. place # "disk" => manifest = "none"
      BY <1>2, <3>1 DEF InBucket, StateInBucket, RemovedUnshown, Within
    <3> QED BY <1>1, <3>1, <3>2 DEF ForgottenUnshown, Published, Complete
  <2>2. CASE ~RemoveFolder(h, WorkerRuns)
    <3>1. CASE (\E f \in Files : Chunk(h, f)) \/ BeginRecord(h) \/ CompleteRecord(h) \/ SweepList(h) \/ SweepDiscard(h) \/ Forget(h)
               \/ (\E w \in Sessions \union {Upload}, f \in Files : BeginFile(h, w, f) \/ CompleteFile(h, w, f))
      <4>1. Kept(h) /\ req'[h].pc # "forget"
        BY <1>1, <3>1, UploadingTurns DEF Rests, Starts
      <4> QED BY <1>1, <1>2, <1>6, <1>8, <4>1, UploadingForgets
    <3>2. CASE ~((\E f \in Files : Chunk(h, f)) \/ BeginRecord(h) \/ CompleteRecord(h) \/ SweepList(h) \/ SweepDiscard(h) \/ Forget(h)
               \/ (\E w \in Sessions \union {Upload}, f \in Files : BeginFile(h, w, f) \/ CompleteFile(h, w, f)))
      <4>1. Kept(h) /\ req'[h].pc # "forget"
        BY <1>1, <1>8, <2>2, <3>2, UploadingTurns, DeleteTurns DEF Rests, Moves, Starts, Uploading
      <4> QED BY <1>1, <1>2, <1>6, <1>8, <4>1, UploadingForgets
    <3> QED BY <3>1, <3>2
  <2> QED BY <2>1, <2>2
<1>9. ASSUME NEW h \in Handlers, Changing(h, ActiveDownload) PROVE ForgottenUnshown'
  <2>1. ASSUME NEW s \in Sessions, AbortChange(h, s) PROVE ForgottenUnshown'
    <3>1. UNCHANGED <<row, label, manifest>> /\ \A k \in Handlers : req'[k].pc = req[k].pc
      BY <1>1, <2>1, AbortTurns DEF AbortChange, diskVars, bucketVars
    <3> QED BY <1>1, <1>2, <3>1 DEF ForgottenUnshown, Within, Published
  <2>2. CASE ~\E s \in Sessions : AbortChange(h, s)
    <3>1. Kept(h) /\ req'[h].pc # "forget"
      BY <1>1, <1>9, <2>2, ChangingTurns DEF Changing, Rests, Moves
    <3> QED BY <1>1, <1>6, <1>9, <3>1, ChangingForgets
  <2> QED BY <2>1, <2>2
<1>10. ASSUME NEW h \in Handlers, FromTheHub(h) PROVE ForgottenUnshown'
  <2>1. Kept(h) /\ req'[h].pc # "forget" /\ UNCHANGED <<row, manifest>> /\ (UNCHANGED label \/ label' = "cancelled")
    BY <1>1, <1>10, HubTurns DEF Starts, Moves, Rests, bucketVars
  <2> QED BY <1>1, <1>6, <2>1 DEF Published, Complete
<1>11. ASSUME NEW d \in DOMAIN downloads, Worker(d) PROVE ForgottenUnshown'
  <2>1. UNCHANGED <<req, row>>
    BY <1>1, <1>11, WorkerTurns
  <2>2. Within({"forget"}) => ~Takes(d) /\ ~HasAll(d) /\ ~Syncs(d) /\ ~Indexes(d)
    BY <1>2 DEF WorkInv, SomeGoes, Going, Within, AlteringSteps, RemovingSteps, Takes, HasAll, Syncs, Indexes, FetchedSteps
  <2>3. Stays(d) \/ Halts(d) \/ SetsOut(d) => (Published' => Published)
    BY <1>1, <1>2 DEF Stays, Halts, SetsOut, Unaltered, Unsettling, Published, Complete, diskVars, bucketVars
  <2> QED BY <1>1, <1>2, <1>11, <2>1, <2>2, <2>3, WorkerTurns DEF ForgottenUnshown, Within
<1> QED BY <1>4, <1>5, <1>7, <1>8, <1>9, <1>10, <1>11 DEF Next

----------------------------------------------------------------------------
(* On the disk, a commit has its files staged until it has moved them, or    *)
(* another commit of the session was done before it.                         *)
LEMMA StagedStays ==
    ASSUME NEW h \in Handlers, \A k \in Handlers : StagedFor(k), Kept(h), req'[h].pc \notin {"commit", "apply"},
           UNCHANGED staging, \A s \in Sessions : session'[s] \in {session[s], "none"}
    PROVE  \A k \in Handlers : StagedFor(k)'
<1> SUFFICES ASSUME NEW k \in Handlers, req'[k].pc \in {"commit", "apply"} PROVE StagedFor(k)'
  BY DEF StagedFor
<1>1. req'[k] = req[k] /\ StagedFor(k)
  BY DEF Kept
<1> QED BY <1>1 DEF StagedFor

LEMMA StagedSame ==
    ASSUME \A k \in Handlers : StagedFor(k), UNCHANGED <<session, staging>>, \A k \in Handlers : req'[k] = req[k] \/ req'[k].pc = "idle"
    PROVE  \A k \in Handlers : StagedFor(k)'
BY DEF StagedFor

LEMMA UploadingKeepsStaged ==
    ASSUME LibraryTypeOK, NEW h \in Handlers, \A k \in Handlers : StagedFor(k), Uploading(h, ActiveDownload, WorkerRuns),
           strays' \intersect Unsettling = {}
    PROVE  \A k \in Handlers : StagedFor(k)'
<1>1. req \in [Handlers -> Request] /\ "late" \notin strays'
  BY DEF LibraryTypeOK, Unsettling
<1>2. Kept(h) /\ req'[h].pc \notin {"commit", "apply"}
  BY <1>1, UploadingTurns, DeleteTurns DEF Uploading, Starts, Moves, Rests
<1>3. CASE RemoveFolder(h, WorkerRuns)
  <2>1. \A k \in Handlers \ {h} : req[k].pc \notin {"commit", "apply"}
    BY <1>1, <1>3, NotOvertaken DEF RemoveFolder, Strays
  <2>2. \A k \in Handlers : req'[k].pc \notin {"commit", "apply"}
    BY <1>2, <2>1 DEF Kept
  <2> QED BY <2>2 DEF StagedFor
<1>4. CASE ~RemoveFolder(h, WorkerRuns)
  <2>1. UNCHANGED staging
    BY <1>4 DEF Uploading, CreateUpload, Chunk, ChunkWritten, BeginRecord, CompleteRecord, BeginFile, CompleteFile, SweepList,
       SweepDiscard, Finalize, FinalizeChecked, FinalizeSync, FinalizeIndex, FinalizeReady, Publish, PublishIndex, PublishReady,
       Delete, AbortUpload, Unpublish, UnpublishRows, Remove, Forget, sessionVars
  <2>2. CASE SweepDiscard(h) \/ UnpublishRows(h) \/ Forget(h)
    BY <1>2, <2>1, <2>2, StagedStays DEF SweepDiscard, UnpublishRows, Forget, Discard
  <2>3. CASE ~(SweepDiscard(h) \/ UnpublishRows(h) \/ Forget(h))
    <3>1. UNCHANGED session
      BY <1>4, <2>3 DEF Uploading, CreateUpload, Chunk, ChunkWritten, BeginRecord, CompleteRecord, BeginFile, CompleteFile, SweepList,
         Finalize, FinalizeChecked, FinalizeSync, FinalizeIndex, FinalizeReady, Publish, PublishIndex, PublishReady,
         Delete, AbortUpload, Unpublish, Remove, sessionVars
    <3> QED BY <1>2, <2>1, <3>1, StagedStays
  <2> QED BY <2>2, <2>3
<1> QED BY <1>3, <1>4

LEMMA ChangingKeepsStaged ==
    ASSUME LibraryTypeOK, UploadsTypeOK, StatePlaced, LockInv, OnDisk, NEW h \in Handlers, \A k \in Handlers : StagedFor(k),
           Changing(h, ActiveDownload), strays' \intersect Unsettling = {}, place = "disk"
    PROVE  \A k \in Handlers : StagedFor(k)'
<1>1. /\ req \in [Handlers -> Request] /\ "abort" \notin strays' /\ Alone(WriteSteps)
      /\ \A s \in Sessions : session[s] \in {"none", "staged"}
      /\ session \in [Sessions -> {"none", "staged", "direct"}]
      /\ staging \in [Sessions -> [Files -> {"none", "part", "whole"}]]
  BY DEF LibraryTypeOK, UploadsTypeOK, StatePlaced, DirectSessions, LockInv, Unsettling
<1>2. ASSUME NEW s \in Sessions, StartChange(h, s) PROVE \A k \in Handlers : StagedFor(k)'
  <2>1. /\ Rests(h) /\ UNCHANGED staging /\ Unused(s) /\ \A x \in Sessions \ {s} : session'[x] = session[x]
    BY <1>1, <1>2, ChangingTurns DEF StartChange
  <2>2. ASSUME NEW k \in Handlers, req'[k].pc \in {"commit", "apply"} PROVE StagedFor(k)'
    <3>1. req'[k] = req[k] /\ req[k].who # s /\ StagedFor(k)
      BY <2>1, <2>2 DEF Rests, Kept, Unused
    <3> QED BY <2>1, <3>1 DEF StagedFor
  <2> QED BY <2>2 DEF StagedFor
<1>3. ASSUME NEW s \in Sessions, NEW f \in Files, StageChunk(h, s, f) PROVE \A k \in Handlers : StagedFor(k)'
  <2>1. /\ Rests(h) /\ UNCHANGED session /\ session[s] = "staged" /\ staging[s][f] # "whole"
        /\ \A x \in Sessions \ {s} : staging'[x] = staging[x]
        /\ \A g \in Files \ {f} : staging'[s][g] = staging[s][g]
    <3>1. /\ Rests(h) /\ UNCHANGED session /\ session[s] = "staged" /\ staging[s][f] # "whole"
          /\ \E stage \in {"part", "whole"} : staging' = [staging EXCEPT ![s][f] = stage]
      BY <1>1, <1>3, ChangingTurns DEF StageChunk
    <3> QED BY <1>1, <3>1
  <2>2. ASSUME NEW k \in Handlers, req'[k].pc \in {"commit", "apply"} PROVE StagedFor(k)'
    <3>1. req'[k] = req[k] /\ StagedFor(k) /\ req[k].files \subseteq Files
      BY <1>1, <2>1, <2>2, RequestFields DEF Rests, Kept
    <3>2. CASE req[k].who # s
      BY <2>1, <3>1, <3>2 DEF StagedFor
    <3>3. CASE req[k].who = s
      BY <2>1, <3>1, <3>3 DEF StagedFor
    <3> QED BY <3>2, <3>3
  <2> QED BY <2>2 DEF StagedFor
<1>4. ASSUME NEW s \in Sessions, AbortChange(h, s) PROVE \A k \in Handlers : StagedFor(k)'
  <2>1. \A k \in Handlers : req[k].pc # "idle" => req[k].who # s
    BY <1>1, <1>4 DEF AbortChange, Strays
  <2>2. \A k \in Handlers : req'[k] = req[k]
    BY <1>4, <2>1 DEF AbortChange
  <2>3. \A x \in Sessions \ {s} : session'[x] = session[x] /\ staging'[x] = staging[x]
    BY <1>1, <1>4 DEF AbortChange, Unstage, Discard
  <2>4. ASSUME NEW k \in Handlers, req'[k].pc \in {"commit", "apply"} PROVE StagedFor(k)'
    <3>1. req[k].who # s /\ req'[k] = req[k] /\ StagedFor(k)
      BY <2>1, <2>2, <2>4
    <3> QED BY <2>3, <3>1 DEF StagedFor
  <2> QED BY <2>4 DEF StagedFor
<1>5. ASSUME NEW s \in Sessions, Commit(h, s, ActiveDownload) PROVE \A k \in Handlers : StagedFor(k)'
  <2>1. session[s] # "direct" /\ UNCHANGED <<session, staging>>
    BY <1>1, <1>5 DEF Commit, sessionVars
  <2> DEFINE r == [Idle EXCEPT !.pc = "commit", !.who = s, !.files = Whole(s), !.gone = Deletes[s] \ Whole(s),
                           !.local = model.cached /\ FolderExists, !.at = model.target]
  <2>2. Begins(h, r)
    BY <1>5, <2>1 DEF Commit
  <2>3. Kept(h) /\ req'[h] = r
    BY <1>1, <2>2, TurnsTo
  <2>4. req'[h].who = s /\ req'[h].files = Whole(s)
    BY <2>3 DEF Idle
  <2>5. StagedFor(h)'
    BY <2>1, <2>4 DEF StagedFor, Whole
  <2>6. \A k \in Handlers \ {h} : StagedFor(k)'
    BY <2>1, <2>3 DEF StagedFor, Kept
  <2> QED BY <2>5, <2>6
<1>6. CASE CommitLocks(h)
  <2>1. Moves(h, "apply") /\ req[h].pc = "commit" /\ UNCHANGED <<session, staging>>
    BY <1>1, <1>6, ChangingTurns DEF CommitLocks, At, sessionVars
  <2> QED BY <2>1 DEF Moves, Carries, Kept, StagedFor
<1>7. ASSUME NEW f \in Files, Apply(h, f) PROVE \A k \in Handlers : StagedFor(k)'
  <2>1. req[h].pc = "apply" /\ f \in req[h].files /\ UNCHANGED <<session, staging>>
    BY <1>7 DEF Apply, At, sessionVars
  <2>2. CASE staging[req[h].who][f] # "whole"
    <3>1. Rests(h)
      BY <1>1, <1>7, <2>2, TurnsIdle DEF Apply
    <3> QED BY <2>1, <3>1, StagedStays DEF Rests
  <2>3. CASE staging[req[h].who][f] = "whole"
    <3> DEFINE kept == Keeps(h, {f})
    <3>1. Continues(h, [req[h] EXCEPT !.backup = kept, !.moved = @ \union {f}])
      BY <1>7, <2>3 DEF Apply
    <3> HIDE DEF kept
    <3>2. Kept(h) /\ req'[h] = [req[h] EXCEPT !.backup = kept, !.moved = @ \union {f}]
      BY <1>1, <3>1, TurnsTo
    <3>3. req'[h].pc = req[h].pc /\ req'[h].who = req[h].who /\ req'[h].files = req[h].files
      BY <1>1, <3>2 DEF Request
    <3>4. StagedFor(h) /\ req[h].who \in Sessions
      BY <2>1 DEF StagedFor
    <3>5. \A g \in req[h].files : staging[req[h].who][g] = "whole"
      BY <2>1, <2>3, <3>4 DEF StagedFor, NoFiles
    <3>6. StagedFor(h)'
      BY <2>1, <3>3, <3>4, <3>5 DEF StagedFor
    <3>7. \A k \in Handlers \ {h} : StagedFor(k)'
      BY <2>1, <3>2 DEF StagedFor, Kept
    <3> QED BY <3>6, <3>7
  <2> QED BY <2>2, <2>3
<1>8. CASE CommitIndex(h)
  <2>1. Moves(h, "history") /\ req[h].pc = "commit_index"
    BY <1>1, <1>8, ChangingTurns DEF CommitIndex, At
  <2> DEFINE s == req[h].who
  <2>2. \A x \in Sessions \ {s} : session'[x] = session[x] /\ staging'[x] = staging[x]
    BY <1>1, <1>8 DEF CommitIndex, Unstage, Discard
  <2>3. s \in Sessions => session'[s] = "none" /\ staging'[s] = NoFiles
    BY <1>1, <1>8 DEF CommitIndex, Unstage
  <2>4. ASSUME NEW k \in Handlers, req'[k].pc \in {"commit", "apply"} PROVE StagedFor(k)'
    <3>1. k # h /\ req'[k] = req[k] /\ StagedFor(k) /\ req[k].who \in Sessions
      BY <2>1, <2>4 DEF Moves, Kept, StagedFor
    <3>2. req[k].pc # "apply"
      BY <1>1, <2>1, <3>1, LocksOfSteps DEF Alone
    <3>3. req[k].moved = {}
      BY <2>4, <3>1, <3>2 DEF OnDisk, ChangeBegun
    <3>4. CASE req[k].who = s
      BY <2>3, <3>1, <3>3, <3>4 DEF StagedFor
    <3>5. CASE req[k].who # s
      BY <2>2, <3>1, <3>5 DEF StagedFor
    <3> QED BY <3>4, <3>5
  <2> QED BY <2>4 DEF StagedFor
<1>9. CASE ApplyRemovals(h) \/ Store(h) \/ CommitRemote(h) \/ FetchCopy(h) \/ CommitRecorded(h)
  <2>1. Kept(h) /\ req'[h].pc \notin {"commit", "apply"}
    BY <1>1, <1>9, ChangingTurns DEF Moves, Rests
  <2>2. UNCHANGED <<session, staging>>
    BY <1>9 DEF ApplyRemovals, Store, CommitRemote, FetchCopy, CommitRecorded, sessionVars
  <2> QED BY <2>1, <2>2, StagedStays
<1> QED BY <1>2, <1>3, <1>4, <1>5, <1>6, <1>7, <1>8, <1>9 DEF Changing

LEMMA StagedStep ==
    ASSUME LifeInv, PlaceInv, LockInv, Still /\ place = "disk" => OnDisk /\ \A k \in Handlers : StagedFor(k), [Next]_vars
    PROVE  Still' /\ place' = "disk" => \A k \in Handlers : StagedFor(k)'
<1>1. /\ LibraryTypeOK /\ UploadsTypeOK /\ DownloadsTypeOK /\ CancelsKnown /\ strays \subseteq strays' /\ UNCHANGED place
      /\ req \in [Handlers -> Request] /\ downloads \in [1 .. MaxDownloads -> Download]
  BY StraysGrow DEF LifeInv, TypeOK, DownloadsInv, LibraryTypeOK, DownloadsTypeOK, Next, vars
<1> SUFFICES ASSUME Still', place' = "disk" PROVE \A k \in Handlers : StagedFor(k)'
  OBVIOUS
<1>2. OnDisk /\ (\A k \in Handlers : StagedFor(k)) /\ StatePlaced /\ strays' \intersect Unsettling = {} /\ place = "disk"
  BY <1>1, StillBefore DEF PlaceInv
<1>3. CASE UNCHANGED vars \/ \E x \in open : PartsSent(x)
  BY <1>2, <1>3, StagedSame DEF vars, PartsSent, requestVars, sessionVars
<1>4. CASE Restart /\ UNCHANGED sessionVars
  BY <1>4 DEF Restart, Idle, StagedFor
<1>5. ASSUME NEW h \in Handlers, Cache(h, ActiveDownload, WorkerRuns) \/ FromTheHub(h), UNCHANGED sessionVars
      PROVE  \A k \in Handlers : StagedFor(k)'
  <2>1. Kept(h) /\ req'[h].pc \notin {"commit", "apply"}
    BY <1>1, <1>5, CacheStaysFree, HubTurns DEF CacheFree, Starts, Moves, Rests
  <2> QED BY <1>2, <1>5, <2>1, StagedStays DEF sessionVars
<1>6. ASSUME NEW d \in DOMAIN downloads, Worker(d), UNCHANGED sessionVars PROVE \A k \in Handlers : StagedFor(k)'
  <2>1. UNCHANGED req
    BY <1>1, <1>6, WorkerTurns
  <2> QED BY <1>2, <1>6, <2>1, StagedSame DEF sessionVars
<1>7. ASSUME NEW h \in Handlers, Uploading(h, ActiveDownload, WorkerRuns) \/ Changing(h, ActiveDownload)
      PROVE  \A k \in Handlers : StagedFor(k)'
  BY <1>1, <1>2, <1>7, UploadingKeepsStaged, ChangingKeepsStaged
<1> QED BY <1>3, <1>4, <1>5, <1>6, <1>7 DEF Next

----------------------------------------------------------------------------
(* On the disk, what is in the index is complete, but while a worker goes on. *)
LEMMA IndexedSame ==
    ASSUME IndexedOnDisk, UNCHANGED <<label, model, downloads>>
    PROVE  IndexedOnDisk'
<1>1. SomeGoes' = SomeGoes
  BY DEF SomeGoes, Going
<1> QED BY <1>1 DEF IndexedOnDisk

LEMMA CacheKeepsIndexed ==
    ASSUME LibraryTypeOK, PlaceInv, FolderLabelled, IndexedOnDisk, NEW h \in Handlers, Cache(h, ActiveDownload, WorkerRuns),
           UNCHANGED downloads, strays' \intersect Unsettling = {}, place = "disk"
    PROVE  IndexedOnDisk'
<1>1. manifest = "none" /\ RequestPlaced(h) /\ model \in Model
  BY DEF PlaceInv, StatePlaced, LibraryTypeOK
<1>2. CASE Scan(h) \/ ScanCommit(h) \/ ScanLocal(h) \/ Restore(h, ActiveDownload) \/ Evict(h, ActiveDownload)
           \/ EvictFolder(h, WorkerRuns)
  BY <1>1, <1>2, IndexedSame DEF Scan, ScanCommit, ScanLocal, Restore, Evict, EvictFolder, diskVars
<1>3. ~ScanList(h) /\ ~ScanIndex(h) /\ ~RestoreFiles(h)
  BY <1>1 DEF ScanList, ScanIndex, RestoreFiles, At, RequestPlaced, Strays, Unsettling
<1>4. CASE ScanFolder(h, WorkerRuns)
  <2>1. UNCHANGED label
    BY <1>4 DEF ScanFolder, diskVars
  <2>2. label \in Complete \/ model' \in {model, NoModel}
    BY <1>4 DEF ScanFolder, Candidate, FolderLabelled, FolderExists
  <2>3. SomeGoes' = SomeGoes
    BY DEF SomeGoes, Going
  <2> QED BY <2>1, <2>2, <2>3 DEF IndexedOnDisk
<1>5. ~RestoreIndex(h)
  BY <1>1 DEF RestoreIndex, Strays, Unsettling, FolderLabelled
<1>6. CASE EvictIndex(h)
  <2>1. model' = [model EXCEPT !.cached = FALSE]
    BY <1>6 DEF EvictIndex
  <2>2. UNCHANGED label
    BY <1>6 DEF EvictIndex, diskVars
  <2>3. ASSUME model = NoModel PROVE model' = NoModel
    <3>1. model' = [NoModel EXCEPT !.cached = FALSE]
      BY <2>1, <2>3
    <3> QED BY <3>1 DEF NoModel
  <2>4. SomeGoes' = SomeGoes
    BY DEF SomeGoes, Going
  <2> QED BY <2>2, <2>3, <2>4 DEF IndexedOnDisk
<1> QED BY <1>2, <1>3, <1>4, <1>5, <1>6 DEF Cache

LEMMA FromTheHubKeepsIndexed ==
    ASSUME LibraryTypeOK, DownloadsTypeOK, WorkInv, FolderLabelled, IndexedOnDisk, NEW h \in Handlers, FromTheHub(h), CancelsKnown,
           strays' \intersect Unsettling = {}
    PROVE  IndexedOnDisk'
<1>1. req \in [Handlers -> Request] /\ downloads \in [1 .. MaxDownloads -> Download]
  BY DEF LibraryTypeOK, DownloadsTypeOK
<1>2. /\ UNCHANGED model /\ DOMAIN downloads' = DOMAIN downloads
      /\ \A d \in DOMAIN downloads :
            \/ /\ downloads'[d].pc = downloads[d].pc
               /\ downloads'[d].cancel = downloads[d].cancel
                    \/ (CancelFolder(h) /\ downloads'[d].cancel = (downloads[d].pc # "none"))
            \/ downloads[d].pc = "none" /\ downloads'[d].pc = "submitted"
  BY <1>1, HubTurns
<1>3. CASE CancelFolder(h)
  <2>1. FolderExists => model = NoModel
    BY <1>3 DEF CancelFolder, Unsettling
  <2>2. ~FolderExists => label = "none"
    BY DEF FolderExists
  <2>3. label = "none" => ~SomeGoes /\ label \notin Complete
    BY DEF WorkInv, SomeGoes, Complete
  <2> QED BY <1>2, <2>1, <2>2, <2>3 DEF IndexedOnDisk
<1>4. CASE ~CancelFolder(h)
  <2>1. SomeGoes => SomeGoes'
    BY <1>2, <1>4 DEF SomeGoes, Going, FetchedSteps
  <2>2. UNCHANGED label
    BY <1>1, <1>4, HubTurns
  <2> QED BY <1>2, <2>1, <2>2 DEF IndexedOnDisk
<1> QED BY <1>3, <1>4

LEMMA WorkerKeepsIndexed ==
    ASSUME DownloadsTypeOK, FetchInv, IndexedOnDisk, NEW d \in DOMAIN downloads, Worker(d), strays' \intersect Unsettling = {}
    PROVE  IndexedOnDisk'
<1>1. /\ OthersStay(d)
      /\ Stays(d) \/ Halts(d) \/ SetsOut(d) \/ Takes(d) \/ HasAll(d) \/ Syncs(d) \/ Indexes(d)
  BY WorkerTurns DEF DownloadsTypeOK
<1>2. downloads[d].pc \in FetchedSteps => label \in Complete
  BY DEF FetchInv, WholeFolder
<1>3. SomeGoes => Going(d) \/ SomeGoes'
  BY <1>1 DEF SomeGoes, Going, OthersStay
<1>4. CASE Stays(d)
  <2>1. SomeGoes => SomeGoes'
    BY <1>1, <1>3, <1>4 DEF SomeGoes, Going, OthersStay, Stays
  <2> QED BY <1>4, <2>1 DEF Stays, Unaltered, diskVars, IndexedOnDisk
<1>5. CASE Halts(d)
  <2>1. UNCHANGED <<label, model>> /\ (downloads[d].pc = "fetching" => model = NoModel)
    BY <1>5 DEF Halts, Unaltered, Unsettling, diskVars
  <2> QED BY <1>2, <1>3, <2>1 DEF IndexedOnDisk, Going
<1>6. CASE SetsOut(d)
  <2>1. SomeGoes'
    BY <1>1, <1>6 DEF SomeGoes, Going, OthersStay, SetsOut
  <2> QED BY <2>1 DEF IndexedOnDisk
<1>7. CASE Takes(d)
  BY <1>7, IndexedSame DEF Takes
<1>8. CASE HasAll(d)
  BY <1>8 DEF HasAll, IndexedOnDisk, Complete
<1>9. CASE Syncs(d) \/ Indexes(d)
  BY <1>2, <1>9 DEF Syncs, Indexes, FetchedSteps, diskVars, IndexedOnDisk
<1> QED BY <1>1, <1>4, <1>5, <1>6, <1>7, <1>8, <1>9

LEMMA RequestsKeepIndexed ==
    ASSUME PlaceInv, WorkInv, FinalizingInv, IndexedOnDisk, NEW h \in Handlers,
           Uploading(h, ActiveDownload, WorkerRuns) \/ Changing(h, ActiveDownload), UNCHANGED downloads,
           strays' \intersect Unsettling = {}, place = "disk"
    PROVE  IndexedOnDisk'
<1>1. RequestPlaced(h) /\ "failed" \notin strays' /\ "late" \notin strays'
  BY DEF PlaceInv, Unsettling
<1>2. CASE CreateUpload(h)
  BY <1>2 DEF CreateUpload, NameFree, IndexedOnDisk
<1>3. CASE FinalizeChecked(h)
  <2>1. UNCHANGED model /\ (label' = "owned" \/ UNCHANGED label)
    BY <1>3 DEF FinalizeChecked
  <2> QED BY <2>1, IndexedSame DEF IndexedOnDisk, Complete
<1>4. CASE FinalizeIndex(h)
  <2>1. label \in Complete /\ UNCHANGED label
    BY <1>4 DEF FinalizeIndex, At, FinalizingInv, Within, FinalizeSteps, diskVars
  <2> QED BY <2>1 DEF IndexedOnDisk
<1>5. CASE RemoveFolder(h, WorkerRuns) \/ UnpublishRows(h)
  BY <1>5 DEF RemoveFolder, UnpublishRows, IndexedOnDisk
<1>6. ~PublishIndex(h) /\ ~FetchCopy(h)
  BY <1>1 DEF PublishIndex, FetchCopy, At, RequestPlaced
<1>7. CASE CommitIndex(h)
  <2>1. model # NoModel /\ UNCHANGED label
    BY <1>1, <1>7 DEF CommitIndex, Strays, diskVars
  <2>2. ~SomeGoes
    BY <1>7 DEF CommitIndex, At, WorkInv, Within, AlteringSteps, StoringSteps
  <2> QED BY <2>1, <2>2 DEF IndexedOnDisk
<1>8. CASE FinalizeSync(h)
  BY <1>1, <1>8, IndexedSame DEF FinalizeSync, Strays
<1>9. CASE (\E f \in Files : Chunk(h, f)) \/ ChunkWritten(h) \/ BeginRecord(h) \/ CompleteRecord(h)
           \/ (\E w \in Sessions \union {Upload}, f \in Files : BeginFile(h, w, f) \/ CompleteFile(h, w, f))
           \/ SweepList(h) \/ SweepDiscard(h) \/ Finalize(h) \/ FinalizeReady(h) \/ Publish(h) \/ PublishReady(h)
           \/ Delete(h, ActiveDownload) \/ AbortUpload(h) \/ Unpublish(h) \/ Remove(h, WorkerRuns) \/ Forget(h)
  <2>1. UNCHANGED <<label, model>>
    BY <1>9 DEF Chunk, ChunkWritten, BeginRecord, CompleteRecord, BeginFile, CompleteFile, SweepList, SweepDiscard, Finalize,
       FinalizeReady, Publish, PublishReady, Delete, AbortUpload, Unpublish, Remove, Forget, diskVars
  <2> QED BY <2>1, IndexedSame
<1>10. CASE (\E s \in Sessions : StartChange(h, s) \/ AbortChange(h, s) \/ Commit(h, s, ActiveDownload))
            \/ (\E s \in Sessions, f \in Files : StageChunk(h, s, f)) \/ CommitLocks(h) \/ (\E f \in Files : Apply(h, f))
            \/ ApplyRemovals(h) \/ Store(h) \/ CommitRemote(h) \/ CommitRecorded(h)
  <2>1. UNCHANGED <<label, model>>
    BY <1>10 DEF StartChange, AbortChange, Commit, StageChunk, CommitLocks, Apply, ApplyRemovals, Store, CommitRemote, CommitRecorded,
       Rollback, diskVars
  <2> QED BY <2>1, IndexedSame
<1> QED BY <1>2, <1>3, <1>4, <1>5, <1>6, <1>7, <1>8, <1>9, <1>10 DEF Uploading, Changing

LEMMA IndexedStep ==
    ASSUME LifeInv, PlaceInv, Tended => FetchInv, Calm => WorkInv, Calm => FinalizingInv /\ ShelfInv,
           Still /\ place = "disk" => IndexedOnDisk, [Next]_vars
    PROVE  Still' /\ place' = "disk" => IndexedOnDisk'
<1>1. /\ LibraryTypeOK /\ DownloadsTypeOK /\ CancelsKnown /\ strays \subseteq strays' /\ UNCHANGED place
  BY StraysGrow DEF LifeInv, TypeOK, DownloadsInv, Next, vars
<1> SUFFICES ASSUME Still', place' = "disk" PROVE IndexedOnDisk'
  OBVIOUS
<1>2. /\ FetchInv /\ WorkInv /\ FinalizingInv /\ FolderLabelled /\ IndexedOnDisk
      /\ strays' \intersect Unsettling = {} /\ place = "disk"
  BY <1>1, StillBefore DEF ShelfInv, StateShelved
<1>3. CASE UNCHANGED vars \/ \E x \in open : PartsSent(x) /\ UNCHANGED downloads
  BY <1>2, <1>3, IndexedSame DEF vars, PartsSent, diskVars
<1>4. CASE Restart
  <2>1. \A d \in DOMAIN downloads : downloads[d].pc \in {"none", "submitted"}
    BY <1>2, <1>4 DEF Restart, Strays, Unsettling
  <2>2. ~SomeGoes /\ UNCHANGED <<label, model>>
    BY <1>4, <2>1 DEF SomeGoes, Going, FetchedSteps, Restart, diskVars
  <2> QED BY <1>2, <2>2 DEF IndexedOnDisk
<1>5. ASSUME NEW h \in Handlers, Cache(h, ActiveDownload, WorkerRuns), UNCHANGED downloads PROVE IndexedOnDisk'
  BY <1>1, <1>2, <1>5, CacheKeepsIndexed
<1>6. ASSUME NEW h \in Handlers, Uploading(h, ActiveDownload, WorkerRuns) \/ Changing(h, ActiveDownload), UNCHANGED downloads
      PROVE  IndexedOnDisk'
  BY <1>1, <1>2, <1>6, RequestsKeepIndexed
<1>7. ASSUME NEW h \in Handlers, FromTheHub(h) PROVE IndexedOnDisk'
  BY <1>1, <1>2, <1>7, FromTheHubKeepsIndexed
<1>8. ASSUME NEW d \in DOMAIN downloads, Worker(d) PROVE IndexedOnDisk'
  BY <1>1, <1>2, <1>8, WorkerKeepsIndexed
<1> QED BY <1>3, <1>4, <1>5, <1>6, <1>7, <1>8 DEF Next

----------------------------------------------------------------------------
(* What is recorded is what was to be left, but while somebody who has yet   *)
(* to record it alters what is stored.                                       *)
HistoryInv ==
    /\ HistoryRecorded /\ ForgottenUnshown
    /\ place = "disk" => HistoryOnDisk
StoredFollows == (place = "disk" => OnDisk) /\ (place # "disk" => InBucket)
UnderwaySteps == {"finalize_sync", "store", "remove", "publish_index", "finalize_index"}
Underway == Within(UnderwaySteps) \/ WorkerAt({"sync", "index"}) \/ \E h \in Handlers : Applied(h)
Content == IF model.target = "bucket" THEN bucket ELSE folder

LEMMA StoredIntended ==
    ASSUME LibraryTypeOK, StatePlaced, StoredFollows
    PROVE  Published => Underway \/ Content = intended
<1> SUFFICES ASSUME Published, ~Underway PROVE Content = intended
  OBVIOUS
<1>1. ~WorkerAt({"sync"}) /\ ~WorkerAt({"index"}) /\ ~Within({"remove", "finalize_sync"}) /\ ~Within(EnteringSteps)
      /\ \A h \in Handlers : req[h].pc \notin {"finalize_sync", "store", "remove"} /\ ~Applied(h)
  BY DEF Underway, UnderwaySteps, WorkerAt, Within, EnteringSteps
<1>2. CASE place = "disk"
  <2>1. label \in Complete /\ folder = Content
    BY <1>2 DEF Published, StatePlaced, Content
  <2>2. ASSUME NEW h \in Handlers, req[h].pc = "apply" PROVE folder = intended
    <3>1. UndoneTo(req[h], folder, intended) /\ req[h].moved = {}
      BY <1>1, <1>2, <2>1, <2>2 DEF StoredFollows, OnDisk, ChangeOnDisk, Applied
    <3>2. DOMAIN folder = DOMAIN intended /\ \A f \in DOMAIN folder : folder[f] = intended[f]
      BY <3>1 DEF UndoneTo
    <3>3. folder \in Contents /\ intended \in Contents
      BY DEF LibraryTypeOK
    <3> QED BY <3>2, <3>3, SameContents
  <2>3. folder = intended \/ Within(DiskSteps) \/ WorkerAt({"sync"})
    BY <1>2, <2>1 DEF StoredFollows, OnDisk, DiskFollows
  <2> QED BY <1>1, <2>1, <2>2, <2>3 DEF Within, DiskSteps
<1>3. CASE place # "disk"
  <2>1. manifest # "none" /\ bucket = intended /\ model # NoModel /\ model.target # "local"
    BY <1>1, <1>3 DEF Published, StoredFollows, InBucket, StateInBucket, ShownIntended, ShownIndexed, IndexedShown
  <2>2. model.target \in {"none", "local", "bucket"}
    BY DEF LibraryTypeOK, Model, Targets
  <2> QED BY <2>1, <2>2 DEF Content, StatePlaced
<1> QED BY <1>2, <1>3

LEMMA HistoryKept ==
    ASSUME HistoryRecorded, NEW h \in Handlers, Kept(h), UNCHANGED <<place, history, intended>>, Published' => Published,
           WorkerAt(FetchedSteps) => WorkerAt(FetchedSteps)',
           req[h].pc \in RecordingSteps \/ Applied(h) => req'[h].pc \in RecordingSteps \/ Applied(h)'
    PROVE  HistoryRecorded'
<1>1. Recording => Recording'
  BY DEF Recording, Within, Kept, Applied
<1> QED BY <1>1 DEF HistoryRecorded

LEMMA HistorySame ==
    ASSUME HistoryRecorded, UNCHANGED <<place, label, manifest, history, intended, downloads>>, \A k \in Handlers : req'[k] = req[k]
    PROVE  HistoryRecorded'
<1>1. Recording => Recording'
  BY DEF Recording, Within, Applied, WorkerAt
<1> QED BY <1>1 DEF HistoryRecorded, Published

LEMMA GoesRecording ==
    ASSUME NEW h \in Handlers, req'[h].pc \in RecordingSteps
    PROVE  HistoryRecorded'
BY DEF HistoryRecorded, Recording, Within

LEMMA RecordsStored ==
    ASSUME LibraryTypeOK, StatePlaced, StoredFollows, NEW h \in Handlers, Kept(h), history' = Content,
           UNCHANGED <<place, label, manifest, intended, downloads>>, req[h].pc \notin UnderwaySteps \union {"apply"}
    PROVE  HistoryRecorded'
<1>1. Published' = Published
  BY DEF Published
<1>2. Underway => Recording'
  <2>1. UnderwaySteps \subseteq RecordingSteps
    BY DEF UnderwaySteps, RecordingSteps, StoringSteps, PublishingSteps, RemovingSteps
  <2>2. Within(UnderwaySteps) => Within(RecordingSteps)'
    BY <2>1 DEF Within, Kept
  <2>3. WorkerAt({"sync", "index"}) => WorkerAt(FetchedSteps)'
    BY DEF WorkerAt, FetchedSteps
  <2>4. \A k \in Handlers : Applied(k) => Applied(k)'
    BY DEF Applied, Kept
  <2> QED BY <2>2, <2>3, <2>4 DEF Underway, Recording
<1> QED BY <1>1, <1>2, StoredIntended DEF HistoryRecorded

LEMMA CacheKeepsHistory ==
    ASSUME LibraryTypeOK, PlaceInv, StoredFollows, HistoryRecorded, NEW h \in Handlers, Cache(h, ActiveDownload, WorkerRuns),
           UNCHANGED <<place, downloads>>, strays' \intersect Unsettling = {}
    PROVE  HistoryRecorded'
<1>1. Kept(h) /\ req'[h].pc \in CacheFree /\ UNCHANGED manifest /\ StatePlaced /\ RequestPlaced(h)
  BY CacheStaysFree DEF LibraryTypeOK, PlaceInv, bucketVars
<1>2. req[h].pc \notin RecordingSteps \union UnderwaySteps \union {"apply"} /\ UNCHANGED intended
  BY DEF Cache, Scan, ScanFolder, ScanList, ScanIndex, ScanCommit, ScanLocal, Restore, RestoreFiles, RestoreIndex, Evict,
         EvictFolder, EvictIndex, Free, At, RecordingSteps, StoringSteps, PublishingSteps, RemovingSteps, UnderwaySteps, ghosts
<1>3. Published' => Published
  <2>1. place = "disk" => ~RestoreFiles(h)
    BY <1>1 DEF StatePlaced, RestoreFiles, Strays, Unsettling
  <2>2. place = "disk" => UNCHANGED label
    BY <1>1, <2>1 DEF StatePlaced, Cache, Scan, ScanFolder, ScanList, ScanIndex, ScanCommit, ScanLocal, Restore,
         RestoreIndex, Evict, EvictFolder, EvictIndex, diskVars
  <2> QED BY <1>1, <2>2 DEF Published
<1>4. CASE UNCHANGED history
  BY <1>1, <1>2, <1>3, <1>4, HistoryKept DEF Applied, WorkerAt
<1>5. CASE ScanCommit(h)
  <2>1. place # "disk" /\ history' = bucket
    BY <1>1, <1>5 DEF ScanCommit, Record, RequestPlaced, At, Strays, Unsettling
  <2>2. manifest # "none" => bucket = intended
    BY <2>1 DEF StoredFollows, InBucket, StateInBucket, ShownIntended
  <2> QED BY <1>1, <1>2, <2>1, <2>2 DEF HistoryRecorded, Published
<1>6. CASE ScanLocal(h) /\ ~UNCHANGED history
  <2>1. history' = Content /\ UNCHANGED label
    BY <1>6 DEF ScanLocal, Record, Content, diskVars
  <2> QED BY <1>1, <1>2, <2>1, RecordsStored
<1>7. ScanCommit(h) \/ ScanLocal(h) \/ UNCHANGED history
  BY DEF Cache, Scan, ScanFolder, ScanList, ScanIndex, Restore, RestoreFiles, RestoreIndex, Evict, EvictFolder, EvictIndex
<1> QED BY <1>4, <1>5, <1>6, <1>7

LEMMA FromTheHubKeepsHistory ==
    ASSUME LibraryTypeOK, DownloadsTypeOK, HistoryRecorded, NEW h \in Handlers, FromTheHub(h), CancelsKnown, UNCHANGED place
    PROVE  HistoryRecorded'
<1>1. req \in [Handlers -> Request] /\ downloads \in [1 .. MaxDownloads -> Download]
  BY DEF LibraryTypeOK, DownloadsTypeOK
<1>2. /\ Kept(h) /\ UNCHANGED <<manifest, intended>> /\ (UNCHANGED label \/ label' = "cancelled")
      /\ DOMAIN downloads' = DOMAIN downloads
      /\ \A d \in DOMAIN downloads : downloads'[d].pc = downloads[d].pc \/ downloads[d].pc = "none"
  BY <1>1, HubTurns DEF Starts, Moves, Rests, bucketVars
<1>3. /\ UNCHANGED history
      /\ req[h].pc \in {"idle", "enqueue", "cancel", "cancel_row"}
  BY DEF FromTheHub, StartDownload, Enqueue, Cancel, CancelFolder, CancelRow, Free, At
<1>4. req[h].pc \notin RecordingSteps /\ ~Applied(h)
  BY <1>3 DEF RecordingSteps, StoringSteps, PublishingSteps, RemovingSteps, Applied
<1>5. WorkerAt(FetchedSteps) => WorkerAt(FetchedSteps)'
  BY <1>2 DEF WorkerAt, FetchedSteps
<1>6. Published' => Published
  BY <1>2 DEF Published, Complete
<1> QED BY <1>2, <1>3, <1>4, <1>5, <1>6, HistoryKept

LEMMA WorkerKeepsHistory ==
    ASSUME LibraryTypeOK, DownloadsTypeOK, StatePlaced, StoredFollows, HistoryRecorded, NEW d \in DOMAIN downloads, Worker(d),
           UNCHANGED place, strays' \intersect Unsettling = {}
    PROVE  HistoryRecorded'
<1>1. /\ downloads \in [1 .. MaxDownloads -> Download] /\ OthersStay(d) /\ UNCHANGED req
      /\ Stays(d) \/ Halts(d) \/ SetsOut(d) \/ Takes(d) \/ HasAll(d) \/ Syncs(d) \/ Indexes(d)
  BY WorkerTurns DEF DownloadsTypeOK
<1>2. /\ Within(RecordingSteps)' = Within(RecordingSteps) /\ \A h \in Handlers : Applied(h)' = Applied(h)
      /\ Within(UnderwaySteps)' = Within(UnderwaySteps)
  BY <1>1 DEF Within, Applied
<1>3. ASSUME UNCHANGED <<history, intended>>, Published' => Published,
             downloads[d].pc \in FetchedSteps => downloads'[d].pc \in FetchedSteps
      PROVE  HistoryRecorded'
  <2>1. WorkerAt(FetchedSteps) => WorkerAt(FetchedSteps)'
    BY <1>1, <1>3 DEF WorkerAt, OthersStay
  <2> QED BY <1>2, <1>3, <2>1 DEF HistoryRecorded, Recording
<1>4. CASE FinishDownload(d)
  <2>1. /\ history' = Content /\ UNCHANGED <<label, manifest, intended>> /\ downloads[d].pc = "finish"
    BY <1>4 DEF FinishDownload, RecordStored, Record, Content, Working, diskVars, bucketVars, ghosts
  <2>2. WorkerAt({"sync", "index"}) => WorkerAt(FetchedSteps)'
    BY <1>1, <2>1 DEF WorkerAt, OthersStay, FetchedSteps
  <2>3. UnderwaySteps \subseteq RecordingSteps
    BY DEF UnderwaySteps, RecordingSteps, StoringSteps, PublishingSteps, RemovingSteps
  <2>4. Underway => Recording'
    <3>1. Within(UnderwaySteps) => Within(RecordingSteps)
      BY <2>3 DEF Within
    <3> QED BY <1>2, <2>2, <3>1 DEF Underway, Recording
  <2>5. Published' = Published
    BY <2>1 DEF Published
  <2> QED BY <2>1, <2>4, <2>5, StoredIntended DEF HistoryRecorded
<1>5. CASE ~FinishDownload(d)
  <2>1. UNCHANGED history
    BY <1>5 DEF Worker, Prepare, FetchFile, MonitorLooks, MonitorWrites, Fetched, SyncDownload, IndexDownload
  <2>2. CASE Stays(d)
    BY <1>3, <2>1, <2>2 DEF Stays, Unaltered, diskVars, bucketVars, Published
  <2>3. CASE Halts(d)
    <3>1. downloads[d].pc # "finish"
      <4>1. ~MonitorWrites(d) \/ downloads'[d].pc = downloads[d].pc
        BY <1>1 DEF MonitorWrites, Download
      <4> QED BY <1>5, <2>3, <4>1 DEF Worker, Prepare, FetchFile, MonitorLooks, Fetched, SyncDownload, IndexDownload, Working, Halts
    <3>2. downloads[d].pc \notin FetchedSteps /\ Unaltered
      BY <2>3, <3>1 DEF Halts, FetchedSteps, Unsettling
    <3> QED BY <1>3, <2>1, <3>2 DEF Unaltered, diskVars, bucketVars, Published
  <2>4. CASE SetsOut(d)
    BY <1>3, <2>1, <2>4 DEF SetsOut, bucketVars, Published, Complete, FetchedSteps
  <2>5. CASE Takes(d)
    BY <1>3, <2>1, <2>5 DEF Takes, bucketVars, Published
  <2>6. CASE HasAll(d) \/ Syncs(d) \/ Indexes(d)
    <3>1. WorkerAt(FetchedSteps)'
      BY <1>1, <2>6 DEF HasAll, Syncs, Indexes, WorkerAt, OthersStay, FetchedSteps
    <3> QED BY <3>1 DEF HistoryRecorded, Recording
  <2> QED BY <1>1, <2>2, <2>3, <2>4, <2>5, <2>6
<1> QED BY <1>4, <1>5

LEMMA UploadingKeepsHistory ==
    ASSUME LibraryTypeOK, PlaceInv, StoredFollows, HistoryRecorded, ForgottenUnshown, NEW h \in Handlers,
           Uploading(h, ActiveDownload, WorkerRuns), UNCHANGED <<place, downloads>>, strays' \intersect Unsettling = {}
    PROVE  HistoryRecorded'
<1>1. req \in [Handlers -> Request] /\ StatePlaced /\ "failed" \notin strays'
  BY DEF LibraryTypeOK, PlaceInv, Unsettling
<1>2. ASSUME Kept(h), UNCHANGED <<label, manifest, history, intended>>, req[h].pc \notin RecordingSteps \union {"apply"} PROVE HistoryRecorded'
  BY <1>2, HistoryKept DEF Applied, WorkerAt, Published
<1>3. ASSUME req'[h].pc \in {"finalize_sync", "finalize_index", "finalize_ready", "publish_index", "publish_ready", "unpublish",
                            "unpublish_rows", "remove", "forget"}
      PROVE  HistoryRecorded'
  <2>1. req'[h].pc \in RecordingSteps
    BY <1>3 DEF RecordingSteps, StoringSteps, PublishingSteps, RemovingSteps
  <2> QED BY <2>1, GoesRecording
<1>4. CASE CreateUpload(h)
  <2>1. manifest = "none" \/ place = "disk"
    BY <1>4 DEF CreateUpload, NameFree
  <2>2. UNCHANGED manifest /\ (place = "disk" => label' = "uploading")
    BY <1>4 DEF CreateUpload, bucketVars
  <2> QED BY <2>1, <2>2 DEF HistoryRecorded, Published, Complete
<1>5. CASE (\E f \in Files : Chunk(h, f)) \/ ChunkWritten(h) \/ BeginRecord(h) \/ CompleteRecord(h) \/ SweepList(h) \/ SweepDiscard(h)
           \/ (\E w \in Sessions \union {Upload}, f \in Files : BeginFile(h, w, f) \/ CompleteFile(h, w, f))
           \/ Finalize(h) \/ Delete(h, ActiveDownload)
  <2>1. Kept(h)
    BY <1>1, <1>5, UploadingTurns, DeleteTurns DEF Starts, Rests
  <2>2. UNCHANGED <<label, manifest, history, intended>>
    BY <1>5 DEF Chunk, ChunkWritten, BeginRecord, CompleteRecord, SweepList, SweepDiscard, BeginFile, CompleteFile, Finalize, Delete,
       diskVars, bucketVars, ghosts
  <2>3. req[h].pc \in {"idle", "chunk", "begin_record", "complete_record", "sweep", "sweep_discard"}
    BY <1>5 DEF Chunk, ChunkWritten, BeginRecord, CompleteRecord, SweepList, SweepDiscard, BeginFile, CompleteFile, Finalize, Delete,
       Free, At
  <2> QED BY <1>2, <2>1, <2>2, <2>3 DEF RecordingSteps, StoringSteps, PublishingSteps, RemovingSteps
<1>6. CASE FinalizeIndex(h) \/ PublishIndex(h) \/ AbortUpload(h) \/ RemoveFolder(h, WorkerRuns)
  BY <1>1, <1>3, <1>6, UploadingTurns DEF Moves
<1>7. CASE FinalizeSync(h) \/ Unpublish(h)
  <2>1. GoesTo(h, "finalize_index") \/ GoesTo(h, "unpublish_rows")
    BY <1>1, <1>7 DEF FinalizeSync, Unpublish, Strays
  <2> QED BY <1>1, <1>3, <2>1, GoesOn DEF Moves
<1>8. CASE FinalizeChecked(h) \/ Publish(h) \/ Remove(h, WorkerRuns)
  <2>1. Kept(h) /\ req'[h].pc \in {"finalize_sync", "publish_index", "remove", "idle"} /\ req[h].pc \in {"finalize", "publish", "delete"}
    BY <1>1, <1>8, UploadingTurns DEF FinalizeChecked, Publish, Remove, At, Moves, Rests
  <2>2. CASE UNCHANGED <<label, manifest, history, intended>>
    BY <1>2, <2>1, <2>2 DEF RecordingSteps, StoringSteps, PublishingSteps, RemovingSteps
  <2>3. CASE ~UNCHANGED <<label, manifest, history, intended>>
    <3>1. CASE FinalizeChecked(h)
      <4>1. parts = {} /\ folder # << >>
        BY <2>3, <3>1 DEF FinalizeChecked, bucketVars, ghosts
      <4> QED BY <1>1, <1>3, <3>1, <4>1, UploadingTurns
    <3>2. CASE Publish(h)
      <4>1. GoesTo(h, "publish_index")
        BY <2>3, <3>2 DEF Publish, diskVars, ghosts
      <4> QED BY <1>1, <1>3, <4>1, GoesOn DEF Moves
    <3>3. CASE Remove(h, WorkerRuns)
      <4>1. GoesTo(h, "remove")
        BY <2>3, <3>3 DEF Remove, diskVars, bucketVars
      <4> QED BY <1>1, <1>3, <4>1, GoesOn DEF Moves
    <3> QED BY <1>8, <3>1, <3>2, <3>3
  <2> QED BY <2>2, <2>3
<1>9. CASE FinalizeReady(h) \/ PublishReady(h)
  <2>1. Kept(h) /\ req[h].pc \in {"finalize_ready", "publish_ready"}
    BY <1>1, <1>9, UploadingTurns DEF Rests, FinalizeReady, PublishReady, At
  <2>2. history' = Content /\ UNCHANGED <<label, manifest, intended>>
    BY <1>9 DEF FinalizeReady, PublishReady, RecordStored, Record, Content, diskVars, bucketVars, ghosts
  <2> QED BY <1>1, <2>1, <2>2, RecordsStored DEF UnderwaySteps
<1>10. CASE UnpublishRows(h)
  BY <1>10 DEF UnpublishRows, HistoryRecorded
<1>11. CASE Forget(h)
  <2>1. ~Published /\ UNCHANGED <<label, manifest>>
    BY <1>11 DEF Forget, At, ForgottenUnshown, Within, diskVars, bucketVars
  <2> QED BY <2>1 DEF HistoryRecorded, Published
<1> QED BY <1>4, <1>5, <1>6, <1>7, <1>8, <1>9, <1>10, <1>11 DEF Uploading

LEMMA ChangingKeepsHistory ==
    ASSUME LibraryTypeOK, PlaceInv, StoredFollows, HistoryRecorded, place = "disk" => HistoryOnDisk, NEW h \in Handlers,
           Changing(h, ActiveDownload), UNCHANGED <<place, downloads>>, strays' \intersect Unsettling = {}
    PROVE  HistoryRecorded'
<1>1. req \in [Handlers -> Request] /\ StatePlaced /\ RequestPlaced(h) /\ "failed" \notin strays' /\ "abort" \notin strays'
  BY DEF LibraryTypeOK, PlaceInv, Unsettling
<1>2. ASSUME Kept(h), UNCHANGED <<label, manifest, history, intended>>, req[h].pc \notin RecordingSteps, ~Applied(h) PROVE HistoryRecorded'
  BY <1>2, HistoryKept DEF WorkerAt, Published
<1>3. ASSUME req'[h].pc \in {"store", "commit_index", "fetch", "history"} PROVE HistoryRecorded'
  <2>1. req'[h].pc \in RecordingSteps
    BY <1>3 DEF RecordingSteps, StoringSteps
  <2> QED BY <2>1, GoesRecording
<1>4. ASSUME NEW s \in Sessions, AbortChange(h, s) PROVE HistoryRecorded'
  <2>1. ~\E k \in Handlers : req[k].pc # "idle" /\ (req[k].who = s \/ s \in req[k].stale)
    BY <1>1, <1>4 DEF AbortChange, Strays
  <2>2. \A k \in Handlers : req'[k] = req[k]
    BY <1>4, <2>1 DEF AbortChange
  <2>3. UNCHANGED <<label, manifest, history, intended>>
    BY <1>4 DEF AbortChange, diskVars, bucketVars
  <2> QED BY <2>2, <2>3, HistorySame
<1>5. CASE (\E s \in Sessions : StartChange(h, s) \/ Commit(h, s, ActiveDownload)) \/ CommitLocks(h)
           \/ \E s \in Sessions, f \in Files : StageChunk(h, s, f)
  <2>1. Kept(h) /\ req[h].pc \in {"idle", "commit"}
    BY <1>1, <1>5, ChangingTurns DEF Rests, Moves, CommitLocks, At
  <2>2. UNCHANGED <<label, manifest, history, intended>>
    BY <1>5 DEF StartChange, Commit, CommitLocks, StageChunk, diskVars, bucketVars, ghosts
  <2> QED BY <1>2, <2>1, <2>2 DEF RecordingSteps, StoringSteps, PublishingSteps, RemovingSteps, Applied
<1>6. ASSUME NEW f \in Files, Apply(h, f) PROVE HistoryRecorded'
  <2>1. Kept(h) /\ req[h].pc = "apply" /\ f \in req[h].files /\ UNCHANGED <<label, manifest, history, intended>>
    BY <1>1, <1>6, ChangingTurns DEF Rests, Apply, At, Rollback, bucketVars, ghosts
  <2>2. CASE ~Applied(h)
    BY <1>2, <2>1, <2>2 DEF RecordingSteps, PublishingSteps, RemovingSteps
  <2>3. CASE Applied(h)
    <3>1. place = "disk" /\ req[h].moved # {}
      BY <2>3 DEF Applied
    <3>2. staging[req[h].who][f] = "whole"
      BY <2>1, <3>1 DEF HistoryOnDisk, StagedFor
    <3> DEFINE kept == Keeps(h, {f})
    <3>3. Continues(h, [req[h] EXCEPT !.backup = kept, !.moved = @ \union {f}])
      BY <1>6, <3>2 DEF Apply
    <3> HIDE DEF kept
    <3>4. req'[h] = [req[h] EXCEPT !.backup = kept, !.moved = @ \union {f}]
      BY <1>1, <3>3, TurnsTo
    <3>5. req'[h].pc = "apply" /\ req'[h].moved = req[h].moved \union {f}
      BY <1>1, <2>1, <3>4 DEF Request
    <3>6. Applied(h)'
      BY <3>1, <3>5 DEF Applied
    <3> QED BY <3>6 DEF HistoryRecorded, Recording
  <2> QED BY <2>2, <2>3
<1>7. CASE ApplyRemovals(h) \/ CommitIndex(h)
  BY <1>1, <1>3, <1>7, ChangingTurns DEF Moves
<1>8. CASE Store(h) \/ FetchCopy(h)
  <2>1. GoesTo(h, "commit_index")
    BY <1>1, <1>8 DEF Store, FetchCopy, Strays
  <2> QED BY <1>1, <1>3, <2>1, GoesOn DEF Moves
<1>9. CASE CommitRemote(h)
  <2>1. CASE Ends(h)
    <3>1. Rests(h) /\ req[h].pc \in {"commit", "commit_upload"}
      BY <1>1, <1>9, <2>1, TurnsIdle DEF CommitRemote, At
    <3>2. UNCHANGED <<label, manifest, history, intended>> \/ req'[h].pc \in {"fetch", "commit_index"}
      BY <1>1, <1>9, GoesOn DEF CommitRemote, Strays, diskVars, bucketVars, ghosts, Moves
    <3> QED BY <1>2, <1>3, <3>1, <3>2 DEF Rests, RecordingSteps, StoringSteps, PublishingSteps, RemovingSteps, Applied
  <2>2. CASE ~Ends(h)
    BY <1>1, <1>3, <1>9, <2>2, GoesOn DEF CommitRemote, Moves
  <2> QED BY <2>1, <2>2
<1>10. CASE CommitRecorded(h)
  <2>1. Kept(h) /\ req[h].pc = "history"
    BY <1>1, <1>10, ChangingTurns DEF Rests, CommitRecorded, At
  <2>2. history' = Content /\ UNCHANGED <<label, manifest, intended>>
    BY <1>10 DEF CommitRecorded, RecordStored, Record, Content, diskVars, bucketVars, ghosts
  <2> QED BY <1>1, <2>1, <2>2, RecordsStored DEF UnderwaySteps
<1> QED BY <1>4, <1>5, <1>6, <1>7, <1>8, <1>9, <1>10 DEF Changing

LEMMA HistoryStep ==
    ASSUME LifeInv, PlaceInv, LockInv, Timely => RowInv, Tended => FetchInv, Calm => WorkInv, Calm => FinalizingInv /\ ShelfInv,
           Still /\ place = "disk" => OnDisk, Still /\ place # "disk" => InBucket, Still => HistoryInv, [Next]_vars
    PROVE  Still' => HistoryInv'
<1>1. /\ LibraryTypeOK /\ UploadsTypeOK /\ DownloadsTypeOK /\ CancelsKnown /\ strays \subseteq strays' /\ UNCHANGED place
  BY StraysGrow DEF LifeInv, TypeOK, DownloadsInv, Next, vars
<1> SUFFICES ASSUME Still' PROVE HistoryInv'
  OBVIOUS
<1>2. /\ Still /\ HistoryInv /\ StoredFollows /\ StatePlaced /\ strays' \intersect Unsettling = {}
      /\ HistoryRecorded /\ ForgottenUnshown
  BY <1>1, StillBefore DEF PlaceInv, StoredFollows, HistoryInv
<1>3. ForgottenUnshown'
  BY <1>2, ForgottenStep
<1>4. place' = "disk" => HistoryOnDisk'
  <2>1. Still /\ place = "disk" => OnDisk /\ \A k \in Handlers : StagedFor(k)
    BY DEF HistoryInv, HistoryOnDisk
  <2>2. Still /\ place = "disk" => IndexedOnDisk
    BY DEF HistoryInv, HistoryOnDisk
  <2> QED BY <2>1, <2>2, StagedStep, IndexedStep DEF HistoryOnDisk
<1>5. HistoryRecorded'
  <2>1. CASE UNCHANGED vars \/ \E x \in open : PartsSent(x) /\ UNCHANGED downloads
    BY <1>1, <1>2, <2>1, HistorySame DEF vars, PartsSent, requestVars, diskVars, bucketVars, ghosts
  <2>2. CASE Restart
    <3>1. (\A h \in Handlers : req[h].pc = "idle") /\ \A d \in DOMAIN downloads : downloads[d].pc \in {"none", "submitted"}
      BY <1>2, <2>2 DEF Restart, Strays, At, Unsettling
    <3>2. ~Recording
      BY <3>1 DEF Recording, Within, WorkerAt, Applied, FetchedSteps, RecordingSteps, StoringSteps, PublishingSteps, RemovingSteps
    <3>3. UNCHANGED <<label, manifest, history, intended>>
      BY <2>2 DEF Restart, diskVars, bucketVars
    <3> QED BY <1>1, <1>2, <3>2, <3>3 DEF HistoryRecorded, Published
  <2>3. ASSUME NEW h \in Handlers, Cache(h, ActiveDownload, WorkerRuns), UNCHANGED downloads PROVE HistoryRecorded'
    BY <1>1, <1>2, <2>3, CacheKeepsHistory
  <2>4. ASSUME NEW h \in Handlers, Uploading(h, ActiveDownload, WorkerRuns), UNCHANGED downloads PROVE HistoryRecorded'
    BY <1>1, <1>2, <2>4, UploadingKeepsHistory
  <2>5. ASSUME NEW h \in Handlers, Changing(h, ActiveDownload), UNCHANGED downloads PROVE HistoryRecorded'
    BY <1>1, <1>2, <2>5, ChangingKeepsHistory DEF HistoryInv
  <2>6. ASSUME NEW h \in Handlers, FromTheHub(h) PROVE HistoryRecorded'
    BY <1>1, <1>2, <2>6, FromTheHubKeepsHistory
  <2>7. ASSUME NEW d \in DOMAIN downloads, Worker(d) PROVE HistoryRecorded'
    BY <1>1, <1>2, <2>7, WorkerKeepsHistory
  <2> QED BY <2>1, <2>2, <2>3, <2>4, <2>5, <2>6, <2>7 DEF Next
<1> QED BY <1>3, <1>4, <1>5 DEF HistoryInv

LEMMA HistoryStart == Init => HistoryInv
<1> SUFFICES ASSUME Init PROVE HistoryInv
  OBVIOUS
<1>1. \A h \in Handlers : req[h].pc = "idle"
  BY DEF Init, Idle
<1>2. /\ Published => history = intended
      /\ place = "disk" /\ model # NoModel => label \in Complete
  <2>1. CASE NewName \/ Queued
    BY <2>1 DEF NewName, Queued, Absent, Published, Complete
  <2>2. ASSUME NEW arrived \in SUBSET Files, Unfinished(arrived) PROVE history = intended /\ model = NoModel
    BY <2>2 DEF Unfinished
  <2>3. ASSUME NEW content, NEW kind \in Complete, NEW cached \in BOOLEAN, Holds(content, kind, cached)
        PROVE  history = intended /\ (place = "disk" => label \in Complete)
    BY <2>3 DEF Holds
  <2>4. CASE Uploaded \/ Downloaded
    BY <2>3, <2>4 DEF Uploaded, Downloaded, Complete
  <2> QED BY <2>1, <2>2, <2>4 DEF Init
<1> QED BY <1>1, <1>2 DEF HistoryInv, HistoryRecorded, ForgottenUnshown, HistoryOnDisk, IndexedOnDisk, StagedFor, Within

LEMMA RecordedFollows ==
    ASSUME Still /\ place = "disk" => OnDisk, Still /\ place # "disk" => InBucket, Still => HistoryInv
    PROVE  HistoryFollows \/ Except({"queue", "monitor"})
<1> SUFFICES ASSUME Still, model # NoModel, Quiet PROVE history = Stored
  BY DEF HistoryFollows, Still, Unsettling, Except
<1>1. /\ \A h \in Handlers : req[h].pc = "idle"
      /\ \A d \in DOMAIN downloads : downloads[d].pc = "none"
  BY DEF Quiet, At
<1>2. ~Recording /\ ~SomeGoes /\ ~WorkerAt({"sync"}) /\ ~Within(DiskSteps) /\ ~Within({"remove", "finalize_sync"})
  BY <1>1 DEF Recording, Within, WorkerAt, Applied, FetchedSteps, RecordingSteps, StoringSteps, PublishingSteps, RemovingSteps,
         SomeGoes, Going, DiskSteps
<1>3. Published => history = intended
  BY <1>2 DEF HistoryInv, HistoryRecorded
<1>4. CASE place = "disk"
  BY <1>2, <1>3, <1>4 DEF HistoryInv, HistoryOnDisk, IndexedOnDisk, OnDisk, DiskFollows, Published, Stored
<1>5. CASE place # "disk"
  BY <1>2, <1>3, <1>5 DEF InBucket, StateInBucket, IndexedShown, Shown, ShownIntended, Published, Stored
<1> QED BY <1>4, <1>5

----------------------------------------------------------------------------
(* All of it together: what workers alter, what is stored as a whole before  *)
(* it is published, what has a row and a label, how the local copy follows   *)
(* the bucket, what was to be stored, and what is recorded of it.  Each part *)
(* needs those before it, and what RepositoryContents_proofs shows.          *)
CopiesInv ==
    /\ Calm => WorkInv /\ FinalizingInv /\ ShelfInv
    /\ Cached => CopyInv
    /\ Still /\ place = "disk" => OnDisk
    /\ Still /\ place # "disk" => InBucket
    /\ Still => HistoryInv

LEMMA CopiesStart == Init => CopiesInv
<1>1. ASSUME Init PROVE Calm => FinalizingInv
  <2>1. \A h \in Handlers : req[h].pc = "idle"
    BY <1>1 DEF Init, Idle
  <2> QED BY <2>1 DEF FinalizingInv, Within, FinalizeSteps
<1>2. ASSUME Init PROVE Cached => CopyInv
  BY <1>2, CopyStart DEF Cached
<1> QED BY <1>1, <1>2, WorkStart, ShelfStart, DiskStart, BucketStart, HistoryStart DEF CopiesInv

LEMMA CopiesStep ==
    ASSUME RepositoryInv, CopiesInv, [Next]_vars
    PROVE  CopiesInv'
<1>1. /\ LifeInv /\ PlaceInv /\ LockInv
      /\ Timely => RowInv
      /\ Orderly => HiddenInv
      /\ Tended => FetchInv
  BY DEF RepositoryInv
<1>2. /\ Calm => WorkInv
      /\ Calm => FinalizingInv
      /\ Calm => FinalizingInv /\ ShelfInv
      /\ Cached => ShelfInv
      /\ Cached => ShelfInv /\ CopyInv
      /\ Still /\ place = "disk" => OnDisk
      /\ Still /\ place # "disk" => InBucket
      /\ Still => HistoryInv
  BY DEF CopiesInv, Cached
<1>3. Calm' => WorkInv'
  BY <1>1, <1>2, WorkStep
<1>4. Calm' => FinalizingInv'
  BY <1>1, <1>2, FinalizingStep
<1>5. Calm' => ShelfInv'
  BY <1>1, <1>2, ShelfStep
<1>6. Cached' => CopyInv'
  BY <1>1, <1>2, CopyStep
<1>7. Still' /\ place' = "disk" => OnDisk'
  BY <1>1, <1>2, DiskStep
<1>8. Still' /\ place' # "disk" => InBucket'
  BY <1>1, <1>2, BucketStep
<1>9. Still' => HistoryInv'
  BY <1>1, <1>2, HistoryStep
<1> QED BY <1>3, <1>4, <1>5, <1>6, <1>7, <1>8, <1>9 DEF CopiesInv

(* What the theorems below rest on holds throughout the life of a repository. *)
THEOREM CopiesInvariant == Spec => [](RepositoryInv /\ CopiesInv)
<1>1. Init => CopiesInv
  BY CopiesStart
<1>2. RepositoryInv /\ CopiesInv /\ [Next]_vars => CopiesInv'
  BY CopiesStep
<1> QED BY <1>1, <1>2, RepositoryInvariant, PTL DEF Spec

(* A local copy that is served holds what the bucket holds                   *)
(* (RepositoryLife.CacheFollowsBucket): a commit in the folder, a commit in  *)
(* the bucket alone and the fetch that follows it, a rollback, a restore and *)
(* a download all end with the two alike.  A request of the bucket that      *)
(* failed, and requests that overlapped in a way the property names, may     *)
(* leave it behind until the next scan or change.                            *)
THEOREM CacheAlwaysFollows == Spec => []CacheFollowsBucket
<1>1. CopiesInv => CacheFollowsBucket
  BY CacheFollows DEF CopiesInv
<1> QED BY <1>1, CopiesInvariant, PTL

(* What is stored is what the last commit, upload or download was to leave   *)
(* (RepositoryLife.CommittedIsStored), on the disk and in the bucket: a      *)
(* request that is refused half-way has put everything back, one that is     *)
(* answered as done has stored all of it, and nothing beside it was lost.    *)
THEOREM CommittedAlwaysStored == Spec => []CommittedIsStored
<1>1. CopiesInv => CommittedIsStored
  BY CommittedStored DEF CopiesInv
<1> QED BY <1>1, CopiesInvariant, PTL

(* Whoever reads the commit history reads of the files that are stored       *)
(* (RepositoryLife.HistoryFollows): every way an upload, a commit, a         *)
(* download, a scan and a deletion take ends with the record of what it      *)
(* left, on the disk and in the bucket, whatever happened to downloads that  *)
(* were not complete.  Two workers of one model can both enter it as local;  *)
(* what follows then, the runs alone show.                                   *)
THEOREM HistoryAlwaysFollows == Spec => [](HistoryFollows \/ Except({"queue", "monitor"}))
<1>1. CopiesInv => HistoryFollows \/ Except({"queue", "monitor"})
  BY RecordedFollows DEF CopiesInv
<1> QED BY <1>1, CopiesInvariant, PTL
=============================================================================
