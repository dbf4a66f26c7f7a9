--------------------------- MODULE RepositoryLife ---------------------------
(***************************************************************************)
(* The life of one repository of the library on one server: uploaded or    *)
(* downloaded, changed, restored and evicted, scanned, and deleted, by     *)
(* requests that overlap, with a bucket whose requests can fail and a      *)
(* server that can start again.                                            *)
(***************************************************************************)
EXTENDS Changes, Downloads

vars == <<place, diskVars, bucketVars, row, model, history, requestVars, ghosts,
          uploadVars, sessionVars, downloads>>

TypeOK == LibraryTypeOK /\ UploadsTypeOK /\ DownloadsTypeOK

(* Where a repository can be found when the requests begin.                  *)
Holds(content, kind, cached) ==
    /\ IF cached \/ place = "disk" THEN folder = content /\ label = kind ELSE folder = << >> /\ label = "none"
    /\ IF place = "disk" THEN bucket = << >> /\ manifest = "none" ELSE bucket = content /\ manifest = kind
    /\ model = [target |-> Target, cached |-> cached \/ place = "disk"]
    /\ history = content /\ intended = content /\ parts = {}

NoSessions == session = [s \in Sessions |-> "none"] /\ staging = [s \in Sessions |-> NoFiles] /\ area = {}
NoUploads == target = FALSE /\ records = << >> /\ open = {} /\ sent = {}
NoDownloads == downloads = [d \in 1 .. MaxDownloads |-> NoDownload]
Absent ==
    /\ folder = << >> /\ parts = {} /\ label = "none" /\ bucket = << >> /\ manifest = "none"
    /\ model = NoModel /\ history = << >> /\ intended = << >>

SentBy(s) == [f \in Files |-> IF f \in Writes[s] THEN "whole" ELSE "none"]
OpenSessions ==
    /\ target = FALSE /\ open = {} /\ sent = {}
    /\ IF place = "direct"
       THEN /\ area = UNION {{s} \X Writes[s] : s \in Sessions}
            /\ records = [x \in area |-> "complete"]
            /\ session = [s \in Sessions |-> "direct"] /\ staging = [s \in Sessions |-> NoFiles]
       ELSE /\ area = {} /\ records = << >>
            /\ session = [s \in Sessions |-> "staged"] /\ staging = [s \in Sessions |-> SentBy(s)]

NewName == row = "none" /\ Absent /\ NoSessions /\ NoUploads /\ NoDownloads

(* Some files have arrived, the others are on their way.                     *)
Unfinished(arrived) ==
    /\ row = "uploading" /\ NoSessions /\ NoDownloads
    /\ manifest = "none" /\ model = NoModel /\ history = << >> /\ intended = << >>
    /\ LET content == [x \in arrived |-> Upload]
       IN  IF place = "direct"
           THEN /\ folder = << >> /\ parts = {} /\ label = "none" /\ bucket = content
                /\ target = TRUE /\ open = {Upload} \X (Files \ arrived) /\ sent = open
                /\ records = [x \in {Upload} \X Files |-> IF x[2] \in arrived THEN "complete" ELSE "begun"]
           ELSE /\ folder = content /\ parts = Files \ arrived /\ label = "uploading" /\ bucket = << >>
                /\ NoUploads

Uploaded == \E cached \in BOOLEAN :
    row = "ready" /\ Holds([f \in Files |-> Upload], "owned", cached) /\ OpenSessions /\ NoDownloads

Downloaded ==
    row = "none" /\ Holds([f \in Files |-> Hub], "open", TRUE) /\ OpenSessions /\ NoDownloads

Queued == row = "none" /\ Absent /\ NoSessions /\ NoUploads
            /\ downloads = [d \in 1 .. MaxDownloads |->
                              IF d = 1 THEN [NoDownload EXCEPT !.status = "queued", !.pc = "submitted"]
                              ELSE NoDownload]

Init ==
    /\ place \in Places
    /\ NewName \/ (\E arrived \in (SUBSET Files) \ {{}} : Unfinished(arrived)) \/ Uploaded \/ Downloaded \/ Queued
    /\ fresh = {} /\ strays = {}
    /\ req = [h \in Handlers |-> Idle]
    /\ asked = IF ActiveDownload THEN 1 ELSE 0      \* a queued download was asked for

Next ==
    /\ UNCHANGED place
    /\ \/ \E h \in Handlers :
            \/ Cache(h, ActiveDownload, WorkerRuns) /\ UNCHANGED <<uploadVars, sessionVars, downloads>>
            \/ (Uploading(h, ActiveDownload, WorkerRuns) \/ Changing(h, ActiveDownload)) /\ UNCHANGED downloads
            \/ FromTheHub(h) /\ UNCHANGED <<uploadVars, sessionVars>>
       \/ \E x \in open : PartsSent(x) /\ UNCHANGED downloads
       \/ \E d \in DOMAIN downloads : Worker(d) /\ UNCHANGED <<uploadVars, sessionVars>>
       \/ Restart /\ UNCHANGED <<uploadVars, sessionVars>>

Spec == Init /\ [][Next]_vars

----------------------------------------------------------------------------
(* Requests that overlap in one of the ways `strays' names can leave what    *)
(* the next scan or change has to repair; each property says which.          *)
Except(kinds) == strays \intersect kinds # {}
Quiet == (\A h \in Handlers : At(h, "idle")) /\ \A d \in DOMAIN downloads : downloads[d].pc = "none"
Statuses == {downloads[d].status : d \in DOMAIN downloads}
Within(steps) == \E h \in Handlers : req[h].pc \in steps

(* An upload that is not finalized is in nobody's library.                   *)
UnfinishedHidden ==
    \/ row = "uploading" /\ ~Within(StoringSteps \union PublishingSteps) => model = NoModel
    \/ Except({"restart", "late", "finalizing"})

(* A local copy that is served holds what the bucket holds.                  *)
CacheFollowsBucket ==
    \/ place # "disk" /\ model.cached /\ label \in Complete /\ Quiet => folder = bucket
    \/ Except({"failed", "restart", "abort", "restore", "evict", "scan", "update", "late", "cancel"})

(* What is stored is what the last commit, upload or download was to leave:  *)
(* one that is refused leaves all as it was, one that is answered as done is *)
(* there as a whole.                                                         *)
CommittedIsStored ==
    \/ Published /\ Quiet => Stored = intended
    \/ Except({"failed", "restart", "abort", "restore", "update", "late", "evict", "scan", "cancel", "queue",
               "monitor"})

(* The commit history ends with the files that are stored.                   *)
HistoryFollows ==
    \/ model # NoModel /\ Quiet /\ Statuses \subseteq {"none", "complete"} => history = Stored
    \/ Except({"failed", "restart", "abort", "restore", "evict", "scan", "update", "late", "cancel"})

(* A repository that was deleted leaves nothing under its name.              *)
DeletedLeavesNothing ==
    \/ row = "none" /\ model = NoModel /\ Quiet /\ NoDownloads
         => ~FolderExists /\ bucket = << >> /\ history = << >> /\ records = << >> /\ DirectSessions = {}
    \/ Except({"failed", "restart", "late", "evict", "begin", "restore"})

(* A file that is recorded as complete is in the bucket, as a whole.         *)
CompleteIsStored ==
    \/ \A x \in DOMAIN records : records[x] = "complete" /\ ~Within(RemovingSteps \union {"unpublish_rows"}) =>
        IF x[1] = Upload THEN x[2] \in DOMAIN bucket ELSE x \in area
    \/ Except({"restart", "late"})

(* The bucket holds no unfinished upload that nothing here remembers, and    *)
(* what is remembered belongs to an upload or a session that a sweep finds.  *)
UploadsSwept ==
    /\ \/ \A x \in open : x \in DOMAIN records \/ \E h \in Handlers : At(h, "begin_record") /\ <<req[h].who, req[h].file>> = x
       \/ Except({"failed", "restart", "begin"})
    /\ (\A x \in DOMAIN records : x[1] = Upload \/ x[1] \in DirectSessions) \/ Except({"begin"})

(* One download of a repository is fetched at a time.                        *)
OneWorker ==
    \/ Cardinality({d \in DOMAIN downloads : downloads[d].pc # "none" /\ ~downloads[d].cancel}) <= 1
    \/ Except({"queue", "monitor"})

(* A download that becomes complete is there as a whole, and published.      *)
CompleteIsWhole ==
    [][\A d \in DOMAIN downloads :
         downloads[d].status # "complete" /\ downloads'[d].status = "complete"
            => (Published /\ DOMAIN Stored = Files) \/ Except({"late", "update", "cancel", "queue", "monitor", "evict"})]_vars

(* A download that was cancelled, and whose worker is gone, stays cancelled: *)
(* a restart does not take it up again.                                      *)
CancelledIsFinal ==
    [][\A d \in DOMAIN downloads :
         downloads[d].status = "cancelled" /\ downloads[d].pc = "none"
            => downloads'[d].status = "cancelled" \/ strays \intersect {"monitor"} # {}]_vars
=============================================================================
