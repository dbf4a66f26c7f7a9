----------------------------- MODULE Downloads -----------------------------
(***************************************************************************)
(* Downloads of a repository from the Hugging Face Hub                     *)
(* (backend/app/downloads.py): requests queue and cancel them, a worker    *)
(* carries each out, a monitor beside it reports how far it is, and        *)
(* a restart of the server starts the unfinished ones again.               *)
(***************************************************************************)
EXTENDS Library

VARIABLE downloads      \* the downloads table, and the worker of each row

Downloading == {"queued", "preparing", "downloading"}
Download == [status : Downloading \union {"none", "complete", "cancelled", "failed"},
             pc : {"none", "submitted", "fetching", "sync", "index", "finish"},
             cancel : BOOLEAN, monitor : BOOLEAN]
NoDownload == [status |-> "none", pc |-> "none", cancel |-> FALSE, monitor |-> FALSE]

DownloadsTypeOK == downloads \in [1 .. MaxDownloads -> Download]

ActiveWhenCounted == \E d \in DOMAIN downloads : downloads[d].status = "downloading"
ActiveDownload == \E d \in DOMAIN downloads : downloads[d].status \in Downloading
WorkerRuns == \E d \in DOMAIN downloads : downloads[d].pc # "none"
Working(d, step) == downloads[d].pc = step
FetchedSteps == {"sync", "index", "finish"}
Steady == UNCHANGED <<requestVars, row>>

(* Whether a download is running is asked first, the row is made later; the  *)
(* pool of workers is not asked for more than one run of a row.              *)
StartDownload(h) ==
    /\ Free(h) /\ row = "none" /\ ~ActiveDownload
    /\ Begins(h, [Idle EXCEPT !.pc = "enqueue"])
    /\ UNCHANGED <<diskVars, bucketVars, row, model, history, ghosts, downloads>>

Enqueue(h) ==
    /\ At(h, "enqueue")
    /\ \E d \in DOMAIN downloads :
         /\ downloads[d] = NoDownload /\ \A e \in 1 .. d - 1 : downloads[e] # NoDownload
         /\ downloads' = [downloads EXCEPT ![d] = [NoDownload EXCEPT !.status = "queued", !.pc = "submitted"]]
    /\ Strays("queue", ActiveDownload)
    /\ Ends(h)
    /\ UNCHANGED <<diskVars, bucketVars, row, model, history, intended>>

(* Cancelling: the status is asked, the worker told and the folder marked,   *)
(* and the row written.                                                      *)
Cancel(h, d) ==
    /\ Free(h) /\ downloads[d].status \in Downloading
    /\ Begins(h, [Idle EXCEPT !.pc = "cancel", !.job = d])
    /\ UNCHANGED <<diskVars, bucketVars, row, model, history, ghosts, downloads>>

CancelFolder(h) ==
    /\ At(h, "cancel")
    /\ LET d == req[h].job
       IN  /\ downloads' = [downloads EXCEPT ![d].cancel = downloads[d].pc # "none"]
           /\ label' = IF FolderExists THEN "cancelled" ELSE label
           /\ strays' = strays
                \union (IF FolderExists /\ (downloads[d].pc # "fetching" \/ \E e \in DOMAIN downloads : downloads[e].pc \in FetchedSteps)
                        THEN {"cancel"} ELSE {})
                \union (IF FolderExists /\ model # NoModel THEN {"failed"} ELSE {})
    /\ GoesTo(h, "cancel_row")
    /\ UNCHANGED <<folder, parts, bucketVars, row, model, history, intended>>

CancelRow(h) ==
    /\ At(h, "cancel_row")
    /\ downloads' = [downloads EXCEPT ![req[h].job].status = "cancelled"]
    /\ Ends(h)
    /\ UNCHANGED <<diskVars, bucketVars, row, model, history, ghosts>>

----------------------------------------------------------------------------
(* The worker.  It asks whether it was cancelled until the files are there.  *)
AtWork == \E h \in Handlers : req[h].pc \in StoringSteps \union PublishingSteps \union RemovingSteps \union WaitingSteps

Stops(d, status) ==
    downloads' = [downloads EXCEPT ![d].pc = "none", ![d].cancel = FALSE,
                    ![d].status = IF @ = "cancelled" THEN @ ELSE status]

Prepare(d) ==
    /\ Working(d, "submitted")
    /\ IF downloads[d].cancel THEN Stops(d, "cancelled") /\ UNCHANGED <<label, strays>>
       ELSE \/ /\ downloads' = [downloads EXCEPT ![d].pc = "fetching", ![d].status = "preparing"]
               /\ label' = "downloading"
               /\ strays' = strays \union (IF row # "none" THEN {"late"} ELSE {})
                                    \union (IF AtWork THEN {"update"} ELSE {})
            \/ Stops(d, "failed") /\ UNCHANGED <<label, strays>>
    /\ UNCHANGED <<folder, parts, bucketVars, model, history, intended>> /\ Steady

ArrivedAny(f) == folder # << >>
Arrived(f) == f \in DOMAIN folder /\ folder[f] = Hub

FetchFile(d, f) ==
    /\ Working(d, "fetching") /\ ~downloads[d].cancel
    /\ ~Arrived(f)
    /\ folder' = Over([x \in {f} |-> Hub], folder)
    /\ UNCHANGED <<parts, label, bucketVars, model, history, ghosts, downloads>> /\ Steady

(* The monitor looks whether the download was cancelled, adds up the folder, *)
(* and writes the row; the worker waits three seconds for it and goes on.    *)
MonitorLooks(d) ==
    /\ Working(d, "fetching") /\ ~downloads[d].cancel /\ ~downloads[d].monitor
    /\ downloads' = [downloads EXCEPT ![d].monitor = TRUE]
    /\ UNCHANGED <<diskVars, bucketVars, model, history, ghosts>> /\ Steady

MonitorWrites(d) ==
    /\ downloads[d].monitor
    /\ downloads' = [downloads EXCEPT ![d].monitor = FALSE, ![d].status = "downloading"]
    /\ Strays("monitor", downloads[d].status = "cancelled")
    /\ UNCHANGED <<diskVars, bucketVars, model, history, intended>> /\ Steady

Left(d) == IF downloads[d].monitor THEN {"monitor"} ELSE {}

Fetched(d) ==
    /\ Working(d, "fetching")
    /\ \/ /\ Stops(d, IF downloads[d].cancel THEN "cancelled" ELSE "failed")
          /\ strays' = strays \union Left(d) \union (IF model # NoModel THEN {"failed"} ELSE {})
          /\ UNCHANGED label
       \/ /\ strays' = strays \union Left(d)
          /\ ~downloads[d].cancel /\ \A f \in Files : Arrived(f)
          /\ label' = "open"
          /\ downloads' = [downloads EXCEPT ![d].pc = "sync"]
    /\ UNCHANGED <<folder, parts, bucketVars, model, history, intended>> /\ Steady

SyncDownload(d) ==
    /\ Working(d, "sync")
    /\ \/ /\ place = "disk" \/ label \in Complete
          /\ IF place = "disk" THEN UNCHANGED bucketVars ELSE bucket' = folder /\ manifest' = label
          /\ intended' = folder
          /\ downloads' = [downloads EXCEPT ![d].pc = "index"]
          /\ UNCHANGED strays
       \/ /\ place # "disk"
          /\ bucket' \in HalfStored(folder)
          /\ Strays("failed", TRUE) /\ Stops(d, "failed") /\ UNCHANGED <<manifest, intended>>
    /\ UNCHANGED <<diskVars, model, history>> /\ Steady

IndexDownload(d) ==
    /\ Working(d, "index")
    /\ IndexPath
    /\ downloads' = [downloads EXCEPT ![d].pc = "finish"]
    /\ UNCHANGED <<diskVars, bucketVars, history, ghosts>> /\ Steady

FinishDownload(d) ==
    /\ Working(d, "finish")
    /\ RecordStored
    /\ downloads' = [downloads EXCEPT ![d].pc = "none", ![d].cancel = FALSE, ![d].status = "complete"]
    /\ UNCHANGED <<diskVars, bucketVars, model, ghosts>> /\ Steady

(* The server starts again: nobody works on anything, and every unfinished   *)
(* download is queued again.                                                 *)
ResumeAll ==
    downloads' = [d \in DOMAIN downloads |->
                    IF downloads[d].status \notin {"none", "complete", "failed"}
                    THEN [NoDownload EXCEPT !.status = "queued", !.pc = "submitted"]
                    ELSE [NoDownload EXCEPT !.status = downloads[d].status]]
Resume ==
    downloads' = [d \in DOMAIN downloads |->
                    IF downloads[d].status \in Downloading
                    THEN [NoDownload EXCEPT !.status = "queued", !.pc = "submitted"]
                    ELSE [NoDownload EXCEPT !.status = downloads[d].status]]

Restart ==
    /\ "restart" \notin strays
    /\ Strays("restart", \/ \E h \in Handlers : ~At(h, "idle")
                         \/ \E d \in DOMAIN downloads : downloads[d].pc \notin {"none", "submitted"})
    /\ req' = [h \in Handlers |-> Idle] /\ UNCHANGED asked
    /\ Resume
    /\ UNCHANGED <<diskVars, bucketVars, row, model, history, intended>>

FromTheHub(h) ==
    \/ StartDownload(h) \/ Enqueue(h)
    \/ \E d \in DOMAIN downloads : Cancel(h, d)
    \/ CancelFolder(h) \/ CancelRow(h)

Worker(d) ==
    \/ Prepare(d) \/ \E f \in Files : FetchFile(d, f)
    \/ MonitorLooks(d) \/ MonitorWrites(d) \/ Fetched(d)
    \/ SyncDownload(d) \/ IndexDownload(d) \/ FinishDownload(d)
=============================================================================
