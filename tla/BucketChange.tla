---------------------------- MODULE BucketChange ----------------------------
(***************************************************************************)
(* Changing a published repository in its bucket: apply_changes,           *)
(* apply_uploaded_changes and sync_repository of S3ModelStorage            *)
(* (backend/app/storage.py), and the listings that run meanwhile.          *)
(*                                                                         *)
(* A bucket has no transactions, so a change writes a pending record of    *)
(* the objects it is about to add, then the objects, then the manifest,    *)
(* which names the change; only then it removes what it replaced, which it *)
(* records as pending first, and last the record.  A listing leaves out    *)
(* the recorded files, unless the manifest names the record's change.      *)
(*                                                                         *)
(* Changes of one repository hold its lock, so they do not overlap.  Any   *)
(* request can fail, carried out or not, and the server can stop between   *)
(* two: the bucket then stays as it is.                                    *)
(***************************************************************************)
EXTENDS Naturals, FiniteSets

CONSTANTS
    Paths,      \* the files a repository may have
    Changes,    \* ids of changes (uuid4)
    First,      \* the change the manifest names at first
    Removal,    \* the id of a record of removals, which no manifest names
    NoChange,   \* no change: no manifest, no record
    MaxFaults   \* bound on failed requests and crashes

ASSUME IdsAssumption ==
    /\ First \notin Changes /\ Removal \notin Changes /\ NoChange \notin Changes
    /\ First # Removal /\ First # NoChange /\ Removal # NoChange
    /\ MaxFaults \in Nat

VARIABLES
    objects,    \* the files that have an object
    manifest,   \* the change the repository's manifest names
    record,     \* the pending record
    used,       \* ids given to changes so far
    pc,         \* where the change under way is
    job,        \* the change under way, and its locals
    listing,    \* a listing under way
    wanted,     \* ghost: the files of the published version
    slipped,    \* ghost: a manifest was published over a record not its own
    faults

bucketVars == <<objects, manifest, record>>
vars == <<objects, manifest, record, used, pc, job, listing, wanted, slipped, faults>>

Ids == Changes \union {First}
Record == [change : Changes \union {Removal, NoChange}, files : SUBSET Paths]
NoRecord == [change |-> NoChange, files |-> {}]

(* _unpublished: recorded files, unless the manifest names the record's change. *)
Unpublished(rec, man) == IF rec.change = man THEN {} ELSE rec.files

(* _repository_objects, as one step: what the repository is seen to hold. *)
Listed == objects \ Unpublished(record, manifest)

Job == [id : Changes \union {NoChange}, kind : {"apply", "sync"},
        adds : SUBSET Paths, dels : SUBSET Paths, keep : SUBSET Paths,
        left : SUBSET Paths, todo : SUBSET Paths, recorded : BOOLEAN,
        remove : SUBSET Paths]
NoJob == [id |-> NoChange, kind |-> "apply", adds |-> {}, dels |-> {}, keep |-> {},
          left |-> {}, todo |-> {}, recorded |-> FALSE, remove |-> {}]

(* What a listing reads, in which order: restore_repository has the manifest  *)
(* first, discover_repositories the objects, _repository_objects the manifest *)
(* last.  (Broken variants: every listing reads the manifest last, or the     *)
(* record before the objects.)                                                *)
Kinds == {"restore", "discover", "entries"}
ReadsManifestLast(kind, step) == <<"objects", "record", "manifest">>[step]
ReadsRecordFirst(kind, step) == <<"manifest", "record", "objects">>[step]
Reads(kind, step) ==
    CASE kind = "restore"  -> <<"manifest", "objects", "record">>[step]
      [] kind = "discover" -> <<"objects", "manifest", "record">>[step]
      [] kind = "entries"  -> <<"objects", "record", "manifest">>[step]

Listing == [step : 0..4, kind : Kinds, stored : SUBSET Paths, pending : BOOLEAN,
            rec : Record, man : Ids \union {NoChange},
            low : SUBSET Paths, high : SUBSET Paths]
NoListing == [step |-> 0, kind |-> "restore", stored |-> {}, pending |-> FALSE,
              rec |-> NoRecord, man |-> NoChange, low |-> {}, high |-> {}]

TypeOK ==
    /\ objects \subseteq Paths
    /\ manifest \in Ids \union {NoChange}
    /\ record \in Record
    /\ used \subseteq Changes
    /\ pc \in {"idle", "writing", "published", "listed", "removing", "dropping"}
    /\ job \in Job
    /\ listing \in Listing
    /\ wanted \subseteq Paths
    /\ slipped \in BOOLEAN
    /\ faults \in Nat
    /\ (pc = "idle") = (job = NoJob)
    /\ pc = "writing" \/ job.todo = {}

(* A published repository, or none yet. *)
Init ==
    /\ \/ objects \in SUBSET Paths /\ manifest = First
       \/ objects = {} /\ manifest = NoChange
    /\ record = NoRecord
    /\ used = {} /\ pc = "idle" /\ job = NoJob
    /\ listing = NoListing
    /\ wanted = objects
    /\ slipped = FALSE /\ faults = 0

-----------------------------------------------------------------------------
(* A change.                                                               *)

Fault == faults < MaxFaults /\ faults' = faults + 1

(* A listing under way remembers what the repository held meanwhile. *)
Watched ==
    listing' = IF listing.step = 0 THEN listing
               ELSE [listing EXCEPT !.low = @ \intersect Listed', !.high = @ \union Listed']

(* The new objects of a change, and what failed attempts left behind. (Broken *)
(* variant: leftovers are taken for files that are there already.)            *)
RecordedForgetful(adds, left) == adds \ objects
Recorded(adds, left) == (adds \ (objects \ left)) \union left

(* _begin_change, before any object is written. *)
BeginChange(c, kind, adds, dels) ==
    LET left == Unpublished(record, manifest)
        new  == Recorded(adds, left)
    IN
    /\ pc = "idle" /\ c \notin used
    /\ adds # {} \/ dels # {}
    /\ adds \intersect dels = {}
    /\ record' = IF new = {} THEN record ELSE [change |-> c, files |-> new]
    /\ job' = [id |-> c, kind |-> kind, adds |-> adds, dels |-> dels,
               keep |-> IF kind = "sync" THEN (Listed \union adds) \ dels ELSE {},
               left |-> left, todo |-> adds,
               recorded |-> new # {} \/ record # NoRecord, remove |-> {}]
    /\ used' = used \union {c}
    /\ pc' = "writing"
    /\ UNCHANGED <<objects, manifest, wanted, slipped, faults>>
    /\ Watched

(* upload_file, or copy from the change area. *)
WriteObject(p) ==
    /\ pc = "writing" /\ p \in job.todo
    /\ objects' = objects \union {p}
    /\ job' = [job EXCEPT !.todo = @ \ {p}]
    /\ UNCHANGED <<manifest, record, used, pc, wanted, slipped, faults>>
    /\ Watched

(* The manifest makes the change the published version.  It slips when the    *)
(* record also names leftovers the change did not write again, which it       *)
(* brings to light, or is of an earlier change, whose files it hides.         *)
(* (Broken variant: the manifest may go before the last files.)               *)
PublishEarly ==
    /\ pc = "writing"
    /\ manifest' = job.id
    /\ wanted' = wanted \union job.adds
    /\ UNCHANGED <<objects, record, slipped>>
Publish ==
    /\ pc = "writing" /\ job.todo = {}
    /\ manifest' = job.id
    /\ wanted' = wanted \union job.adds
    /\ slipped' = (slipped \/ ~(job.left \subseteq job.adds)
                           \/ (record.change # job.id /\ record.files # {}))
    /\ UNCHANGED <<objects, record>>

PublishManifest ==
    /\ Publish
    /\ job' = [job EXCEPT !.adds = {}, !.left = {},
                          !.remove = IF job.kind = "apply"
                                       THEN job.dels \union (job.left \ job.adds) ELSE {}]
    /\ pc' = IF job.kind = "apply" THEN "listed" ELSE "published"
    /\ UNCHANGED <<used, faults>>
    /\ Watched

(* sync_repository lists what is there now; what the folder does not hold goes. *)
ListExisting ==
    /\ pc = "published"
    /\ \/ job' = [job EXCEPT !.keep = {}, !.remove = objects \ job.keep] /\ UNCHANGED faults
       \/ job' = [job EXCEPT !.keep = {}] /\ Fault
    /\ pc' = "listed"
    /\ UNCHANGED <<objects, manifest, record, used, wanted, slipped>>
    /\ Watched

(* _finish_change records what it removes, so it stays out if that fails. *)
PutRemovals ==
    /\ record' = [change |-> Removal, files |-> job.remove]
    /\ wanted' = wanted \ job.dels

RecordRemovals ==
    /\ pc = "listed" /\ job.remove # {}
    /\ PutRemovals
    /\ pc' = "removing" /\ job' = [job EXCEPT !.dels = {}]
    /\ UNCHANGED <<objects, manifest, used, slipped, faults>>
    /\ Watched

NothingToRemove ==
    /\ pc = "listed" /\ job.remove = {}
    /\ pc' = IF job.recorded THEN "dropping" ELSE "idle"
    /\ job' = IF job.recorded THEN [job EXCEPT !.dels = {}] ELSE NoJob
    /\ UNCHANGED <<objects, manifest, record, used, wanted, slipped, faults>>
    /\ Watched

RemoveObjects ==
    /\ pc = "removing"
    /\ objects' = objects \ job.remove
    /\ pc' = "dropping" /\ job' = [job EXCEPT !.remove = {}]
    /\ UNCHANGED <<manifest, record, used, wanted, slipped, faults>>
    /\ Watched

DropRecord ==
    /\ pc = "dropping"
    /\ record' = NoRecord
    /\ pc' = "idle" /\ job' = NoJob
    /\ UNCHANGED <<objects, manifest, used, wanted, slipped, faults>>
    /\ Watched

(* A request fails, carried out or not, or the server stops.  Up to the       *)
(* manifest the change is given up; after it, what is left is only logged.    *)
Stop ==
    /\ Fault
    /\ \/ pc # "idle" /\ UNCHANGED <<bucketVars, wanted, slipped>>
       \/ Publish
       \/ /\ pc = "listed" /\ job.remove # {}
          /\ PutRemovals
          /\ UNCHANGED <<objects, manifest, slipped>>
       \/ /\ pc = "removing"
          /\ \E gone \in SUBSET job.remove : objects' = objects \ gone
          /\ UNCHANGED <<manifest, record, wanted, slipped>>
    /\ pc' = "idle" /\ job' = NoJob
    /\ UNCHANGED used
    /\ Watched

-----------------------------------------------------------------------------
(* A listing.                                                              *)

(* What had been removed but was still there when a listing began. *)
BeingRemoved == IF record.change = Removal THEN record.files ELSE {}

BeginListing(kind) ==
    /\ listing.step = 0
    /\ listing' = [NoListing EXCEPT !.step = 1, !.kind = kind, !.low = Listed,
                                    !.high = Listed \union BeingRemoved]
    /\ UNCHANGED <<bucketVars, used, pc, job, wanted, slipped, faults>>

(* discover_repositories skips a repository without a manifest. *)
ReadObjects ==
    /\ Reads(listing.kind, listing.step) = "objects"
    /\ listing' = [listing EXCEPT
                      !.step = @ + 1, !.pending = (record # NoRecord),
                      !.stored = IF listing.kind = "discover" /\ manifest = NoChange
                                   THEN {} ELSE objects]
    /\ UNCHANGED faults

ReadRecord ==
    /\ Reads(listing.kind, listing.step) = "record"
    /\ listing' = [listing EXCEPT !.step = @ + 1, !.rec = record]
    /\ UNCHANGED faults

(* repository_manifest: a failed read is no manifest; only _repository_objects *)
(* goes on without one.                                                       *)
ReadManifest ==
    /\ Reads(listing.kind, listing.step) = "manifest"
    /\ \/ /\ listing.kind # "restore" \/ manifest # NoChange
          /\ listing' = [listing EXCEPT !.step = @ + 1, !.man = manifest]
          /\ UNCHANGED faults
       \/ /\ listing.kind = "entries" /\ Fault
          /\ listing' = [listing EXCEPT !.step = @ + 1]

Look ==
    /\ listing.step \in 1..3
    /\ ReadObjects \/ ReadRecord \/ ReadManifest
    /\ UNCHANGED <<bucketVars, used, pc, job, wanted, slipped>>

(* The record is only asked for when the objects show there is one. *)
Result == listing.stored \ (IF listing.pending
                              THEN Unpublished(listing.rec, listing.man) ELSE {})

(* A listing is done, or a request of it failed. *)
EndListing ==
    /\ listing.step # 0
    /\ listing' = NoListing
    /\ UNCHANGED <<bucketVars, used, pc, job, wanted, slipped, faults>>

-----------------------------------------------------------------------------
Change ==
    \/ \E c \in Changes, kind \in {"apply", "sync"}, adds, dels \in SUBSET Paths :
          BeginChange(c, kind, adds, dels)
    \/ \E p \in Paths : WriteObject(p)
    \/ PublishManifest \/ ListExisting \/ RecordRemovals \/ NothingToRemove
    \/ RemoveObjects \/ DropRecord \/ Stop

List == (\E kind \in Kinds : BeginListing(kind)) \/ Look \/ EndListing

Next == Change \/ List

Spec == Init /\ [][Next]_vars

-----------------------------------------------------------------------------
(* Properties.  "slipped" excludes the manifests that were published over a *)
(* record that was not the change's own (see Publish).                      *)

(* What is listed is the published version, at every moment of a change, of   *)
(* a failed one and of the ones after it: nothing joins before its manifest,  *)
(* nothing that was published drops out (storage.py: _begin_change,           *)
(* _unpublished, _finish_change).                                             *)
ListedIsPublished == ~slipped => Listed = wanted

(* A listing shows only files the repository held while it ran, or whose      *)
(* removal was under way when it began, whatever changes it overlaps.         *)
ListingsShowPublished ==
    ~slipped /\ listing.step = 4 => Result \subseteq listing.high

(* A listing that does not read the manifest last misses no file that was in  *)
(* the repository all the while (restore_repository, discover_repositories).  *)
ListingsComplete ==
    ~slipped /\ listing.step = 4 /\ listing.kind # "entries"
        => listing.low \subseteq Result

(* A change that failed leaves nothing to list: as apply_changes has it, "a   *)
(* failure never adds them to the repository at the next scan".               *)
FailureAddsNothing == Listed \subseteq wanted

(* As _finish_change has it, only "deleted files and leftovers of failed      *)
(* attempts" are removed: a published file stays in the bucket until a change *)
(* deletes it.                                                                *)
PublishedFilesStay == wanted \subseteq objects
=============================================================================
