------------------------- MODULE BucketChange_proofs -------------------------
(***************************************************************************)
(* Proofs about BucketChange, for any files, changes and number of faults: *)
(* its type invariant, that what is listed is the published version        *)
(* (ListedIsPublished), and that a listing made of several requests beside *)
(* a change shows nothing that was not published while it was made         *)
(* (ListingsShowPublished) and misses nothing that was all the while       *)
(* (ListingsComplete).                                                     *)
(***************************************************************************)
EXTENDS BucketChange, TLAPS

(* The files the record keeps out of the repository. *)
Hidden == Unpublished(record, manifest)

(* What each phase of a change knows of the record and of its own files. *)
WritingOK ==
    /\ job.adds \ Hidden \subseteq wanted
    /\ record.change = job.id => record.files \subseteq job.adds \union job.left
    /\ job.todo \subseteq job.adds /\ job.adds \ job.todo \subseteq objects
    /\ job.kind = "sync" => job.keep = (wanted \union job.adds) \ job.dels

PublishedOK == Hidden = {} /\ job.keep = wanted \ job.dels /\ job.remove = {}

ListedOK ==
    /\ Hidden = {}
    /\ job.remove # {} => job.remove \intersect wanted = job.dels \intersect wanted

RemovingOK == record.change = Removal /\ record.files = job.remove

DroppingOK == Hidden \intersect objects = {}

Phase ==
    /\ pc = "writing"   => WritingOK
    /\ pc = "published" => PublishedOK
    /\ pc = "listed"    => ListedOK
    /\ pc = "removing"  => RemovingOK
    /\ pc = "dropping"  => DroppingOK

(* A change's id is new, so the manifest cannot name it before it is published. *)
IdsKnown ==
    /\ manifest \in used \union {First, NoChange}
    /\ pc # "idle" => job.id \in used

Safe == Listed = wanted /\ Phase

-----------------------------------------------------------------------------
(* Types.                                                                  *)

LEMMA NoRecordType == NoRecord \in Record
  BY SMT DEF NoRecord, Record

LEMMA NoListingType == NoListing \in Listing
  BY NoRecordType, SMT DEF NoListing, Listing, Kinds

LEMMA NoJobType == NoJob \in Job /\ NoJob.id = NoChange /\ NoJob.todo = {}
  BY SMT DEF NoJob, Job

LEMMA ListingExcept ==
    ASSUME NEW l \in Listing, NEW a, NEW b, a \subseteq Paths, b \subseteq Paths
    PROVE  [l EXCEPT !.low = a, !.high = b] \in Listing
  BY Zenon DEF Listing

(* A listing that watches a change stays one. *)
LEMMA WatchedType ==
    ASSUME listing \in Listing, Watched, objects' \subseteq Paths
    PROVE  listing' \in Listing
<1>1. Listed' \subseteq Paths
  BY SMT DEF Listed
<1>2. CASE listing.step = 0
  BY <1>2, SMT DEF Watched
<1>3. CASE listing.step # 0
  <2>1. listing' = [listing EXCEPT !.low = listing.low \intersect Listed',
                                   !.high = listing.high \union Listed']
    BY <1>3, Zenon DEF Watched
  <2>2. listing.low \intersect Listed' \subseteq Paths /\ listing.high \union Listed' \subseteq Paths
    BY <1>1, SMT DEF Listing
  <2> QED  BY <2>1, <2>2, ListingExcept
<1> QED  BY <1>2, <1>3

LEMMA FaultType == faults \in Nat /\ Fault => faults' \in Nat
  BY SMT DEF Fault

LEMMA ReadsType ==
    ASSUME NEW kind \in Kinds, NEW step \in 1..3
    PROVE  Reads(kind, step) \in {"objects", "record", "manifest"}
<1>1. step = 1 \/ step = 2 \/ step = 3
  BY SMT
<1> QED  BY <1>1, SMT DEF Reads, Kinds

(* TypeOK without what the listing does: the part a change can disturb. *)
BucketType ==
    /\ objects \subseteq Paths
    /\ manifest \in Ids \union {NoChange}
    /\ record \in Record
    /\ used \subseteq Changes
    /\ pc \in {"idle", "writing", "published", "listed", "removing", "dropping"}
    /\ job \in Job
    /\ wanted \subseteq Paths
    /\ slipped \in BOOLEAN
    /\ faults \in Nat
    /\ pc = "writing" \/ job.todo = {}
    /\ IdsKnown
    /\ pc = "idle" => job = NoJob

TypeInv == BucketType /\ listing \in Listing
IInv == TypeInv /\ (slipped \/ Safe)

LEMMA TypeParts == TypeInv <=> TypeOK /\ IdsKnown
<1>1. BucketType => ((pc = "idle") = (job = NoJob))
  BY NoJobType, IdsAssumption, SMT DEF BucketType, IdsKnown
<1> QED  BY <1>1 DEF TypeInv, BucketType, TypeOK

LEMMA InitType == Init => BucketType /\ listing \in Listing
<1> SUFFICES ASSUME Init PROVE BucketType /\ listing \in Listing
  OBVIOUS
<1>1. listing \in Listing /\ record \in Record /\ job \in Job /\ job.todo = {}
  BY NoListingType, NoJobType, NoRecordType DEF Init
<1>2. objects \subseteq Paths /\ wanted \subseteq Paths /\ manifest \in Ids \union {NoChange}
  BY SMT DEF Init, Ids
<1>3. used \subseteq Changes /\ faults \in Nat /\ IdsKnown
  BY SMT DEF Init, IdsKnown
<1>4. slipped \in BOOLEAN /\ pc = "idle" /\ job = NoJob
  BY Zenon DEF Init
<1> QED  BY <1>1, <1>2, <1>3, <1>4, Zenon DEF BucketType

(* A change's locals are still its own: the same id, nothing more to write. *)
Same(j, k) == k \in Job /\ k.id = j.id /\ k.todo = j.todo

LEMMA JobExcept ==
    ASSUME NEW j \in Job, NEW a, a \subseteq Paths
    PROVE  /\ [j EXCEPT !.todo = a] \in Job /\ [j EXCEPT !.todo = a].id = j.id
           /\ Same(j, [j EXCEPT !.dels = a])
           /\ Same(j, [j EXCEPT !.keep = a])
           /\ Same(j, [j EXCEPT !.remove = a])
           /\ Same(j, [j EXCEPT !.keep = {}, !.remove = a])
           /\ Same(j, [j EXCEPT !.adds = {}, !.left = {}, !.remove = a])
<1>1. /\ [j EXCEPT !.todo = a] \in Job
      /\ [j EXCEPT !.dels = a] \in Job
      /\ [j EXCEPT !.keep = a] \in Job
      /\ [j EXCEPT !.remove = a] \in Job
      /\ [j EXCEPT !.keep = {}, !.remove = a] \in Job
      /\ [j EXCEPT !.adds = {}, !.left = {}, !.remove = a] \in Job
  BY Zenon DEF Job
<1>2. DOMAIN j = {"id", "kind", "adds", "dels", "keep", "left", "todo", "recorded", "remove"}
  BY Zenon DEF Job
<1>3. [j EXCEPT !.todo = a].id = j.id
  BY <1>2, SMT
<1>4. Same(j, [j EXCEPT !.dels = a]) /\ Same(j, [j EXCEPT !.keep = a])
  BY <1>1, <1>2, SMT DEF Same
<1>5. Same(j, [j EXCEPT !.remove = a]) /\ Same(j, [j EXCEPT !.keep = {}, !.remove = a])
  BY <1>1, <1>2, SMT DEF Same
<1>6. Same(j, [j EXCEPT !.adds = {}, !.left = {}, !.remove = a])
  BY <1>1, <1>2, SMT DEF Same
<1> QED  BY <1>1, <1>3, <1>4, <1>5, <1>6

LEMMA BeginType ==
    ASSUME BucketType, NEW c \in Changes, NEW kind \in {"apply", "sync"},
           NEW adds \in SUBSET Paths, NEW dels \in SUBSET Paths,
           BeginChange(c, kind, adds, dels)
    PROVE  BucketType'
<1> DEFINE left == Unpublished(record, manifest)
           new  == Recorded(adds, left)
           keep == IF kind = "sync" THEN (Listed \union adds) \ dels ELSE {}
<1>1. left \subseteq Paths /\ Listed \subseteq Paths
  BY SMT DEF BucketType, Record, Unpublished, Listed
<1>2. new \subseteq Paths /\ keep \subseteq Paths
  BY <1>1, SMT DEF Recorded
<1>3. record' = IF new = {} THEN record ELSE [change |-> c, files |-> new]
  BY DEF BeginChange
<1>4. record' \in Record
  BY <1>2, <1>3, SMT DEF Record, BucketType
<1>5. job' = [id |-> c, kind |-> kind, adds |-> adds, dels |-> dels, keep |-> keep,
              left |-> left, todo |-> adds,
              recorded |-> new # {} \/ record # NoRecord, remove |-> {}]
  BY DEF BeginChange
<1>6. job' \in Job /\ job'.id = c
  BY <1>1, <1>2, <1>5, Zenon DEF Job
<1>7. /\ pc' = "writing" /\ used' = used \union {c}
      /\ UNCHANGED <<objects, manifest, wanted, slipped, faults>>
  BY DEF BeginChange
<1> QED
  BY <1>4, <1>6, <1>7, SMT DEF BucketType, IdsKnown

LEMMA WriteType ==
    ASSUME BucketType, NEW p \in Paths, WriteObject(p)
    PROVE  BucketType'
<1>1. job' \in Job /\ job'.id = job.id
  <2>1. job' = [job EXCEPT !.todo = job.todo \ {p}] /\ job.todo \ {p} \subseteq Paths
    BY SMT DEF WriteObject, BucketType, Job
  <2> QED  BY <2>1, JobExcept, Zenon DEF BucketType
<1> QED  BY <1>1, SMT DEF WriteObject, BucketType, IdsKnown

(* Publishing leaves everything but the change's own locals of its type. *)
LEMMA PublishType ==
    ASSUME BucketType, Publish
    PROVE  /\ manifest' \in Ids \union {NoChange} /\ manifest' = job.id /\ job.id \in used
           /\ wanted' \subseteq Paths /\ slipped' \in BOOLEAN
           /\ objects' \subseteq Paths /\ record' \in Record /\ job.todo = {}
<1>1. job.id \in used /\ job.id \in Changes /\ manifest' = job.id
  BY SMT DEF Publish, BucketType, IdsKnown
<1>2. wanted' \subseteq Paths
  BY SMT DEF Publish, BucketType, Job
<1>3. slipped' \in BOOLEAN /\ objects' = objects /\ record' = record /\ job.todo = {}
  BY Zenon DEF Publish
<1> QED  BY <1>1, <1>2, <1>3, SMT DEF BucketType, Ids

LEMMA PublishManifestType ==
    ASSUME BucketType, PublishManifest
    PROVE  BucketType'
<1> DEFINE gone == IF job.kind = "apply" THEN job.dels \union (job.left \ job.adds) ELSE {}
<1>1. job' = [job EXCEPT !.adds = {}, !.left = {}, !.remove = gone]
  BY Zenon DEF PublishManifest
<1>2. gone \subseteq Paths
  BY SMT DEF BucketType, Job
<1>3. Same(job, job')
  BY <1>1, <1>2, JobExcept, Zenon DEF BucketType
<1>5. pc' \in {"listed", "published"} /\ used' = used /\ faults' = faults
  BY SMT DEF PublishManifest
<1> QED  BY <1>3, <1>5, PublishType, SMT DEF PublishManifest, BucketType, IdsKnown, Same

LEMMA ListExistingType ==
    ASSUME BucketType, ListExisting
    PROVE  BucketType'
<1>1. Same(job, job')
  <2>1. objects \ job.keep \subseteq Paths /\ {} \subseteq Paths
    BY SMT DEF BucketType
  <2>2. CASE job' = [job EXCEPT !.keep = {}, !.remove = objects \ job.keep]
    BY <2>1, <2>2, JobExcept, Zenon DEF BucketType
  <2>3. CASE job' = [job EXCEPT !.keep = {}]
    BY <2>1, <2>3, JobExcept, Zenon DEF BucketType
  <2> QED  BY <2>2, <2>3, Zenon DEF ListExisting
<1>2. faults' \in Nat
  BY FaultType, Zenon DEF ListExisting, BucketType
<1> QED  BY <1>1, <1>2, SMT DEF ListExisting, BucketType, IdsKnown, Same

LEMMA PutRemovalsType ==
    ASSUME BucketType, PutRemovals
    PROVE  record' \in Record /\ wanted' \subseteq Paths
  BY SMT DEF PutRemovals, BucketType, Record, Job

LEMMA RecordRemovalsType ==
    ASSUME BucketType, RecordRemovals
    PROVE  BucketType'
<1>1. Same(job, job')
  <2>1. job' = [job EXCEPT !.dels = {}] /\ {} \subseteq Paths
    BY Zenon DEF RecordRemovals
  <2> QED  BY <2>1, JobExcept, Zenon DEF BucketType
<1> QED  BY <1>1, PutRemovalsType, SMT DEF RecordRemovals, BucketType, IdsKnown, Same

LEMMA NothingToRemoveType ==
    ASSUME BucketType, NothingToRemove
    PROVE  BucketType'
<1>1. CASE job.recorded
  <2>1. job' = [job EXCEPT !.dels = {}] /\ pc' = "dropping"
    BY <1>1, Zenon DEF NothingToRemove
  <2>2. Same(job, job')
    <3>1. {} \subseteq Paths
      OBVIOUS
    <3> QED  BY <2>1, <3>1, JobExcept, Zenon DEF BucketType
  <2> QED  BY <2>1, <2>2, SMT DEF NothingToRemove, BucketType, IdsKnown, Same
<1>2. CASE ~job.recorded
  <2>1. job' = NoJob /\ pc' = "idle"
    BY <1>2, Zenon DEF NothingToRemove
  <2> QED  BY <2>1, NoJobType, SMT DEF NothingToRemove, BucketType, IdsKnown
<1> QED  BY <1>1, <1>2

LEMMA RemoveObjectsType ==
    ASSUME BucketType, RemoveObjects
    PROVE  BucketType'
<1>1. Same(job, job')
  <2>1. job' = [job EXCEPT !.remove = {}] /\ {} \subseteq Paths
    BY Zenon DEF RemoveObjects
  <2> QED  BY <2>1, JobExcept, Zenon DEF BucketType
<1> QED  BY <1>1, SMT DEF RemoveObjects, BucketType, IdsKnown, Same

LEMMA DropRecordType ==
    ASSUME BucketType, DropRecord
    PROVE  BucketType'
  BY NoRecordType, NoJobType, SMT DEF DropRecord, BucketType, IdsKnown

LEMMA StopType ==
    ASSUME BucketType, Stop
    PROVE  BucketType'
<1>1. /\ objects' \subseteq Paths /\ record' \in Record /\ wanted' \subseteq Paths
      /\ manifest' \in Ids \union {NoChange} /\ slipped' \in BOOLEAN
      /\ manifest' \in used \union {First, NoChange}
  <2>1. CASE UNCHANGED <<bucketVars, wanted, slipped>>
    BY <2>1, SMT DEF BucketType, IdsKnown, bucketVars
  <2>2. CASE Publish
    BY <2>2, PublishType, SMT
  <2>3. CASE PutRemovals /\ UNCHANGED <<objects, manifest, slipped>>
    BY <2>3, PutRemovalsType, SMT DEF BucketType, IdsKnown
  <2>4. CASE /\ \E gone \in SUBSET job.remove : objects' = objects \ gone
             /\ UNCHANGED <<manifest, record, wanted, slipped>>
    BY <2>4, SMT DEF BucketType, IdsKnown
  <2> QED  BY <2>1, <2>2, <2>3, <2>4, Zenon DEF Stop
<1>2. faults' \in Nat /\ pc' = "idle" /\ job' = NoJob /\ used' = used
  BY FaultType, Zenon DEF Stop, BucketType
<1> QED  BY <1>1, <1>2, NoJobType, SMT DEF BucketType, IdsKnown

LEMMA ChangeType ==
    ASSUME BucketType, listing \in Listing, Change
    PROVE  BucketType' /\ listing' \in Listing
<1>1. BucketType' /\ Watched
  <2>1. CASE \E c \in Changes, kind \in {"apply", "sync"}, adds, dels \in SUBSET Paths :
                BeginChange(c, kind, adds, dels)
    <3>1. PICK c \in Changes, kind \in {"apply", "sync"}, adds \in SUBSET Paths,
               dels \in SUBSET Paths : BeginChange(c, kind, adds, dels)
      BY <2>1
    <3>2. Watched
      BY <3>1, Zenon DEF BeginChange
    <3> QED  BY <3>1, <3>2, BeginType
  <2>2. CASE \E p \in Paths : WriteObject(p)
    BY <2>2, WriteType, Zenon DEF WriteObject
  <2>3. CASE PublishManifest
    BY <2>3, PublishManifestType, Zenon DEF PublishManifest
  <2>4. CASE ListExisting
    BY <2>4, ListExistingType, Zenon DEF ListExisting
  <2>5. CASE RecordRemovals
    BY <2>5, RecordRemovalsType, Zenon DEF RecordRemovals
  <2>6. CASE NothingToRemove
    BY <2>6, NothingToRemoveType, Zenon DEF NothingToRemove
  <2>7. CASE RemoveObjects
    BY <2>7, RemoveObjectsType, Zenon DEF RemoveObjects
  <2>8. CASE DropRecord
    BY <2>8, DropRecordType, Zenon DEF DropRecord
  <2>9. CASE Stop
    BY <2>9, StopType, Zenon DEF Stop
  <2> QED  BY <2>1, <2>2, <2>3, <2>4, <2>5, <2>6, <2>7, <2>8, <2>9 DEF Change
<1>2. objects' \subseteq Paths
  BY <1>1 DEF BucketType
<1> QED  BY <1>1, <1>2, WatchedType

(* A listing changes nothing of the bucket. *)
LEMMA ListUnchanged ==
    List => /\ UNCHANGED <<objects, manifest, record, used, pc, job, wanted, slipped>>
            /\ faults' = faults \/ Fault
<1>1. (\E kind \in Kinds : BeginListing(kind)) =>
          UNCHANGED <<objects, manifest, record, used, pc, job, wanted, slipped, faults>>
  BY Zenon DEF BeginListing, bucketVars
<1>2. Look => UNCHANGED <<objects, manifest, record, used, pc, job, wanted, slipped>>
  BY Zenon DEF Look, bucketVars
<1>3. Look => faults' = faults \/ Fault
  BY Zenon DEF Look, ReadObjects, ReadRecord, ReadManifest
<1>4. EndListing =>
          UNCHANGED <<objects, manifest, record, used, pc, job, wanted, slipped, faults>>
  BY Zenon DEF EndListing, bucketVars
<1> QED  BY <1>1, <1>2, <1>3, <1>4, Zenon DEF List

LEMMA ListType ==
    ASSUME BucketType, listing \in Listing, List
    PROVE  BucketType' /\ listing' \in Listing
<1>1. faults' \in Nat
  BY ListUnchanged, FaultType, Zenon DEF BucketType
<1>2. BucketType'
  BY <1>1, ListUnchanged, SMT DEF BucketType, IdsKnown
<1>3. listing' \in Listing
  <2>1. ASSUME NEW kind \in Kinds, BeginListing(kind)
        PROVE  listing' \in Listing
    <3>1. Listed \subseteq Paths /\ Listed \union BeingRemoved \subseteq Paths
      BY SMT DEF BucketType, Record, Listed, BeingRemoved
    <3>2. listing' = [NoListing EXCEPT !.step = 1, !.kind = kind, !.low = Listed,
                                       !.high = Listed \union BeingRemoved]
      BY <2>1, Zenon DEF BeginListing
    <3>3. 1 \in 0..4
      BY SMT
    <3> QED  BY <3>1, <3>2, <3>3, NoListingType, Zenon DEF Listing
  <2>2. CASE Look
    <3>1. listing.step + 1 \in 0..4 /\ listing.step \in 1..3
      BY <2>2, SMT DEF Look
    <3>2. CASE ReadObjects
      <4> DEFINE stored == IF listing.kind = "discover" /\ manifest = NoChange THEN {} ELSE objects
                 pending == record # NoRecord
      <4>1. listing' = [listing EXCEPT !.step = listing.step + 1, !.pending = pending,
                                       !.stored = stored]
        BY <3>2, Zenon DEF ReadObjects
      <4>2. stored \subseteq Paths
        BY SMT DEF BucketType
      <4>3. pending \in BOOLEAN
        BY Zenon
      <4> HIDE DEF stored, pending
      <4> QED  BY <3>1, <4>1, <4>2, <4>3, Zenon DEF Listing
    <3>3. CASE ReadRecord
      BY <3>1, <3>3, Zenon DEF ReadRecord, Listing, BucketType
    <3>4. CASE ReadManifest
      <4>1. CASE listing' = [listing EXCEPT !.step = listing.step + 1, !.man = manifest]
        BY <3>1, <4>1, Zenon DEF Listing, BucketType
      <4>2. CASE listing' = [listing EXCEPT !.step = listing.step + 1]
        BY <3>1, <4>2, Zenon DEF Listing
      <4> QED  BY <3>4, <4>1, <4>2, Zenon DEF ReadManifest
    <3> QED  BY <2>2, <3>2, <3>3, <3>4 DEF Look
  <2>3. CASE EndListing
    BY <2>3, NoListingType, Zenon DEF EndListing
  <2> QED  BY <2>1, <2>2, <2>3, Zenon DEF List
<1> QED  BY <1>2, <1>3

LEMMA StepType == TypeInv /\ [Next]_vars => TypeInv'
<1>1. UNCHANGED vars /\ TypeInv => TypeInv'
  BY SMT DEF vars, TypeInv, BucketType, IdsKnown
<1> QED  BY <1>1, ChangeType, ListType DEF Next, TypeInv

(* Every variable of a change, a bucket and a listing keeps its type, and a   *)
(* change has an id, and nothing left to write once it is published.          *)
THEOREM TypeCorrect == Spec => []TypeOK
<1>1. Init => TypeInv
  BY InitType DEF TypeInv
<1>2. TypeInv /\ [Next]_vars => TypeInv'
  BY StepType
<1>3. TypeInv => TypeOK
  BY TypeParts
<1> QED  BY <1>1, <1>2, <1>3, PTL DEF Spec

-----------------------------------------------------------------------------
(* What is listed is the published version.                                *)

(* The fields of a change's locals. *)
LEMMA JobFields ==
    \A j \in Job :
       DOMAIN j = {"id", "kind", "adds", "dels", "keep", "left", "todo", "recorded", "remove"}
  BY Zenon DEF Job

(* The new record hides what the change adds to the bucket, and no more. *)
LEMMA BeginSafe ==
    ASSUME BucketType, Safe, NEW c \in Changes, NEW kind \in {"apply", "sync"},
           NEW adds \in SUBSET Paths, NEW dels \in SUBSET Paths,
           BeginChange(c, kind, adds, dels)
    PROVE  Safe'
<1> DEFINE left == Unpublished(record, manifest)
           new  == Recorded(adds, left)
<1>1. c \notin used /\ pc' = "writing" /\ UNCHANGED <<objects, manifest, wanted>>
  BY DEF BeginChange
<1>2. c # manifest
  BY <1>1, IdsAssumption, SMT DEF BucketType, IdsKnown
<1>3. record' = IF new = {} THEN record ELSE [change |-> c, files |-> new]
  BY DEF BeginChange
<1>4. /\ job'.id = c /\ job'.kind = kind /\ job'.adds = adds /\ job'.dels = dels
      /\ job'.left = left /\ job'.todo = adds
      /\ kind = "sync" => job'.keep = (Listed \union adds) \ dels
  BY SMT DEF BeginChange
<1>5. wanted = objects \ left
  BY DEF Safe, Listed
<1>6. CASE new = {}
  <2>1. left = {} /\ adds \subseteq objects
    BY <1>6, SMT DEF Recorded
  <2>2. record' = record /\ Hidden' = {} /\ Listed' = wanted'
    BY <1>1, <1>3, <1>5, <1>6, <2>1, SMT DEF Hidden, Unpublished, Listed
  <2>3. record.change = c => record.files \subseteq adds \union left
    BY <1>2, <2>1, SMT DEF Unpublished
  <2> QED  BY <1>1, <1>4, <1>5, <2>1, <2>2, <2>3, SMT DEF Safe, Phase, WritingOK
<1>7. CASE new # {}
  <2>1. record'.change = c /\ record'.files = new
    BY <1>3, <1>7, SMT
  <2>2. Hidden' = new /\ Listed' = objects \ new
    BY <1>1, <1>2, <2>1, SMT DEF Hidden, Unpublished, Listed
  <2>3. objects \ new = wanted /\ adds \ new \subseteq wanted /\ new \subseteq adds \union left
    BY <1>5, SMT DEF Recorded
  <2> QED  BY <1>1, <1>4, <2>1, <2>2, <2>3, SMT DEF Safe, Phase, WritingOK, Listed
<1> QED  BY <1>6, <1>7

(* A file written before the manifest is hidden, or was in the repository. *)
LEMMA WriteSafe ==
    ASSUME BucketType, Safe, NEW p \in Paths, WriteObject(p)
    PROVE  Safe'
<1>1. /\ pc = "writing" /\ pc' = "writing" /\ p \in job.todo /\ objects' = objects \union {p}
      /\ UNCHANGED <<manifest, record, wanted>>
      /\ job' = [job EXCEPT !.todo = job.todo \ {p}]
  BY Zenon DEF WriteObject
<1>2. /\ job'.id = job.id /\ job'.kind = job.kind /\ job'.adds = job.adds
      /\ job'.dels = job.dels /\ job'.left = job.left /\ job'.keep = job.keep
      /\ job'.todo = job.todo \ {p}
  BY <1>1, JobFields, SMT DEF BucketType
<1>3. Hidden' = Hidden /\ WritingOK
  BY <1>1, SMT DEF Hidden, Unpublished, Safe, Phase
<1>4. WritingOK'
  BY <1>1, <1>2, <1>3, SMT DEF WritingOK
<1>5. p \in job.adds
  BY <1>1, <1>3, SMT DEF WritingOK
<1>6. p \in Hidden \/ p \in wanted
  BY <1>3, <1>5, SMT DEF WritingOK
<1>7. Listed' = wanted'
  BY <1>1, <1>3, <1>6, SMT DEF Safe, Listed, Hidden
<1> QED  BY <1>1, <1>4, <1>7, SMT DEF Safe, Phase

(* The manifest brings to light exactly what the change added: the record     *)
(* names nothing else, unless the step slips.                                 *)
LEMMA PublishSafe ==
    ASSUME BucketType, Safe, Publish, ~slipped'
    PROVE  /\ Listed' = wanted' /\ Hidden' = {} /\ job.left \subseteq job.adds
           /\ job.kind = "sync" => job.keep = wanted' \ job.dels
<1>1. /\ WritingOK /\ job.todo = {} /\ manifest' = job.id /\ wanted' = wanted \union job.adds
      /\ objects' = objects /\ record' = record
  BY SMT DEF Publish, Safe, Phase
<1>2. job.left \subseteq job.adds /\ (record.change = job.id \/ record.files = {})
  BY Zenon DEF Publish
<1>3. job.adds \subseteq objects
  BY <1>1, SMT DEF WritingOK
<1>4. Hidden' = {}
  BY <1>1, <1>2, SMT DEF Hidden, Unpublished
<1>5. wanted = objects \ Hidden
  BY DEF Safe, Listed, Hidden
<1>6. Hidden \subseteq job.adds
  BY <1>1, <1>2, SMT DEF WritingOK, Hidden, Unpublished
<1>7. Listed' = objects
  BY <1>1, <1>4, SMT DEF Listed, Hidden
<1>8. objects = wanted \union job.adds
  BY <1>3, <1>5, <1>6, SMT
<1> QED  BY <1>1, <1>2, <1>4, <1>7, <1>8, SMT DEF WritingOK

LEMMA PublishManifestSafe ==
    ASSUME BucketType, Safe, PublishManifest, ~slipped'
    PROVE  Safe'
<1> DEFINE gone == IF job.kind = "apply" THEN job.dels \union (job.left \ job.adds) ELSE {}
<1>1. Publish /\ job' = [job EXCEPT !.adds = {}, !.left = {}, !.remove = gone]
  BY Zenon DEF PublishManifest
<1>2. /\ Listed' = wanted' /\ Hidden' = {} /\ job.left \subseteq job.adds
      /\ job.kind = "sync" => job.keep = wanted' \ job.dels
  BY <1>1, PublishSafe
<1>3. /\ job'.kind = job.kind /\ job'.dels = job.dels /\ job'.keep = job.keep
      /\ job'.remove = gone
  BY <1>1, JobFields, SMT DEF BucketType
<1>4. CASE job.kind = "apply"
  <2>1. pc' = "listed" /\ gone = job.dels
    BY <1>2, <1>4, SMT DEF PublishManifest
  <2> QED  BY <1>2, <1>3, <2>1, SMT DEF Safe, Phase, ListedOK
<1>5. CASE job.kind # "apply"
  <2>1. pc' = "published" /\ job.kind = "sync"
    BY <1>5, SMT DEF PublishManifest, BucketType, Job
  <2> QED  BY <1>2, <1>3, <2>1, SMT DEF Safe, Phase, PublishedOK
<1> QED  BY <1>4, <1>5

LEMMA ListExistingSafe ==
    ASSUME BucketType, Safe, ListExisting
    PROVE  Safe'
<1>1. /\ pc' = "listed" /\ UNCHANGED <<objects, manifest, record, wanted>> /\ PublishedOK
  BY SMT DEF ListExisting, Safe, Phase
<1>2. Listed' = wanted' /\ Hidden' = {} /\ objects = wanted
  BY <1>1, SMT DEF Safe, Listed, Hidden, Unpublished, PublishedOK
<1>3. job'.dels = job.dels
      /\ (job'.remove = objects \ job.keep \/ job'.remove = job.remove)
  <2>1. CASE job' = [job EXCEPT !.keep = {}, !.remove = objects \ job.keep]
    BY <2>1, JobFields, SMT DEF BucketType
  <2>2. CASE job' = [job EXCEPT !.keep = {}]
    BY <2>2, JobFields, SMT DEF BucketType
  <2> QED  BY <2>1, <2>2, Zenon DEF ListExisting
<1>4. job'.remove # {} => job'.remove \intersect wanted = job'.dels \intersect wanted
  BY <1>1, <1>2, <1>3, SMT DEF PublishedOK
<1> QED  BY <1>1, <1>2, <1>4, SMT DEF Safe, Phase, ListedOK

(* Recording the removals takes the deleted files out, at once. *)
LEMMA PutRemovalsSafe ==
    ASSUME BucketType, Safe, pc = "listed", job.remove # {}, PutRemovals,
           UNCHANGED <<objects, manifest>>
    PROVE  Listed' = wanted' /\ Hidden' = job.remove
<1>1. ListedOK /\ objects = wanted
  BY SMT DEF Safe, Phase, ListedOK, Listed, Hidden
<1>2. /\ record'.change = Removal /\ record'.files = job.remove /\ wanted' = wanted \ job.dels
      /\ manifest' = manifest /\ objects' = objects
  BY SMT DEF PutRemovals
<1>3. manifest # Removal
  BY IdsAssumption, SMT DEF BucketType, Ids
<1>4. Hidden' = job.remove
  BY <1>2, <1>3, SMT DEF Hidden, Unpublished
<1> QED  BY <1>1, <1>2, <1>4, SMT DEF ListedOK, Listed, Hidden

LEMMA RecordRemovalsSafe ==
    ASSUME BucketType, Safe, RecordRemovals
    PROVE  Safe'
<1>1. Listed' = wanted'
  BY PutRemovalsSafe, SMT DEF RecordRemovals
<1>2. pc' = "removing" /\ job' = [job EXCEPT !.dels = {}]
      /\ record'.change = Removal /\ record'.files = job.remove
  BY SMT DEF RecordRemovals, PutRemovals
<1>3. job'.remove = job.remove
  BY <1>2, JobFields, SMT DEF BucketType
<1> QED  BY <1>1, <1>2, <1>3, SMT DEF Safe, Phase, RemovingOK

LEMMA NothingToRemoveSafe ==
    ASSUME BucketType, Safe, NothingToRemove
    PROVE  Safe'
<1>1. pc' \in {"dropping", "idle"} /\ UNCHANGED <<objects, manifest, record, wanted>> /\ ListedOK
  BY SMT DEF NothingToRemove, Safe, Phase
<1>2. Listed' = wanted' /\ Hidden' = {}
  BY <1>1, SMT DEF Safe, Listed, Hidden, Unpublished, ListedOK
<1> QED  BY <1>1, <1>2, SMT DEF Safe, Phase, DroppingOK

(* What is removed was hidden before. *)
LEMMA RemoveSafe ==
    ASSUME BucketType, Safe, pc = "removing", NEW gone, gone \subseteq job.remove,
           objects' = objects \ gone, UNCHANGED <<manifest, record, wanted>>
    PROVE  Listed' = wanted' /\ Hidden' = job.remove
<1>1. record.change = Removal /\ record.files = job.remove
  BY DEF Safe, Phase, RemovingOK
<1>2. manifest # Removal
  BY IdsAssumption, SMT DEF BucketType, Ids
<1>3. Hidden = job.remove /\ Hidden' = job.remove
  BY <1>1, <1>2, SMT DEF Hidden, Unpublished
<1> QED  BY <1>3, SMT DEF Safe, Listed, Hidden

LEMMA RemoveObjectsSafe ==
    ASSUME BucketType, Safe, RemoveObjects
    PROVE  Safe'
<1>1. /\ pc = "removing" /\ pc' = "dropping" /\ objects' = objects \ job.remove
      /\ UNCHANGED <<manifest, record, wanted>>
  BY Zenon DEF RemoveObjects
<1>2. Listed' = wanted' /\ Hidden' = job.remove
  BY <1>1, RemoveSafe, SMT
<1> QED  BY <1>1, <1>2, SMT DEF Safe, Phase, DroppingOK

LEMMA DropRecordSafe ==
    ASSUME BucketType, Safe, DropRecord
    PROVE  Safe'
<1>1. Hidden \intersect objects = {} /\ pc' = "idle" /\ UNCHANGED <<objects, manifest, wanted>>
      /\ record'.files = {}
  BY SMT DEF DropRecord, NoRecord, Safe, Phase, DroppingOK
<1> QED  BY <1>1, SMT DEF Safe, Phase, Listed, Hidden, Unpublished

LEMMA StopSafe ==
    ASSUME BucketType, Safe, Stop, ~slipped'
    PROVE  Safe'
<1>1. Listed' = wanted'
  <2>1. CASE UNCHANGED <<bucketVars, wanted, slipped>>
    BY <2>1, SMT DEF Safe, Listed, Unpublished, bucketVars
  <2>2. CASE Publish
    BY <2>2, PublishSafe
  <2>3. CASE /\ pc = "listed" /\ job.remove # {} /\ PutRemovals
             /\ UNCHANGED <<objects, manifest, slipped>>
    BY <2>3, PutRemovalsSafe, Zenon
  <2>4. CASE /\ pc = "removing" /\ \E gone \in SUBSET job.remove : objects' = objects \ gone
             /\ UNCHANGED <<manifest, record, wanted, slipped>>
    <3>1. PICK gone \in SUBSET job.remove : objects' = objects \ gone
      BY <2>4
    <3> QED  BY <2>4, <3>1, RemoveSafe, Zenon
  <2> QED  BY <2>1, <2>2, <2>3, <2>4, Zenon DEF Stop
<1>2. pc' = "idle"
  BY DEF Stop
<1> QED  BY <1>1, <1>2, SMT DEF Safe, Phase

(* A manifest that slipped stays counted. *)
LEMMA SlippedStays == [Next]_vars /\ slipped => slipped'
<1>1. Stop \/ Publish => (slipped => slipped')
  BY Zenon DEF Stop, Publish, bucketVars
<1>2. Change => (slipped => slipped')
  BY <1>1, Zenon DEF Change, BeginChange, WriteObject, PublishManifest, ListExisting,
     RecordRemovals, NothingToRemove, RemoveObjects, DropRecord
<1>3. List \/ UNCHANGED vars => (slipped => slipped')
  BY ListUnchanged, Zenon DEF vars
<1> QED  BY <1>2, <1>3, Zenon DEF Next

LEMMA ChangeSafe ==
    ASSUME BucketType, Safe, Change, ~slipped'
    PROVE  Safe'
<1>1. CASE \E c \in Changes, kind \in {"apply", "sync"}, adds, dels \in SUBSET Paths :
              BeginChange(c, kind, adds, dels)
  BY <1>1, BeginSafe
<1>2. CASE \E p \in Paths : WriteObject(p)
  BY <1>2, WriteSafe
<1>3. CASE PublishManifest
  BY <1>3, PublishManifestSafe
<1>4. CASE ListExisting
  BY <1>4, ListExistingSafe
<1>5. CASE RecordRemovals
  BY <1>5, RecordRemovalsSafe
<1>6. CASE NothingToRemove
  BY <1>6, NothingToRemoveSafe
<1>7. CASE RemoveObjects
  BY <1>7, RemoveObjectsSafe
<1>8. CASE DropRecord
  BY <1>8, DropRecordSafe
<1>9. CASE Stop
  BY <1>9, StopSafe
<1> QED  BY <1>1, <1>2, <1>3, <1>4, <1>5, <1>6, <1>7, <1>8, <1>9 DEF Change

LEMMA StepSafe == TypeInv /\ (slipped \/ Safe) /\ [Next]_vars => (slipped \/ Safe)'
<1> SUFFICES ASSUME TypeInv, slipped \/ Safe, [Next]_vars, ~slipped'
             PROVE  Safe'
  OBVIOUS
<1>1. BucketType /\ Safe
  BY SlippedStays DEF TypeInv
<1>2. CASE Change
  BY <1>1, <1>2, ChangeSafe
<1>3. CASE UNCHANGED <<objects, manifest, record, pc, job, wanted>>
  BY <1>1, <1>3, SMT DEF Safe, Phase, WritingOK, PublishedOK, ListedOK, RemovingOK, DroppingOK,
     Listed, Hidden, Unpublished
<1> QED  BY <1>2, <1>3, ListUnchanged, Zenon DEF Next, vars

(* What a listing is shown is the published version, at every moment of a     *)
(* change, of a failed one and of the changes after it, until a manifest is   *)
(* published over a record that is not its own.                               *)
THEOREM ListedMatchesManifest == Spec => []ListedIsPublished
<1>1. Init => IInv
  <2>1. Init => Safe
    BY SMT DEF Init, Safe, Phase, Listed, Unpublished, NoRecord
  <2> QED  BY <2>1, InitType DEF TypeInv, IInv
<1>2. IInv /\ [Next]_vars => IInv'
  BY StepType, StepSafe DEF IInv
<1>3. IInv => ListedIsPublished
  BY DEF IInv, Safe, ListedIsPublished
<1> QED  BY <1>1, <1>2, <1>3, PTL DEF Spec

-----------------------------------------------------------------------------
(* Listings.                                                               *)

(* What a listing has read, by the order its caller reads in. *)
HasObjects == listing.step >= IF listing.kind = "restore" THEN 3 ELSE 2
HasManifest ==
    listing.step >= CASE listing.kind = "restore" -> 2
                      [] listing.kind = "discover" -> 3
                      [] OTHER -> 4
HasRecord == listing.step >= IF listing.kind = "entries" THEN 3 ELSE 4

(* A file that a listing read though it was hidden is hidden until it is       *)
(* published, and by a record that the listing will find to be no published   *)
(* change's.                                                                  *)
Awaited(p) ==
    /\ p \in Hidden \intersect objects /\ record.change # Removal /\ listing.pending
    /\ HasManifest => record.change # listing.man
    /\ HasRecord => p \in listing.rec.files /\ listing.rec.change \notin {manifest, NoChange}

Upper ==
    /\ Listed \union (BeingRemoved \intersect objects) \subseteq listing.high
    /\ listing.step # 4 => \A p \in listing.stored : p \in listing.high \/ Awaited(p)
    /\ HasManifest /\ Hidden # {} => record.change # listing.man
    /\ HasManifest \/ listing.man = NoChange
    /\ listing.step = 4 => Result \subseteq listing.high

(* A file listed all the while is named by no record but that of the change    *)
(* whose manifest the listing read.                                           *)
Lower ==
    /\ listing.low \subseteq Listed
    /\ listing.kind # "entries" =>
         /\ HasObjects => listing.low \subseteq listing.stored
         /\ HasManifest => record.change = listing.man \/ listing.low \intersect record.files = {}
         /\ listing.step = 4 => listing.low \subseteq Result

(* Records have an id, and only what has a manifest is listed; what is to be *)
(* removed has been when a change begins, or is in its own record.           *)
Named ==
    /\ record.change = NoChange => record.files = {}
    /\ pc = "writing" /\ record.change = Removal => record.files = {}
    /\ manifest = NoChange => wanted = {}
    /\ listing.man \in used \union {First, NoChange}

ListingOK == Named /\ (listing.step # 0 => Upper /\ Lower)

(* What a step of a change may do to what is hidden, and to the record. *)
Fresh == record'.change \in Changes \ used
Effect ==
    /\ \A p \in Hidden \intersect objects :
         record.change # Removal =>
           \/ p \in Listed'
           \/ /\ p \in (Hidden \intersect objects)' /\ manifest' = manifest
              /\ record'.change # Removal /\ (record' = record \/ Fresh)
    /\ (BeingRemoved \intersect objects)' \subseteq Listed \union (BeingRemoved \intersect objects)
    /\ \/ Hidden' = {} \/ record'.change = Removal \/ Fresh
       \/ Hidden' = Hidden /\ record' = record /\ manifest' = manifest
    /\ record' = record \/ record'.files \intersect Listed' = {}
    /\ record'.change = NoChange => record'.files = {}
    /\ pc' = "writing" /\ record'.change = Removal => record'.files = {}
    /\ manifest' = NoChange => wanted' = {}
    /\ used \subseteq used'

LEMMA BeginEffect ==
    ASSUME BucketType, Safe, Named, NEW c \in Changes, NEW kind \in {"apply", "sync"},
           NEW adds \in SUBSET Paths, NEW dels \in SUBSET Paths,
           BeginChange(c, kind, adds, dels)
    PROVE  Effect
<1> DEFINE new == Recorded(adds, Hidden)
<1>1. /\ c \notin used /\ UNCHANGED <<objects, manifest, wanted>>
      /\ record' = IF new = {} THEN record ELSE [change |-> c, files |-> new]
      /\ used' = used \union {c} /\ pc' = "writing"
  BY DEF BeginChange, Hidden
<1>2. c # manifest /\ c # Removal /\ c # NoChange
  BY <1>1, IdsAssumption, SMT DEF BucketType, IdsKnown
<1>3. CASE new = {}
  <2>1. record' = record /\ Hidden' = Hidden /\ Listed' = Listed
    BY <1>1, <1>3, SMT DEF Hidden, Unpublished, Listed
  <2>2. Hidden = {}
    BY <1>3, SMT DEF Recorded
  <2>3. record.change = Removal => record.files = {}
    BY <2>2, IdsAssumption, SMT DEF Hidden, Unpublished, BucketType, Ids
  <2> QED  BY <1>1, <2>1, <2>2, <2>3, SMT DEF Effect, BeingRemoved, Named
<1>4. CASE new # {}
  <2>1. record'.change = c /\ record'.files = new
    BY <1>1, <1>4, SMT
  <2>2. Hidden' = new /\ Listed' = objects \ new /\ Hidden \subseteq new
    BY <1>1, <1>2, <2>1, SMT DEF Hidden, Unpublished, Listed, Recorded
  <2>3. BeingRemoved' = {} /\ Fresh
    BY <1>1, <1>2, <2>1, SMT DEF BeingRemoved, Fresh
  <2> HIDE DEF new
  <2> QED  BY <1>1, <1>2, <2>1, <2>2, <2>3, SMT DEF Effect, Named
<1> QED  BY <1>3, <1>4

LEMMA PublishEffect ==
    ASSUME BucketType, Safe, Named, Publish, ~slipped', used' = used, pc' # "writing"
    PROVE  Effect
<1>1. /\ Listed' = wanted' /\ Hidden' = {} /\ objects' = objects /\ record' = record
      /\ manifest' = job.id
  BY PublishSafe DEF Publish
<1>2. Listed' = objects
  BY <1>1, SMT DEF Listed, Hidden
<1>3. job.id # NoChange
  BY IdsAssumption, SMT DEF BucketType, IdsKnown, Publish
<1> QED  BY <1>1, <1>2, <1>3, SMT DEF Effect, BeingRemoved, Named

LEMMA PutRemovalsEffect ==
    ASSUME BucketType, Safe, Named, pc = "listed", job.remove # {}, PutRemovals,
           UNCHANGED <<objects, manifest, used>>, pc' # "writing"
    PROVE  Effect
<1>1. Hidden = {} /\ objects = wanted
  BY SMT DEF Safe, Phase, ListedOK, Listed, Hidden
<1>2. Listed' = objects \ job.remove /\ wanted' = wanted \ job.dels
      /\ record'.change = Removal /\ record'.files = job.remove
  BY PutRemovalsSafe, SMT DEF PutRemovals, Listed, Hidden
<1> QED  BY <1>1, <1>2, IdsAssumption, SMT DEF Effect, BeingRemoved, Named, Listed, Hidden

LEMMA RemoveEffect ==
    ASSUME BucketType, Safe, Named, pc = "removing", NEW gone, gone \subseteq job.remove,
           objects' = objects \ gone, UNCHANGED <<manifest, record, wanted, used>>, pc' # "writing"
    PROVE  Effect
<1>1. record.change = Removal
  BY SMT DEF Safe, Phase, RemovingOK
<1> QED  BY <1>1, SMT DEF Effect, BeingRemoved, Named, Hidden, Unpublished

LEMMA WriteEffect ==
    ASSUME BucketType, Safe, Named, NEW p \in Paths, WriteObject(p)
    PROVE  Effect
<1>1. /\ pc = "writing" /\ objects' = objects \union {p}
      /\ UNCHANGED <<manifest, record, wanted, used, pc>>
  BY Zenon DEF WriteObject
<1>2. Hidden' = Hidden
  BY <1>1, SMT DEF Hidden, Unpublished
<1> QED  BY <1>1, <1>2, SMT DEF Effect, BeingRemoved, Named

LEMMA SameEffect ==
    ASSUME Named, UNCHANGED <<objects, manifest, record, wanted, used>>, pc' # "writing"
    PROVE  Effect
  BY SMT DEF Effect, BeingRemoved, Named, Hidden, Unpublished

LEMMA DropEffect ==
    ASSUME BucketType, Safe, Named, DropRecord
    PROVE  Effect
<1>1. /\ Hidden \intersect objects = {} /\ UNCHANGED <<objects, manifest, wanted, used>>
      /\ record' = NoRecord /\ pc' = "idle"
  BY SMT DEF DropRecord, Safe, Phase, DroppingOK
<1>2. record'.change = NoChange /\ record'.files = {}
  BY <1>1, SMT DEF NoRecord
<1>3. BeingRemoved' = {} /\ Hidden' = {}
  BY <1>2, IdsAssumption, SMT DEF BeingRemoved, Hidden, Unpublished
<1> QED  BY <1>1, <1>2, <1>3, SMT DEF Effect, Named

LEMMA StopEffect ==
    ASSUME BucketType, Safe, Named, Stop, ~slipped'
    PROVE  Effect
<1>1. pc' = "idle" /\ used' = used
  BY DEF Stop
<1>2. CASE UNCHANGED <<bucketVars, wanted, slipped>>
  BY <1>1, <1>2, SameEffect, SMT DEF bucketVars
<1>3. CASE Publish
  BY <1>1, <1>3, PublishEffect, SMT
<1>4. CASE /\ pc = "listed" /\ job.remove # {} /\ PutRemovals
           /\ UNCHANGED <<objects, manifest, slipped>>
  BY <1>1, <1>4, PutRemovalsEffect, SMT
<1>5. CASE /\ pc = "removing" /\ \E gone \in SUBSET job.remove : objects' = objects \ gone
           /\ UNCHANGED <<manifest, record, wanted, slipped>>
  <2>1. PICK gone \in SUBSET job.remove : objects' = objects \ gone
    BY <1>5
  <2> QED  BY <1>1, <1>5, <2>1, RemoveEffect, SMT
<1> QED  BY <1>2, <1>3, <1>4, <1>5, Zenon DEF Stop

LEMMA ChangeEffect ==
    ASSUME BucketType, Safe, Named, Change, ~slipped'
    PROVE  Effect /\ Watched
<1>1. CASE \E c \in Changes, kind \in {"apply", "sync"}, adds, dels \in SUBSET Paths :
              BeginChange(c, kind, adds, dels)
  <2>1. PICK c \in Changes, kind \in {"apply", "sync"}, adds \in SUBSET Paths,
             dels \in SUBSET Paths : BeginChange(c, kind, adds, dels)
    BY <1>1
  <2>2. Watched
    BY <2>1, Zenon DEF BeginChange
  <2> QED  BY <2>1, <2>2, BeginEffect
<1>2. CASE \E p \in Paths : WriteObject(p)
  BY <1>2, WriteEffect, Zenon DEF WriteObject
<1>3. CASE PublishManifest
  <2>1. Publish /\ used' = used /\ pc' # "writing" /\ Watched
    BY <1>3, SMT DEF PublishManifest
  <2> QED  BY <2>1, PublishEffect
<1>4. CASE ListExisting
  BY <1>4, SameEffect, SMT DEF ListExisting
<1>5. CASE RecordRemovals
  BY <1>5, PutRemovalsEffect, SMT DEF RecordRemovals
<1>6. CASE NothingToRemove
  BY <1>6, SameEffect, SMT DEF NothingToRemove
<1>7. CASE RemoveObjects
  BY <1>7, RemoveEffect, SMT DEF RemoveObjects
<1>8. CASE DropRecord
  BY <1>8, DropEffect, Zenon DEF DropRecord
<1>9. CASE Stop
  BY <1>9, StopEffect, Zenon DEF Stop
<1> QED  BY <1>1, <1>2, <1>3, <1>4, <1>5, <1>6, <1>7, <1>8, <1>9 DEF Change

(* A listing keeps what it knows while a change goes on.                     *)
LEMMA WatchedFields ==
    ASSUME listing \in Listing, Watched, listing.step # 0
    PROVE  /\ listing'.step = listing.step /\ listing'.kind = listing.kind
           /\ listing'.stored = listing.stored /\ listing'.pending = listing.pending
           /\ listing'.rec = listing.rec /\ listing'.man = listing.man
           /\ listing'.low = listing.low \intersect Listed'
           /\ listing'.high = listing.high \union Listed'
  BY SMT DEF Watched, Listing

LEMMA WatchedKeeps ==
    ASSUME BucketType, Safe, listing \in Listing, Effect, Watched, ListingOK
    PROVE  ListingOK'
<1>1. CASE listing.step = 0
  <2>1. listing' = listing
    BY <1>1, Zenon DEF Watched
  <2> QED  BY <1>1, <2>1, SMT DEF ListingOK, Named, Effect
<1>2. CASE listing.step # 0
  <2> DEFINE l == listing
  <2>1. /\ l'.step = l.step /\ l'.kind = l.kind /\ l'.stored = l.stored /\ l'.pending = l.pending
        /\ l'.rec = l.rec /\ l'.man = l.man
        /\ l'.low = l.low \intersect Listed' /\ l'.high = l.high \union Listed'
    BY <1>2, WatchedFields
  <2>2. HasObjects' = HasObjects /\ HasManifest' = HasManifest /\ HasRecord' = HasRecord
    BY <2>1 DEF HasObjects, HasManifest, HasRecord
  <2>3. Result' = Result
    BY <2>1 DEF Result, Unpublished
  <2>4. Named'
    BY <2>1, SMT DEF ListingOK, Named, Effect
  <2>5. Fresh => record'.change # l.man
    BY IdsAssumption, SMT DEF Fresh, ListingOK, Named
  <2>6. Removal # l.man
    BY IdsAssumption, SMT DEF ListingOK, Named, BucketType
  <2>7. (Listed \union (BeingRemoved \intersect objects))' \subseteq l'.high
    BY <1>2, <2>1, SMT DEF ListingOK, Upper, Effect
  <2>8. ASSUME l'.step # 4, NEW p \in l'.stored PROVE p \in l'.high \/ Awaited(p)'
    <3>1. CASE p \in l.high
      BY <2>1, <3>1
    <3>2. CASE p \in Listed'
      BY <2>1, <3>2
    <3>3. CASE p \notin l.high /\ p \notin Listed'
      <4>1. Awaited(p)
        BY <1>2, <2>1, <2>8, <3>3, SMT DEF ListingOK, Upper
      <4>2. /\ p \in (Hidden \intersect objects)' /\ manifest' = manifest
            /\ record'.change # Removal /\ (record' = record \/ Fresh)
        BY <3>3, <4>1, SMT DEF Awaited, Effect
      <4> QED BY <2>1, <2>2, <2>5, <4>1, <4>2, SMT DEF Awaited
    <3> QED BY <3>1, <3>2, <3>3
  <2>9. HasManifest' /\ Hidden' # {} => record'.change # l'.man
    BY <1>2, <2>1, <2>2, <2>5, <2>6, SMT DEF ListingOK, Upper, Effect
  <2>10. l'.step = 4 => Result' \subseteq l'.high
    BY <1>2, <2>1, <2>3, SMT DEF ListingOK, Upper
  <2>11. Upper'
    <3>1. HasManifest' \/ l'.man = NoChange
      BY <1>2, <2>1, <2>2 DEF ListingOK, Upper
    <3> QED BY <2>7, <2>8, <2>9, <2>10, <3>1 DEF Upper
  <2>12. Lower'
    <3>1. Lower
      BY <1>2 DEF ListingOK
    <3>2. record' = record \/ record'.files \intersect Listed' = {}
      BY DEF Effect
    <3> QED BY <2>1, <2>2, <2>3, <3>1, <3>2, SMT DEF Lower
  <2> QED BY <2>4, <2>11, <2>12 DEF ListingOK
<1> QED  BY <1>1, <1>2

(* When each is read.                                                        *)
LEMMA ReadWhen ==
    ASSUME listing \in Listing, listing.step \in 1..3
    PROVE  /\ Reads(listing.kind, listing.step) = "objects" =>
                listing.step = IF listing.kind = "restore" THEN 2 ELSE 1
           /\ Reads(listing.kind, listing.step) = "record" =>
                listing.step = IF listing.kind = "entries" THEN 2 ELSE 3
           /\ Reads(listing.kind, listing.step) = "manifest" =>
                listing.step = CASE listing.kind = "restore" -> 1
                                 [] listing.kind = "discover" -> 2
                                 [] OTHER -> 3
           /\ listing.kind \in Kinds
<1>1. listing.step = 1 \/ listing.step = 2 \/ listing.step = 3
  BY SMT
<1>2. listing.kind \in Kinds
  BY SMT DEF Listing
<1> QED  BY <1>1, <1>2, SMT DEF Reads, Kinds

LEMMA ReadObjectsKeeps ==
    ASSUME BucketType, Safe, listing \in Listing, ListingOK, listing.step \in 1..3, ReadObjects,
           UNCHANGED <<objects, manifest, record, used, pc, wanted>>
    PROVE  ListingOK'
<1> DEFINE l == listing
           stored == IF l.kind = "discover" /\ manifest = NoChange THEN {} ELSE objects
<1>1. /\ l.step = IF l.kind = "restore" THEN 2 ELSE 1
      /\ l.kind \in {"restore", "discover", "entries"}
  BY ReadWhen DEF ReadObjects, Kinds
<1>2. l' = [l EXCEPT !.step = l.step + 1, !.pending = (record # NoRecord), !.stored = stored]
  BY Zenon DEF ReadObjects
<1>3. /\ l'.step = l.step + 1 /\ l'.kind = l.kind /\ l'.pending = (record # NoRecord)
      /\ l'.stored = stored /\ l'.man = l.man /\ l'.low = l.low /\ l'.high = l.high
  BY <1>2, SMT DEF Listing
<1>4. Named /\ Upper /\ Lower
  BY <1>1, SMT DEF ListingOK
<1>5. Hidden' = Hidden /\ Listed' = Listed /\ BeingRemoved' = BeingRemoved
  BY DEF Hidden, Listed, BeingRemoved
<1>6. (HasManifest' <=> HasManifest) /\ ~HasRecord' /\ HasObjects'
  BY <1>1, <1>3, SMT DEF HasManifest, HasRecord, HasObjects
<1>7. stored \subseteq objects /\ l.low \subseteq stored
  BY <1>4, SMT DEF Named, Lower, Listed, Safe
<1>8. ASSUME NEW p \in stored, p \notin l.high PROVE Awaited(p)'
  <2>1. p \in objects /\ p \in Hidden /\ record.change # Removal
    BY <1>4, <1>7, <1>8, SMT DEF Upper, Listed, Hidden, BeingRemoved, Unpublished
  <2>2. record # NoRecord
    BY <2>1, SMT DEF Hidden, Unpublished, NoRecord
  <2>3. HasManifest => record.change # l.man
    BY <1>4, <2>1 DEF Upper
  <2>4. l'.pending
    BY <1>3, <2>2
  <2>5. p \in (Hidden \intersect objects)' /\ record'.change # Removal /\ l'.man = l.man
    BY <1>3, <1>5, <2>1
  <2>6. HasManifest' => record'.change # l'.man
    BY <1>6, <2>3, <2>5
  <2> QED BY <1>6, <2>4, <2>5, <2>6 DEF Awaited
<1>9. l'.step # 4
  BY <1>1, <1>3, SMT
<1>10. Upper'
  <2> HIDE DEF stored
  <2> QED BY <1>3, <1>4, <1>5, <1>6, <1>8, <1>9, SMT DEF Upper
<1>11. Lower'
  <2> HIDE DEF stored
  <2> QED BY <1>3, <1>4, <1>5, <1>6, <1>7, <1>9, SMT DEF Lower
<1> QED  BY <1>3, <1>4, <1>10, <1>11 DEF ListingOK, Named

LEMMA ReadRecordKeeps ==
    ASSUME BucketType, Safe, listing \in Listing, ListingOK, listing.step \in 1..3, ReadRecord,
           UNCHANGED <<objects, manifest, record, used, pc, wanted>>
    PROVE  ListingOK'
<1> DEFINE l == listing
<1>1. /\ l.step = IF l.kind = "entries" THEN 2 ELSE 3
      /\ l.kind \in {"restore", "discover", "entries"}
  BY ReadWhen DEF ReadRecord, Kinds
<1>2. l' = [l EXCEPT !.step = l.step + 1, !.rec = record]
  BY Zenon DEF ReadRecord
<1>3. /\ l'.step = l.step + 1 /\ l'.kind = l.kind /\ l'.pending = l.pending /\ l'.rec = record
      /\ l'.stored = l.stored /\ l'.man = l.man /\ l'.low = l.low /\ l'.high = l.high
  BY <1>2, SMT DEF Listing
<1>4. Named /\ Upper /\ Lower
  BY <1>1, SMT DEF ListingOK
<1>5. Hidden' = Hidden /\ Listed' = Listed /\ BeingRemoved' = BeingRemoved
  BY DEF Hidden, Listed, BeingRemoved
<1>6. /\ HasManifest' <=> HasManifest
      /\ HasManifest <=> l.kind # "entries"
      /\ HasObjects' /\ HasObjects
      /\ l'.step = 4 <=> l.kind # "entries"
  BY <1>1, <1>3, SMT DEF HasManifest, HasObjects
<1>7. \A p \in l.stored : p \in l.high \/ Awaited(p)
  BY <1>1, <1>4, SMT DEF Upper
<1>8. \A p : Awaited(p) => p \in record.files /\ record.change \notin {manifest, NoChange}
  BY <1>4, SMT DEF Awaited, Hidden, Unpublished, Named
<1>9. ASSUME l.kind = "entries", NEW p \in l.stored, p \notin l.high PROVE Awaited(p)'
  <2>1. Awaited(p) /\ ~HasManifest'
    BY <1>6, <1>7, <1>9
  <2>2. p \in record.files /\ record.change \notin {manifest, NoChange}
    BY <1>8, <2>1
  <2>3. p \in (Hidden \intersect objects)' /\ record'.change # Removal /\ l'.pending
    BY <1>3, <1>5, <2>1 DEF Awaited
  <2>4. listing'.rec = record /\ manifest' = manifest
    BY <1>3
  <2>5. p \in listing'.rec.files /\ listing'.rec.change \notin {manifest', NoChange}
    BY <2>2, <2>4
  <2> QED BY <2>1, <2>3, <2>5 DEF Awaited
<1>10. Result' = l.stored \ (IF l.pending THEN Unpublished(record, l.man) ELSE {})
  BY <1>3 DEF Result, Unpublished
<1>11. ASSUME l.kind # "entries", NEW p \in Result' PROVE p \in l.high
  <2>1. p \in l.stored /\ (l.pending => p \notin Unpublished(record, l.man))
    BY <1>10, <1>11
  <2>2. ~Awaited(p)
    BY <1>6, <1>8, <1>11, <2>1, SMT DEF Awaited, Unpublished
  <2> QED BY <1>7, <2>1, <2>2
<1>12. l.kind # "entries" => l.low \subseteq Result'
  BY <1>4, <1>6, <1>10, SMT DEF Lower, Unpublished
<1>13. Upper'
  BY <1>3, <1>4, <1>5, <1>6, <1>9, <1>11, SMT DEF Upper
<1>14. Lower'
  BY <1>3, <1>4, <1>5, <1>6, <1>12, SMT DEF Lower
<1> QED  BY <1>3, <1>4, <1>13, <1>14 DEF ListingOK, Named

LEMMA ReadManifestKeeps ==
    ASSUME BucketType, Safe, listing \in Listing, ListingOK, listing.step \in 1..3, ReadManifest,
           UNCHANGED <<objects, manifest, record, used, pc, wanted>>
    PROVE  ListingOK'
<1> DEFINE l == listing
<1>1. /\ l.step = CASE l.kind = "restore" -> 1 [] l.kind = "discover" -> 2 [] OTHER -> 3
      /\ l.kind \in {"restore", "discover", "entries"}
  BY ReadWhen DEF ReadManifest, Kinds
<1>2. \/ l' = [l EXCEPT !.step = l.step + 1, !.man = manifest]
      \/ l' = [l EXCEPT !.step = l.step + 1] /\ l.kind = "entries"
  BY Zenon DEF ReadManifest
<1>3. /\ l'.step = l.step + 1 /\ l'.kind = l.kind /\ l'.pending = l.pending /\ l'.rec = l.rec
      /\ l'.stored = l.stored /\ l'.low = l.low /\ l'.high = l.high
      /\ l'.man = manifest \/ (l'.man = l.man /\ l.kind = "entries")
  <2>1. CASE l' = [l EXCEPT !.step = l.step + 1, !.man = manifest]
    BY <2>1, SMT DEF Listing
  <2>2. CASE l' = [l EXCEPT !.step = l.step + 1] /\ l.kind = "entries"
    BY <2>2, SMT DEF Listing
  <2> QED BY <1>2, <2>1, <2>2
<1>4. Named /\ Upper /\ Lower
  BY <1>1, SMT DEF ListingOK
<1>5. Hidden' = Hidden /\ Listed' = Listed /\ BeingRemoved' = BeingRemoved
  BY DEF Hidden, Listed, BeingRemoved
<1>6. /\ HasManifest' /\ (HasRecord' <=> HasRecord) /\ (HasRecord <=> l.kind = "entries")
      /\ HasObjects' <=> HasObjects
      /\ l'.step = 4 <=> l.kind = "entries"
  BY <1>1, <1>3, SMT DEF HasManifest, HasRecord, HasObjects
<1>7. \A p \in l.stored : p \in l.high \/ Awaited(p)
  BY <1>1, <1>4, SMT DEF Upper
<1>8. Named'
  BY <1>3, <1>4, SMT DEF Named, BucketType, IdsKnown

<1>9. ASSUME l.kind # "entries", NEW p \in l.stored, p \notin l.high PROVE Awaited(p)'
  <2>1. Awaited(p) /\ l'.man = manifest
    BY <1>3, <1>7, <1>9
  <2>2. record.change # manifest
    BY <2>1, SMT DEF Awaited, Hidden, Unpublished
  <2> QED BY <1>3, <1>5, <1>6, <1>9, <2>1, <2>2, SMT DEF Awaited
<1>10. HasManifest' /\ Hidden' # {} => record'.change # l'.man
  BY <1>3, <1>4, <1>5, <1>6, SMT DEF Upper, Named, Hidden, Unpublished
<1>11. Result' = l.stored \ (IF l.pending THEN Unpublished(l.rec, l'.man) ELSE {})
  BY <1>3 DEF Result, Unpublished
<1>12. ASSUME l.kind = "entries", NEW p \in Result' PROVE p \in l.high
  <2>1. p \in l.stored /\ (l.pending => p \notin Unpublished(l.rec, l'.man))
    BY <1>11, <1>12
  <2>2. l'.man \in {manifest, NoChange}
    BY <1>1, <1>3, <1>4, <1>6, <1>12, SMT DEF Upper, HasManifest
  <2>3. ~Awaited(p)
    BY <1>6, <1>12, <2>1, <2>2, SMT DEF Awaited, Unpublished
  <2> QED BY <1>7, <2>1, <2>3
<1>13. l.kind # "entries" => l'.man = record.change \/ l.low \intersect record.files = {}
  BY <1>3, <1>4, SMT DEF Lower, Listed, Unpublished
<1>14. Upper'
  BY <1>3, <1>4, <1>5, <1>6, <1>9, <1>10, <1>12, SMT DEF Upper
<1>15. Lower'
  BY <1>3, <1>4, <1>5, <1>6, <1>13, SMT DEF Lower
<1> QED  BY <1>3, <1>8, <1>14, <1>15 DEF ListingOK

LEMMA BeginListingKeeps ==
    ASSUME BucketType, Safe, ListingOK, NEW kind \in Kinds, BeginListing(kind)
    PROVE  ListingOK'
<1>1. /\ listing' = [NoListing EXCEPT !.step = 1, !.kind = kind, !.low = Listed,
                                      !.high = Listed \union BeingRemoved]
      /\ UNCHANGED <<objects, manifest, record, used, pc, wanted>>
  BY Zenon DEF BeginListing, bucketVars
<1>2. /\ listing'.step = 1 /\ listing'.kind = kind /\ listing'.low = Listed
      /\ listing'.high = Listed \union BeingRemoved
      /\ listing'.stored = {} /\ listing'.man = NoChange
  BY <1>1, SMT DEF NoListing
<1>3. Listed' = Listed /\ BeingRemoved' = BeingRemoved
  BY <1>1 DEF Listed, BeingRemoved
<1>4. ~HasObjects' /\ ~HasManifest'
  BY <1>2, SMT DEF HasObjects, HasManifest, Kinds
<1>5. Upper' /\ Lower'
  BY <1>1, <1>2, <1>3, <1>4, SMT DEF Upper, Lower
<1> QED  BY <1>1, <1>2, <1>5, SMT DEF ListingOK, Named

LEMMA ListKeeps ==
    ASSUME BucketType, Safe, listing \in Listing, ListingOK, List
    PROVE  ListingOK'
<1>1. CASE \E kind \in Kinds : BeginListing(kind)
  BY <1>1, BeginListingKeeps
<1>2. CASE Look
  <2>1. listing.step \in 1..3 /\ UNCHANGED <<objects, manifest, record, used, pc, wanted>>
    BY <1>2, Zenon DEF Look, bucketVars
  <2> QED  BY <1>2, <2>1, ReadObjectsKeeps, ReadRecordKeeps, ReadManifestKeeps, Zenon DEF Look
<1>3. CASE EndListing
  <2>1. listing' = NoListing /\ UNCHANGED <<objects, manifest, record, used, pc, wanted>>
    BY <1>3, Zenon DEF EndListing, bucketVars
  <2>2. listing'.step = 0 /\ listing'.man = NoChange
    BY <2>1, SMT DEF NoListing
  <2> QED  BY <2>1, <2>2, SMT DEF ListingOK, Named
<1> QED  BY <1>1, <1>2, <1>3 DEF List

FullInv == TypeInv /\ (slipped \/ (Safe /\ ListingOK))

LEMMA FullInvStarts == Init => FullInv
<1> SUFFICES ASSUME Init PROVE FullInv
  OBVIOUS
<1>1. TypeInv
  BY InitType DEF TypeInv
<1>2. Safe
  BY SMT DEF Init, Safe, Phase, Listed, Unpublished, NoRecord
<1>3. ListingOK
  BY IdsAssumption, SMT DEF Init, ListingOK, Named, NoListing, NoRecord
<1> QED  BY <1>1, <1>2, <1>3 DEF FullInv

LEMMA FullInvKept == FullInv /\ [Next]_vars => FullInv'
<1> SUFFICES ASSUME FullInv, [Next]_vars PROVE FullInv'
  OBVIOUS
<1>1. TypeInv'
  BY StepType DEF FullInv
<1>2. ASSUME ~slipped' PROVE Safe' /\ ListingOK'
  <2>1. BucketType /\ Safe /\ ListingOK /\ Named /\ listing \in Listing
    BY <1>2, SlippedStays DEF FullInv, TypeInv, ListingOK
  <2>2. Safe'
    BY <1>2, <2>1, StepSafe DEF FullInv
  <2>3. CASE Change
    BY <1>2, <2>1, <2>2, <2>3, ChangeEffect, WatchedKeeps
  <2>4. CASE List
    BY <2>1, <2>2, <2>4, ListKeeps
  <2>5. CASE UNCHANGED vars
    BY <2>1, <2>2, <2>5, SMT DEF vars, ListingOK, Named, Upper, Lower, Awaited, HasObjects, HasManifest,
       HasRecord, Hidden, Listed, BeingRemoved, Result, Unpublished
  <2> QED  BY <2>2, <2>3, <2>4, <2>5 DEF Next
<1> QED  BY <1>1, <1>2 DEF FullInv

(* Whatever changes, failures and crashes a listing overlaps, it shows only   *)
(* files the repository held while it ran, or whose removal was under way     *)
(* when it began: a listing of several requests that pairs old objects with   *)
(* a new record or manifest brings nothing to light (storage.py:              *)
(* _repository_objects, restore_repository, discover_repositories).           *)
THEOREM ListingsTrue == Spec => []ListingsShowPublished
<1>1. FullInv => ListingsShowPublished
  BY SMT DEF FullInv, ListingOK, Upper, ListingsShowPublished
<1> QED  BY <1>1, FullInvStarts, FullInvKept, PTL DEF Spec

(* And it misses no file that was in the repository all the while, unless it  *)
(* reads the manifest last.                                                   *)
THEOREM ListingsMissNothing == Spec => []ListingsComplete
<1>1. FullInv => ListingsComplete
  BY SMT DEF FullInv, ListingOK, Lower, ListingsComplete
<1> QED  BY <1>1, FullInvStarts, FullInvKept, PTL DEF Spec
=============================================================================
