------------------------- MODULE StorageMove_proofs -------------------------
(***************************************************************************)
(* Proofs about StorageMove, for any buckets, moves, readers, requests,    *)
(* link lifetime and number of faults: the variables keep their types, and *)
(* the place the row names always holds the whole model.                   *)
(*                                                                         *)
(* Available is not inductive.  What makes it so is Safe: at most one move *)
(* is active, and its status and the worker's place in the code tell where *)
(* the row points and which copies are whole.                              *)
(***************************************************************************)
EXTENDS StorageMove, TLAPS

(* The thread has a move exactly while it is not at the top of its loop. *)
WorkerHasMove ==
    /\ at = "loop" <=> cur = NoMove
    /\ ~up => at = "loop"

(* A start request goes somewhere else. *)
StartsElsewhere ==
    \A q \in Requests : starting[q] # NoRequest => starting[q].src # starting[q].dst

OneActive == \A m, n \in Moves : Active(m) /\ Active(n) => m = n

(* What the row of a move says about the model. *)
QueuedFits(m) ==
    mv[m].status = "queued" =>
        /\ row.place = mv[m].src
        /\ mv[m].dst \in Remotes => bytes[mv[m].dst] = "none" /\ mv[m].dst \notin manifest
StatusFits(m) ==
    /\ mv[m].status \in Unfinished => mv[m].src # mv[m].dst
    /\ QueuedFits(m)
    /\ mv[m].status \in {"copying", "verifying"} => row.place = mv[m].src
    /\ mv[m].status = "switching" => row.place \in {mv[m].src, mv[m].dst}
    /\ mv[m].status \in PostSwitch => row.place = mv[m].dst

(* What the worker's place in the code says about the move it works on. *)
Writing == {"picked", "copying", "copied", "verifying", "verified", "switching"}
WorkFits(m) ==
    /\ mv[m].src # mv[m].dst
    /\ at \in BeforeLocation => row.place = mv[m].src
    /\ at \in BeforeLocation \ {"picked"} => listed = "full" /\ mv[m].status # "queued"
    /\ at \in {"switching", "published", "swapped", "placed"} =>
          mv[m].status \notin {"copying", "verifying"}
    /\ at \in Writing /\ mv[m].dst \in Remotes => mv[m].dst \notin manifest
    /\ at \in {"verified", "switching"} => CopyOf(m) = "full"
    /\ at = "published" => mv[m].dst \in Remotes /\ bytes[mv[m].dst] = "full"
    /\ at = "swapped" => mv[m].dst = Local /\ staging[m] = "full"
    /\ at = "placed" => mv[m].dst = Local /\ bytes[Local] = "full"
    /\ at \in AfterLocation \union Finishing => row.place = mv[m].dst
    /\ at \in Undoing => row.place \in {mv[m].src, mv[m].dst}
    /\ at = "uncache" => mv[m].src = Local

Safe ==
    /\ OneActive
    /\ \A m \in Moves : StatusFits(m)
    /\ \A m \in Moves : cur = m => WorkFits(m)
    /\ bytes[row.place] = "full"
    /\ \A p \in manifest : bytes[p] = "full"

IInv ==
    /\ TypeOK
    /\ WorkerHasMove
    /\ StartsElsewhere
    /\ Orderly => Safe

-----------------------------------------------------------------------------
(* Types.                                                                  *)

(* A countdown stays within its bound. *)
LEMMA DecreaseType == \A n \in 0..TTL : Decrease(n) \in 0..TTL
  BY PlacesAssumption, SMT DEF Decrease

LEMMA FaultType == faults \in Nat /\ Fault => faults' \in Nat
  BY SMT DEF Fault

(* Setting the status of a move leaves a row of moves. *)
LEMMA StatusType ==
    ASSUME mv \in [Moves -> MoveRow], NEW m \in Moves, NEW s \in Statuses, SetStatus(m, s)
    PROVE  mv' \in [Moves -> MoveRow]
  BY SMT DEF SetStatus, MoveRow

LEMMA InitType == Init => TypeOK
<1> SUFFICES ASSUME Init PROVE TypeOK
  OBVIOUS
<1> USE PlacesAssumption DEF Init
<1>1. row \in Row
  OBVIOUS
<1>2. bytes \in [Places -> Copies] /\ staging \in [Moves -> Copies]
  BY SMT DEF Copies
<1>3. manifest \subseteq Remotes
  BY SMT
<1>4. mv \in [Moves -> MoveRow]
  BY SMT DEF MoveRow, Statuses, Places
<1>5. waitLeft \in [Moves -> 0..TTL] /\ linkLeft \in [Remotes -> 0..TTL]
  BY SMT
<1>6. rd \in [Readers -> Reader]
  BY SMT DEF Reader, Idle, Places
<1>7. /\ starting \in [Requests -> StartReq \union {NoRequest}]
      /\ cancelling \in [Requests -> CancelReq \union {NoRequest}]
  BY SMT
<1>8. at \in WorkerPlaces /\ cur \in Moves \union {NoMove} /\ listed \in Copies
  BY SMT DEF WorkerPlaces, Copies
<1>9. /\ cancelled \subseteq Moves /\ stale \subseteq Readers
      /\ oldReads \in [Moves -> SUBSET Readers]
  BY SMT
<1>10. /\ held \in BOOLEAN /\ up \in BOOLEAN /\ removing \in BOOLEAN
       /\ resolves \in BOOLEAN /\ overlap \in BOOLEAN
  BY Zenon
<1>11. faults \in Nat
  BY SMT
<1> QED
  BY <1>1, <1>2, <1>3, <1>4, <1>5, <1>6, <1>7, <1>8, <1>9, <1>10, <1>11, Zenon DEF TypeOK

LEMMA RequestType == TypeOK /\ Request => TypeOK'
<1> SUFFICES ASSUME TypeOK, Request PROVE TypeOK'
  OBVIOUS
<1> USE DEF TypeOK, dataVars, workVars, memVars, readVars
<1> PICK q \in Requests :
        \/ \E dst \in Places, keep \in BOOLEAN : StartCheck(q, dst, keep)
        \/ \E m \in Moves : StartCreate(q, m) \/ CancelRead(q, m)
        \/ CancelApply(q)
  BY DEF Request
<1>1. ASSUME NEW dst \in Places, NEW keep \in BOOLEAN, StartCheck(q, dst, keep)
      PROVE  TypeOK'
  BY <1>1, SMT DEF StartCheck, StartReq, Row
<1>2. ASSUME NEW m \in Moves, StartCreate(q, m) PROVE TypeOK'
  BY <1>2, SMT DEF StartCreate, StartReq, NoRequest, MoveRow, Statuses, Unfinished, PreSwitch
<1>3. ASSUME NEW m \in Moves, CancelRead(q, m) PROVE TypeOK'
  BY <1>3, SMT DEF CancelRead, CancelReq
<1>4. ASSUME CancelApply(q) PROVE TypeOK'
  BY <1>4, SMT DEF CancelApply, CancelReq, NoRequest, MoveRow, Statuses, Ended
<1> QED
  BY <1>1, <1>2, <1>3, <1>4

LEMMA LoopType == TypeOK /\ Loop => TypeOK'
<1> SUFFICES ASSUME TypeOK, NEW m \in Moves, Pick(m) \/ BeginRemoval(m) \/ WaitAgain(m)
             PROVE  TypeOK'
  BY DEF Loop
<1> USE DEF TypeOK, dataVars, workVars, memVars, reqVars, readVars, WorkerUnchanged
<1>1. CASE Pick(m)
  BY <1>1, SMT DEF Pick, WorkerPlaces, BeforeLocation
<1>2. CASE BeginRemoval(m)
  <2>1. mv' \in [Moves -> MoveRow]
    BY <1>2, StatusType DEF BeginRemoval, Statuses, Unfinished, PostSwitch
  <2> QED
    BY <1>2, <2>1, SMT DEF BeginRemoval, WorkerPlaces, Finishing
<1>3. CASE WaitAgain(m)
  <2>1. mv' \in [Moves -> MoveRow]
    BY <1>3, StatusType DEF WaitAgain, Statuses, Unfinished, PostSwitch
  <2> QED
    BY <1>3, <2>1, SMT DEF WaitAgain
<1> QED
  BY <1>1, <1>2, <1>3

(* The worker's steps are those of a thread that has a move. *)
LEMMA RunType == TypeOK /\ WorkerHasMove /\ Run => TypeOK'
<1> SUFFICES ASSUME TypeOK, WorkerHasMove, Run PROVE TypeOK'
  OBVIOUS
<1> USE DEF TypeOK, dataVars, memVars, reqVars, readVars, WorkerUnchanged
<1>0. at # "loop" => cur \in Moves
  BY DEF WorkerHasMove
<1>1. CASE BeginCopy
  <2>1. mv' \in [Moves -> MoveRow]
    BY <1>0, <1>1, StatusType DEF BeginCopy, Statuses, Unfinished, PreSwitch
  <2>2. bytes' \in [Places -> Copies] /\ staging' \in [Moves -> Copies]
    BY <1>0, <1>1, SMT DEF BeginCopy, WriteCopy, Copies
  <2>3. listed' \in Copies
    BY <1>0, <1>1, SMT DEF BeginCopy, MoveRow
  <2> QED
    BY <1>1, <2>1, <2>2, <2>3, SMT DEF BeginCopy, WorkerPlaces, BeforeLocation
<1>2. CASE CopyFiles
  <2>1. bytes' \in [Places -> Copies] /\ staging' \in [Moves -> Copies]
    BY <1>0, <1>2, SMT DEF CopyFiles, WriteCopy, Copies
  <2>2. faults' \in Nat
    BY <1>2, FaultType, SMT DEF CopyFiles
  <2> QED
    BY <1>2, <2>1, <2>2, SMT DEF CopyFiles, WorkerPlaces, BeforeLocation
<1>3. CASE BeginVerify
  <2>1. mv' \in [Moves -> MoveRow]
    BY <1>0, <1>3, StatusType DEF BeginVerify, Statuses, Unfinished, PreSwitch
  <2> QED
    BY <1>3, <2>1, SMT DEF BeginVerify, WorkerPlaces, BeforeLocation
<1>4. CASE VerifyCopy
  BY <1>4, SMT DEF VerifyCopy, WorkerPlaces, BeforeLocation
<1>5. CASE BeginSwitch
  <2>1. mv' \in [Moves -> MoveRow]
    BY <1>0, <1>5, StatusType DEF BeginSwitch, Statuses, Unfinished, PreSwitch
  <2> QED
    BY <1>5, <2>1, SMT DEF BeginSwitch, WorkerPlaces, BeforeLocation
<1>6. CASE Publish
  BY <1>0, <1>6, SMT DEF Publish, WorkerPlaces, BeforeLocation
<1>7. CASE SwapAside
  <2>0. \A r \in Readers, b \in BOOLEAN : [rd[r] EXCEPT !.aside = b] \in Reader
    BY SMT DEF Reader
  <2>1. \A r \in Readers : [rd[r] EXCEPT !.aside = TRUE] \in Reader
    BY <2>0, Zenon
  <2>4. rd' \in [Readers -> Reader]
    BY <1>7, <2>1, SMT DEF SwapAside
  <2>2. bytes' \in [Places -> Copies]
    BY <1>7, SMT DEF SwapAside, Copies, Places
  <2>3. resolves' \in BOOLEAN
    BY <1>7, Zenon DEF SwapAside
  <2> QED
    BY <1>7, <2>2, <2>3, <2>4, SMT DEF SwapAside, WorkerPlaces, BeforeLocation
<1>8. CASE SwapIn
  <2>1. bytes' \in [Places -> Copies] /\ staging' \in [Moves -> Copies]
    BY <1>0, <1>8, SMT DEF SwapIn, Copies, Places
  <2>2. resolves' \in BOOLEAN
    BY <1>8, Zenon DEF SwapIn
  <2> QED
    BY <1>8, <2>1, <2>2, SMT DEF SwapIn, WorkerPlaces, BeforeLocation
<1>9. CASE SetLocation
  <2>1. row' \in Row
    BY <1>0, <1>9, SMT DEF SetLocation, Row, MoveRow
  <2>2. resolves' \in BOOLEAN
    BY <1>9, Zenon DEF SetLocation
  <2> QED
    BY <1>9, <2>1, <2>2, SMT DEF SetLocation, WorkerPlaces, AfterLocation
<1>10. CASE DeleteSourceManifest
  BY <1>10, SMT DEF DeleteSourceManifest, WorkerPlaces, AfterLocation
<1>11. CASE RelabelSwitched
  <2>1. resolves' \in BOOLEAN /\ faults' \in Nat
    BY <1>11, FaultType, SMT DEF RelabelSwitched, Relabel
  <2> QED
    BY <1>11, <2>1, SMT DEF RelabelSwitched, WorkerPlaces, AfterLocation
<1>12. CASE BeginDrain
  <2>4. \A x \in MoveRow, s \in Statuses : [x EXCEPT !.status = s] \in MoveRow
    BY SMT DEF MoveRow
  <2>7. \A x \in MoveRow, b \in BOOLEAN : [x EXCEPT !.switchedAt = b] \in MoveRow
    BY SMT DEF MoveRow
  <2>8. "draining" \in Statuses
    BY DEF Statuses, Unfinished, PostSwitch
  <2>5. cur \in Moves /\ mv[cur] \in MoveRow
    BY <1>0, <1>12, Zenon DEF BeginDrain
  <2>6. [mv[cur] EXCEPT !.status = "draining", !.switchedAt = TRUE] \in MoveRow
    <3>1. [mv[cur] EXCEPT !.status = "draining", !.switchedAt = TRUE]
            = [[mv[cur] EXCEPT !.status = "draining"] EXCEPT !.switchedAt = TRUE]
      BY Zenon
    <3> QED
      BY <2>4, <2>5, <2>7, <2>8, <3>1, Zenon
  <2>1. mv' \in [Moves -> MoveRow]
    BY <1>12, <2>5, <2>6, Zenon DEF BeginDrain
  <2>2. waitLeft' \in [Moves -> 0..TTL]
    BY <1>0, <1>12, PlacesAssumption, SMT DEF BeginDrain
  <2>3. oldReads' \in [Moves -> SUBSET Readers]
    BY <1>0, <1>12, SMT DEF BeginDrain, Leased
  <2> QED
    BY <1>12, <2>1, <2>2, <2>3, SMT DEF BeginDrain, BackToLoop, WorkerPlaces, Copies
<1>13. CASE RunRaises
  <2>1. faults' \in Nat
    BY <1>13, FaultType, SMT DEF RunRaises
  <2> QED
    BY <1>13, <2>1, SMT DEF RunRaises, WorkerPlaces, Undoing
<1>14. CASE UndoCopy
  <2>1. /\ bytes' \in [Places -> Copies] /\ staging' \in [Moves -> Copies]
        /\ manifest' \subseteq Remotes /\ faults' \in Nat
    BY <1>0, <1>14, FaultType, SMT DEF UndoCopy, DiscardCopy, DeleteBucket, Copies
  <2> QED
    BY <1>14, <2>1, SMT DEF UndoCopy, WorkerPlaces, Undoing
<1>15. CASE EndRun
  <2>1. mv' \in [Moves -> MoveRow]
    BY <1>0, <1>15, StatusType DEF EndRun, Statuses, Ended
  <2> QED
    BY <1>15, <2>1, SMT DEF EndRun, BackToLoop, WorkerPlaces, Copies
<1> QED
  BY <1>1, <1>2, <1>3, <1>4, <1>5, <1>6, <1>7, <1>8, <1>9, <1>10, <1>11, <1>12,
     <1>13, <1>14, <1>15 DEF Run

LEMMA FinishType == TypeOK /\ WorkerHasMove /\ Finish => TypeOK'
<1> SUFFICES ASSUME TypeOK, WorkerHasMove, Finish PROVE TypeOK'
  OBVIOUS
<1> USE DEF TypeOK, dataVars, memVars, reqVars, readVars, WorkerUnchanged
<1>0. at # "loop" => cur \in Moves
  BY DEF WorkerHasMove
<1>f. "failed" \in Statuses /\ "done" \in Statuses
  BY DEF Statuses, Ended
<1>1. CASE RemoveFromBucket
  <2>1. /\ bytes' \in [Places -> Copies] /\ manifest' \subseteq Remotes
        /\ faults' \in Nat
    BY <1>0, <1>1, FaultType, SMT DEF RemoveFromBucket, DeleteBucket, Copies
  <2>2. mv' \in [Moves -> MoveRow]
    BY <1>0, <1>f, <1>1, StatusType DEF RemoveFromBucket
  <2> QED
    BY <1>1, <2>1, <2>2, SMT DEF RemoveFromBucket, WorkerPlaces, Finishing
<1>2. CASE RemoveLocal
  <2>1. bytes' \in [Places -> Copies] /\ faults' \in Nat
    BY <1>0, <1>2, FaultType, SMT DEF RemoveLocal, Copies
  <2>2. mv' \in [Moves -> MoveRow]
    BY <1>0, <1>f, <1>2, StatusType DEF RemoveLocal
  <2>3. resolves' \in BOOLEAN
    BY <1>2, Zenon DEF RemoveLocal
  <2> QED
    BY <1>2, <2>1, <2>2, <2>3, SMT DEF RemoveLocal, WorkerPlaces, Finishing
<1>3. CASE Uncache
  <2>1. row' \in Row
    BY <1>0, <1>3, SMT DEF Uncache, Row, MoveRow
  <2> QED
    BY <1>3, <2>1, SMT DEF Uncache, WorkerPlaces, Finishing
<1>4. CASE NothingToRemove
  BY <1>4, SMT DEF NothingToRemove, WorkerPlaces, Finishing
<1>5. CASE RelabelRemoved
  <2>1. resolves' \in BOOLEAN /\ faults' \in Nat
    BY <1>5, FaultType, SMT DEF RelabelRemoved, Relabel
  <2>2. staging' \in [Moves -> Copies]
    BY <1>0, <1>5, SMT DEF RelabelRemoved, Copies
  <2>3. removing' \in BOOLEAN
    BY <1>5, Zenon DEF RelabelRemoved
  <2> QED
    BY <1>5, <2>1, <2>2, <2>3, SMT DEF RelabelRemoved, WorkerPlaces, Finishing
<1>6. CASE RelabelRaises
  <2>1. mv' \in [Moves -> MoveRow]
    BY <1>0, <1>f, <1>6, StatusType DEF RelabelRaises
  <2>2. faults' \in Nat
    BY <1>6, FaultType, SMT DEF RelabelRaises
  <2> QED
    BY <1>6, <2>1, <2>2, SMT DEF RelabelRaises, WorkerPlaces, Finishing
<1>7. CASE EndMove
  <2>1. mv' \in [Moves -> MoveRow]
    BY <1>0, <1>f, <1>7, StatusType DEF EndMove
  <2> QED
    BY <1>7, <2>1, SMT DEF EndMove, BackToLoop, WorkerPlaces, Copies
<1>8. CASE ReleaseAfterFailure
  <2>1. removing' \in BOOLEAN
    BY <1>8, Zenon DEF ReleaseAfterFailure
  <2> QED
    BY <1>8, <2>1, SMT DEF ReleaseAfterFailure, BackToLoop, WorkerPlaces, Copies
<1> QED
  BY <1>1, <1>2, <1>3, <1>4, <1>5, <1>6, <1>7, <1>8 DEF Finish

LEMMA CrashType == TypeOK /\ Crash => TypeOK'
<1> SUFFICES ASSUME TypeOK, Crash PROVE TypeOK'
  OBVIOUS
<1> USE DEF TypeOK
<1>1. bytes' \in [Places -> Copies] /\ manifest' \subseteq Remotes
  BY SMT DEF Crash, Copies
<1>2. rd' \in [Readers -> Reader]
  BY SMT DEF Crash, Reader, Idle, Places
<1>3. faults' \in Nat
  BY FaultType, SMT DEF Crash
<1>4. /\ starting' \in [Requests -> StartReq \union {NoRequest}]
      /\ cancelling' \in [Requests -> CancelReq \union {NoRequest}]
  BY SMT DEF Crash
<1>5. oldReads' \in [Moves -> SUBSET Readers] /\ cancelled' \subseteq Moves
  BY SMT DEF Crash
<1>6. at' \in WorkerPlaces /\ cur' \in Moves \union {NoMove} /\ listed' \in Copies
  BY SMT DEF Crash, BackToLoop, WorkerPlaces, Copies
<1>7. removing' \in BOOLEAN /\ up' \in BOOLEAN /\ held' \in BOOLEAN
  BY Zenon DEF Crash, BackToLoop
<1>8. stale' \subseteq Readers
  BY SMT DEF Crash
<1> QED
  BY <1>1, <1>2, <1>3, <1>4, <1>5, <1>6, <1>7, <1>8, SMT DEF Crash

LEMMA RecoveryType == TypeOK /\ Recovery => TypeOK'
<1> SUFFICES ASSUME TypeOK, Recovery PROVE TypeOK'
  OBVIOUS
<1> USE DEF TypeOK, dataVars, workVars, memVars, reqVars, readVars
<1>1. ASSUME NEW m \in Moves, RecoverSwitched(m) PROVE TypeOK'
  <2>1. mv' \in [Moves -> MoveRow]
    BY <1>1, StatusType DEF RecoverSwitched, Statuses, Unfinished, PostSwitch
  <2> QED
    BY <1>1, <2>1, SMT DEF RecoverSwitched
<1>2. ASSUME NEW m \in Moves, RecoverUndone(m) PROVE TypeOK'
  <2>1. mv' \in [Moves -> MoveRow]
    BY <1>2, StatusType DEF RecoverUndone, Statuses, Ended
  <2>2. /\ bytes' \in [Places -> Copies] /\ staging' \in [Moves -> Copies]
        /\ manifest' \subseteq Remotes /\ faults' \in Nat
    BY <1>2, FaultType, SMT DEF RecoverUndone, DiscardCopy, DeleteBucket, Copies
  <2> QED
    BY <1>2, <2>1, <2>2, SMT DEF RecoverUndone
<1>3. CASE Serve
  BY <1>3, SMT DEF Serve
<1> QED
  BY <1>1, <1>2, <1>3 DEF Recovery

LEMMA ReadType == TypeOK /\ Read => TypeOK'
<1> SUFFICES ASSUME TypeOK, NEW r \in Readers,
                    \/ PreviewLookup(r) \/ Acquire(r) \/ Find(r) \/ SendLink(r)
                    \/ Open(r) \/ Release(r) \/ GoStale(r)
             PROVE  TypeOK'
  BY DEF Read
<1> USE DEF TypeOK, dataVars, workVars, reqVars, ReadUnchanged
<1>a. \A x \in Reader, pc \in {"idle", "known", "leased", "found", "reading", "broken"} :
         [x EXCEPT !.pc = pc] \in Reader
  BY SMT DEF Reader
<1>b. Idle \in Reader
  BY SMT DEF Idle, Reader, Places
<1>c. \A pc \in {"known", "found"}, p \in Places, c \in BOOLEAN :
         SetReader(r, pc, p, c) => rd' \in [Readers -> Reader]
  BY SMT DEF SetReader, Reader
<1>d. row.place \in Places /\ row.cached \in BOOLEAN
  BY SMT DEF Row
<1>e. rd[r].place \in Places /\ rd[r].cached \in BOOLEAN
  BY SMT DEF Reader
<1>g. \A p \in Places, c \in BOOLEAN : Served(p, c) \in Places
  BY SMT DEF Served, Places
<1>h. EndLease(r) => stale' \subseteq Readers /\ oldReads' \in [Moves -> SUBSET Readers]
  BY SMT DEF EndLease
<1>1. CASE PreviewLookup(r)
  <2>1. rd' \in [Readers -> Reader]
    BY <1>1, <1>c, <1>d DEF PreviewLookup
  <2> QED
    BY <1>1, <2>1, SMT DEF PreviewLookup
<1>2. CASE Acquire(r)
  <2>1. rd' \in [Readers -> Reader]
    BY <1>2, <1>a, Zenon DEF Acquire
  <2> QED
    BY <1>2, <2>1, SMT DEF Acquire
<1>3. CASE Find(r)
  <2>1. rd' \in [Readers -> Reader]
    BY <1>3, <1>c, <1>d, <1>e, <1>g DEF Find
  <2> QED
    BY <1>3, <2>1, SMT DEF Find
<1>4. CASE SendLink(r)
  <2>1. rd' \in [Readers -> Reader]
    BY <1>4, <1>b, SMT DEF SendLink
  <2>2. linkLeft' \in [Remotes -> 0..TTL]
    BY <1>4, PlacesAssumption, SMT DEF SendLink
  <2> QED
    BY <1>4, <1>h, <2>1, <2>2, SMT DEF SendLink
<1>5. CASE Open(r)
  <2>1. rd' \in [Readers -> Reader]
    <3>1. [Idle EXCEPT !.pc = "broken"] \in Reader
      BY <1>a, <1>b
    <3>2. [rd[r] EXCEPT !.pc = "reading"] \in Reader
      BY <1>a
    <3>3. \A x \in Reader : [rd EXCEPT ![r] = x] \in [Readers -> Reader]
      OBVIOUS
    <3> QED
      BY <1>5, <3>1, <3>2, <3>3, Zenon DEF Open
  <2>2. stale' \subseteq Readers /\ oldReads' \in [Moves -> SUBSET Readers]
    BY <1>5, <1>h, SMT DEF Open
  <2> QED
    BY <1>5, <2>1, <2>2, SMT DEF Open
<1>6. CASE Release(r)
  <2>1. rd' \in [Readers -> Reader]
    BY <1>6, <1>b, SMT DEF Release
  <2> QED
    BY <1>6, <1>h, <2>1, SMT DEF Release
<1>7. CASE GoStale(r)
  BY <1>7, SMT DEF GoStale
<1> QED
  BY <1>1, <1>2, <1>3, <1>4, <1>5, <1>6, <1>7

LEMMA TickType == TypeOK /\ Tick => TypeOK'
<1> SUFFICES ASSUME TypeOK, Tick PROVE TypeOK'
  OBVIOUS
<1> USE DEF TypeOK, dataVars, workVars, memVars, reqVars
<1>1. waitLeft' \in [Moves -> 0..TTL] /\ linkLeft' \in [Remotes -> 0..TTL]
  BY DecreaseType, SMT DEF Tick
<1> QED
  BY <1>1, SMT DEF Tick

-----------------------------------------------------------------------------
(* The thread's place and its move; types are invariant.                   *)

LEMMA WorkerHasMoveStep ==
    TypeOK /\ WorkerHasMove /\ [Next]_vars => WorkerHasMove'
<1> SUFFICES ASSUME TypeOK, WorkerHasMove, [Next]_vars PROVE WorkerHasMove'
  OBVIOUS
<1> USE PlacesAssumption
        DEF WorkerHasMove, dataVars, workVars, memVars, reqVars, readVars, WorkerUnchanged
<1>0. at # "loop" => cur \in Moves
  BY DEF TypeOK
<1>1. CASE Request
  <2>1. UNCHANGED <<at, cur, up>>
    BY <1>1, Zenon DEF Request, StartCheck, StartCreate, CancelRead, CancelApply
  <2> QED
    BY <2>1
<1>2. CASE Loop
  BY <1>2, SMT DEF Loop, Pick, BeginRemoval, WaitAgain
<1>3. CASE Run
  <2>1. CASE BeginCopy \/ CopyFiles \/ BeginVerify \/ VerifyCopy \/ BeginSwitch
    BY <2>1, SMT DEF BeginCopy, CopyFiles, BeginVerify, VerifyCopy, BeginSwitch
  <2>2. CASE Publish \/ SwapIn
    BY <2>2, SMT DEF Publish, SwapIn
  <2>5. CASE SwapAside \/ SetLocation
    BY <2>5, Zenon DEF SwapAside, SetLocation
  <2>3. CASE DeleteSourceManifest \/ RelabelSwitched \/ BeginDrain
    BY <2>3, SMT DEF DeleteSourceManifest, RelabelSwitched, BeginDrain, BackToLoop
  <2>4. CASE RunRaises \/ UndoCopy \/ EndRun
    BY <2>4, SMT DEF RunRaises, UndoCopy, EndRun, BackToLoop, BeforeLocation, AfterLocation
  <2> QED
    BY <1>3, <2>1, <2>2, <2>3, <2>4, <2>5 DEF Run
<1>4. CASE Finish
  BY <1>4, SMT DEF Finish, RemoveFromBucket, RemoveLocal, Uncache, NothingToRemove,
                   RelabelRemoved, RelabelRaises, EndMove, ReleaseAfterFailure, BackToLoop
<1>5. CASE Crash
  BY <1>5, SMT DEF Crash, BackToLoop
<1>6. CASE Recovery
  BY <1>6, SMT DEF Recovery, RecoverSwitched, RecoverUndone, Serve
<1>7. CASE Read
  BY <1>7, SMT DEF Read, PreviewLookup, Acquire, Find, SendLink, Open, Release, GoStale,
                   ReadUnchanged
<1>8. CASE Tick
  BY <1>8, SMT DEF Tick
<1>9. CASE UNCHANGED vars
  BY <1>9 DEF vars
<1> QED
  BY <1>1, <1>2, <1>3, <1>4, <1>5, <1>6, <1>7, <1>8, <1>9 DEF Next, Worker

LEMMA TypeStep == TypeOK /\ WorkerHasMove /\ [Next]_vars => TypeOK'
<1>1. TypeOK /\ UNCHANGED vars => TypeOK'
  BY DEF TypeOK, vars
<1> QED
  BY <1>1, RequestType, LoopType, RunType, FinishType, CrashType, RecoveryType, ReadType,
     TickType DEF Next, Worker

(* Every variable keeps its type, and the thread has a move exactly while it *)
(* is not at the top of its loop.                                           *)
THEOREM TypeCorrect == Spec => [](TypeOK /\ WorkerHasMove)
<1>1. Init => TypeOK /\ WorkerHasMove
  BY InitType DEF Init, WorkerHasMove
<1>2. TypeOK /\ WorkerHasMove /\ [Next]_vars => (TypeOK /\ WorkerHasMove)'
  BY TypeStep, WorkerHasMoveStep
<1> QED
  BY <1>1, <1>2, PTL DEF Spec

-----------------------------------------------------------------------------
(* Where the model is.                                                     *)

(* While a move is active, no other is under way. *)
LEMMA OnlyActive ==
    ASSUME OneActive, NEW m \in Moves, Active(m), NEW n \in Moves, n # m
    PROVE  mv[n].status \notin Unfinished
  BY DEF OneActive, Active

(* A row that is not under way says nothing. *)
LEMMA FinishedFits ==
    ASSUME NEW n \in Moves, mv[n].status \notin Unfinished
    PROVE  StatusFits(n)
  BY DEF StatusFits, QueuedFits, Unfinished, PreSwitch, PostSwitch

(* What a step on the active move has to show: that move fits, and the      *)
(* copies that the row and the manifests name are whole.                   *)
LEMMA WorkStep ==
    ASSUME OneActive, NEW m \in Moves, Active(m), cur' \in {m, NoMove},
           \A n \in Moves \ {m} : mv'[n] = mv[n],
           StatusFits(m)', cur' = m => WorkFits(m)',
           bytes'[row'.place] = "full", \A p \in manifest' : bytes'[p] = "full"
    PROVE  Safe'
<1>1. \A n \in Moves \ {m} : mv'[n].status \notin Unfinished
  BY OnlyActive
<1>2. OneActive'
  BY <1>1, PlacesAssumption DEF OneActive, Active
<1>3. \A n \in Moves : StatusFits(n)'
  <2>1. ASSUME NEW n \in Moves \ {m} PROVE StatusFits(n)'
    BY <1>1 DEF StatusFits, QueuedFits, Unfinished, PreSwitch, PostSwitch
  <2> QED
    BY <2>1
<1>4. \A n \in Moves : cur' = n => WorkFits(n)'
  BY PlacesAssumption
<1> QED
  BY <1>2, <1>3, <1>4 DEF Safe

(* Steps that leave rows, copies and the thread alone. *)
LEMMA FrameStep ==
    ASSUME Safe, UNCHANGED <<row, bytes, manifest, staging, mv, at, cur, listed>>
    PROVE  Safe'
  BY DEF Safe, OneActive, Active, StatusFits, QueuedFits, WorkFits, CopyOf

LEMMA InitSafe == Init => StartsElsewhere /\ Safe
<1> SUFFICES ASSUME Init PROVE StartsElsewhere /\ Safe
  OBVIOUS
<1>1. StartsElsewhere
  BY DEF Init, StartsElsewhere
<1>2. cur \notin Moves /\ \A m \in Moves : mv[m].status \notin Unfinished
  BY PlacesAssumption, SMT DEF Init, Unfinished, PreSwitch, PostSwitch
<1>3. bytes[row.place] = "full" /\ \A p \in manifest : bytes[p] = "full"
  BY SMT DEF Init, Row, Places
<1>4. OneActive
  BY <1>2 DEF OneActive, Active
<1>5. \A m \in Moves : StatusFits(m)
  BY <1>2, FinishedFits
<1> QED
  BY <1>1, <1>2, <1>3, <1>4, <1>5 DEF Safe

LEMMA RequestSafe ==
    ASSUME TypeOK, TypeOK', StartsElsewhere, ~overlap => Safe, Request
    PROVE  StartsElsewhere' /\ (~overlap' => Safe')
<1> USE DEF dataVars, workVars, memVars, readVars
<1> PICK q \in Requests :
        \/ \E dst \in Places, keep \in BOOLEAN : StartCheck(q, dst, keep)
        \/ \E m \in Moves : StartCreate(q, m) \/ CancelRead(q, m)
        \/ CancelApply(q)
  BY DEF Request
<1>1. ASSUME NEW dst \in Places, NEW keep \in BOOLEAN, StartCheck(q, dst, keep)
      PROVE  StartsElsewhere' /\ (~overlap' => Safe')
  <2>1. StartsElsewhere'
    BY <1>1, SMT DEF StartCheck, StartsElsewhere, TypeOK
  <2> QED
    BY <1>1, <2>1, FrameStep DEF StartCheck
<1>2. ASSUME NEW m \in Moves, StartCreate(q, m)
      PROVE  StartsElsewhere' /\ (~overlap' => Safe')
  <2>1. StartsElsewhere'
    BY <1>2, SMT DEF StartCreate, StartsElsewhere, TypeOK
  <2>2. ASSUME ~overlap' PROVE Safe'
    <3>1. /\ Safe
          /\ \A n \in Moves : ~Active(n)
          /\ row.place = starting[q].src
          /\ starting[q].dst \in Remotes =>
                 bytes[starting[q].dst] = "none" /\ starting[q].dst \notin manifest
      BY <1>2, <2>2 DEF StartCreate
    <3>2. starting[q].src # starting[q].dst
      BY <1>2 DEF StartCreate, StartsElsewhere
    <3>3. \A n \in Moves \ {m} : mv'[n] = mv[n]
      BY <1>2, SMT DEF StartCreate, TypeOK
    <3>4. /\ mv'[m].status = "queued"
          /\ mv'[m].src = starting[q].src /\ mv'[m].dst = starting[q].dst
      BY <1>2, SMT DEF StartCreate, TypeOK
    <3>5. OneActive'
      BY <1>2, <3>1, <3>3 DEF StartCreate, OneActive, Active
    <3>6. StatusFits(m)'
      BY <1>2, <3>1, <3>2, <3>4 DEF StartCreate, StatusFits, QueuedFits, PostSwitch
    <3>7. \A n \in Moves \ {m} : StatusFits(n)'
      BY <3>1, <3>3 DEF Active, StatusFits, QueuedFits, Unfinished, PreSwitch, PostSwitch
    <3>8. \A n \in Moves : cur' # n
      BY <1>2, <3>1 DEF StartCreate, Active
    <3> QED
      BY <1>2, <3>1, <3>5, <3>6, <3>7, <3>8 DEF StartCreate, Safe
  <2> QED
    BY <2>1, <2>2
<1>3. ASSUME NEW m \in Moves, CancelRead(q, m)
      PROVE  StartsElsewhere' /\ (~overlap' => Safe')
  BY <1>3, FrameStep DEF CancelRead, StartsElsewhere
<1>4. ASSUME CancelApply(q)
      PROVE  StartsElsewhere' /\ (~overlap' => Safe')
  <2>1. StartsElsewhere'
    BY <1>4 DEF CancelApply, StartsElsewhere
  <2>2. ASSUME Safe PROVE Safe'
    <3>1. \A n \in Moves : mv'[n] = mv[n] \/ mv'[n] = [mv[n] EXCEPT !.status = "cancelled"]
      BY <1>4, SMT DEF CancelApply, TypeOK
    <3>2. \A n \in Moves :
             /\ mv'[n].src = mv[n].src /\ mv'[n].dst = mv[n].dst
             /\ mv'[n].status = mv[n].status \/ mv'[n].status = "cancelled"
      BY <3>1, SMT DEF TypeOK, MoveRow
    <3>3. UNCHANGED <<row, bytes, manifest, staging, at, cur, listed>>
      BY <1>4 DEF CancelApply
    <3>4. OneActive'
      BY <2>2, <3>2, <3>3 DEF Safe, OneActive, Active, Unfinished, PreSwitch, PostSwitch
    <3>5. \A n \in Moves : StatusFits(n)'
      BY <2>2, <3>2, <3>3 DEF Safe, StatusFits, QueuedFits, Unfinished, PreSwitch, PostSwitch
    <3>6. \A n \in Moves : cur' = n => WorkFits(n)'
      BY <2>2, <3>2, <3>3 DEF Safe, WorkFits, CopyOf
    <3> QED
      BY <2>2, <3>3, <3>4, <3>5, <3>6 DEF Safe
  <2> QED
    BY <1>4, <2>1, <2>2 DEF CancelApply
<1> QED
  BY <1>1, <1>2, <1>3, <1>4

LEMMA RunSafe ==
    ASSUME TypeOK, WorkerHasMove, Safe, Run
    PROVE  Safe'
<1> USE DEF dataVars, memVars, reqVars, readVars, WorkerUnchanged
<1> PICK m \in Moves : cur = m
  BY DEF Run, TypeOK, WorkerHasMove, BeginCopy, CopyFiles, BeginVerify, VerifyCopy, BeginSwitch,
         Publish, SwapAside, SwapIn, SetLocation, DeleteSourceManifest, RelabelSwitched,
         BeginDrain, RunRaises, UndoCopy, EndRun, BeforeLocation, AfterLocation
<1>0. cur = m /\ OneActive /\ Active(m)
  BY DEF Safe, Active
<1>a. /\ StatusFits(m) /\ WorkFits(m)
      /\ bytes[row.place] = "full" /\ \A p \in manifest : bytes[p] = "full"
      /\ mv \in [Moves -> MoveRow] /\ mv[m] \in MoveRow
      /\ bytes \in [Places -> Copies] /\ staging \in [Moves -> Copies]
      /\ manifest \subseteq Remotes /\ row \in Row
      /\ Local \in Places /\ Local \notin Remotes
  BY PlacesAssumption DEF Safe, TypeOK, Places
<1>b. row.place \in Places /\ mv[m].src \in Places /\ mv[m].dst \in Places
  BY <1>a, SMT DEF Row, MoveRow
<1>1. CASE BeginCopy
  <2>1. StatusFits(m)'
    BY <1>0, <1>a, <1>1, SMT DEF BeginCopy, SetStatus, WriteCopy, MoveRow, StatusFits, QueuedFits, Unfinished, PreSwitch, PostSwitch,
       WorkFits, BeforeLocation, AfterLocation, Undoing, Finishing
  <2>2. cur' = m /\ WorkFits(m)'
    BY <1>0, <1>a, <1>1, SMT DEF BeginCopy, SetStatus, WriteCopy, MoveRow, StatusFits, QueuedFits,
       WorkFits, CopyOf, Writing, BeforeLocation, AfterLocation, Undoing, Finishing
  <2>3. bytes'[row'.place] = "full" /\ \A p \in manifest' : bytes'[p] = "full"
    <3>1. bytes'[row'.place] = "full"
      BY <1>0, <1>a, <1>b, <1>1, SMT DEF BeginCopy, SetStatus, WriteCopy, MoveRow, WorkFits, CopyOf, Writing, BeforeLocation, AfterLocation, Undoing, Finishing
    <3>2. \A p \in manifest' : bytes'[p] = "full"
      BY <1>0, <1>a, <1>b, <1>1, SMT DEF BeginCopy, SetStatus, WriteCopy, MoveRow, WorkFits, CopyOf, Writing, BeforeLocation, AfterLocation, Undoing, Finishing, Places
    <3> QED
      BY <3>1, <3>2
  <2>4. \A n \in Moves \ {m} : mv'[n] = mv[n]
    BY <1>0, <1>a, <1>1, SMT DEF BeginCopy, SetStatus
  <2> QED
    BY <1>0, PlacesAssumption, <2>1, <2>2, <2>3, <2>4, WorkStep
<1>2. CASE CopyFiles
  <2>1. StatusFits(m)'
    BY <1>0, <1>a, <1>2, SMT DEF CopyFiles, WriteCopy, MoveRow, StatusFits, QueuedFits, Unfinished, PreSwitch, PostSwitch,
       WorkFits, BeforeLocation, AfterLocation, Undoing, Finishing
  <2>2. cur' = m /\ WorkFits(m)'
    BY <1>0, <1>a, <1>2, SMT DEF CopyFiles, WriteCopy, MoveRow, StatusFits, QueuedFits,
       WorkFits, CopyOf, Writing, BeforeLocation, AfterLocation, Undoing, Finishing
  <2>3. bytes'[row'.place] = "full" /\ \A p \in manifest' : bytes'[p] = "full"
    <3>1. bytes'[row'.place] = "full"
      BY <1>0, <1>a, <1>b, <1>2, SMT DEF CopyFiles, WriteCopy, MoveRow, WorkFits, CopyOf, Writing, BeforeLocation, AfterLocation, Undoing, Finishing
    <3>2. \A p \in manifest' : bytes'[p] = "full"
      BY <1>0, <1>a, <1>b, <1>2, SMT DEF CopyFiles, WriteCopy, MoveRow, WorkFits, CopyOf, Writing, BeforeLocation, AfterLocation, Undoing, Finishing, Places
    <3> QED
      BY <3>1, <3>2
  <2>4. \A n \in Moves \ {m} : mv'[n] = mv[n]
    BY <1>0, <1>a, <1>2, SMT DEF CopyFiles, SetStatus
  <2> QED
    BY <1>0, PlacesAssumption, <2>1, <2>2, <2>3, <2>4, WorkStep
<1>3. CASE BeginVerify
  <2>1. StatusFits(m)'
    BY <1>0, <1>a, <1>3, SMT DEF BeginVerify, SetStatus, MoveRow, StatusFits, QueuedFits, Unfinished, PreSwitch, PostSwitch,
       WorkFits, BeforeLocation, AfterLocation, Undoing, Finishing
  <2>2. cur' = m /\ WorkFits(m)'
    BY <1>0, <1>a, <1>3, SMT DEF BeginVerify, SetStatus, MoveRow, StatusFits, QueuedFits,
       WorkFits, CopyOf, Writing, BeforeLocation, AfterLocation, Undoing, Finishing
  <2>3. bytes'[row'.place] = "full" /\ \A p \in manifest' : bytes'[p] = "full"
    BY <1>0, <1>a, <1>3, SMT DEF BeginVerify, SetStatus, MoveRow, WorkFits, CopyOf, Writing, BeforeLocation, AfterLocation, Undoing, Finishing
  <2>4. \A n \in Moves \ {m} : mv'[n] = mv[n]
    BY <1>0, <1>a, <1>3, SMT DEF BeginVerify, SetStatus
  <2> QED
    BY <1>0, PlacesAssumption, <2>1, <2>2, <2>3, <2>4, WorkStep
<1>4. CASE VerifyCopy
  <2>1. StatusFits(m)'
    BY <1>0, <1>a, <1>4, SMT DEF VerifyCopy, Matches, StatusFits, QueuedFits, Unfinished, PreSwitch, PostSwitch,
       WorkFits, BeforeLocation, AfterLocation, Undoing, Finishing
  <2>2. cur' = m /\ WorkFits(m)'
    BY <1>0, <1>a, <1>4, SMT DEF VerifyCopy, Matches, StatusFits, QueuedFits,
       WorkFits, CopyOf, Writing, BeforeLocation, AfterLocation, Undoing, Finishing
  <2>3. bytes'[row'.place] = "full" /\ \A p \in manifest' : bytes'[p] = "full"
    BY <1>0, <1>a, <1>4, SMT DEF VerifyCopy, Matches, WorkFits, CopyOf, Writing, BeforeLocation, AfterLocation, Undoing, Finishing
  <2>4. \A n \in Moves \ {m} : mv'[n] = mv[n]
    BY <1>0, <1>a, <1>4, SMT DEF VerifyCopy, SetStatus
  <2> QED
    BY <1>0, PlacesAssumption, <2>1, <2>2, <2>3, <2>4, WorkStep
<1>5. CASE BeginSwitch
  <2>1. StatusFits(m)'
    BY <1>0, <1>a, <1>5, SMT DEF BeginSwitch, SetStatus, MoveRow, StatusFits, QueuedFits, Unfinished, PreSwitch, PostSwitch,
       WorkFits, BeforeLocation, AfterLocation, Undoing, Finishing
  <2>2. cur' = m /\ WorkFits(m)'
    BY <1>0, <1>a, <1>5, SMT DEF BeginSwitch, SetStatus, MoveRow, StatusFits, QueuedFits,
       WorkFits, CopyOf, Writing, BeforeLocation, AfterLocation, Undoing, Finishing
  <2>3. bytes'[row'.place] = "full" /\ \A p \in manifest' : bytes'[p] = "full"
    BY <1>0, <1>a, <1>5, SMT DEF BeginSwitch, SetStatus, MoveRow, WorkFits, CopyOf, Writing, BeforeLocation, AfterLocation, Undoing, Finishing
  <2>4. \A n \in Moves \ {m} : mv'[n] = mv[n]
    BY <1>0, <1>a, <1>5, SMT DEF BeginSwitch, SetStatus
  <2> QED
    BY <1>0, PlacesAssumption, <2>1, <2>2, <2>3, <2>4, WorkStep
<1>6. CASE Publish
  <2>1. StatusFits(m)'
    BY <1>0, <1>a, <1>6, SMT DEF Publish, StatusFits, QueuedFits, Unfinished, PreSwitch, PostSwitch,
       WorkFits, BeforeLocation, AfterLocation, Undoing, Finishing
  <2>2. cur' = m /\ WorkFits(m)'
    BY <1>0, <1>a, <1>6, SMT DEF Publish, StatusFits, QueuedFits,
       WorkFits, CopyOf, Writing, BeforeLocation, AfterLocation, Undoing, Finishing
  <2>3. bytes'[row'.place] = "full" /\ \A p \in manifest' : bytes'[p] = "full"
    BY <1>0, <1>a, <1>6, SMT DEF Publish, WorkFits, CopyOf, Writing, BeforeLocation, AfterLocation, Undoing, Finishing
  <2>4. \A n \in Moves \ {m} : mv'[n] = mv[n]
    BY <1>0, <1>a, <1>6, SMT DEF Publish, SetStatus
  <2> QED
    BY <1>0, PlacesAssumption, <2>1, <2>2, <2>3, <2>4, WorkStep
<1>7. CASE SwapAside
  <2>1. StatusFits(m)'
    BY <1>0, <1>a, <1>7, SMT DEF SwapAside, StatusFits, QueuedFits, Unfinished, PreSwitch, PostSwitch,
       WorkFits, BeforeLocation, AfterLocation, Undoing, Finishing
  <2>2. cur' = m /\ WorkFits(m)'
    BY <1>0, <1>a, <1>7, SMT DEF SwapAside, StatusFits, QueuedFits,
       WorkFits, CopyOf, Writing, BeforeLocation, AfterLocation, Undoing, Finishing
  <2>3. bytes'[row'.place] = "full" /\ \A p \in manifest' : bytes'[p] = "full"
    BY <1>0, <1>a, <1>7, SMT DEF SwapAside, WorkFits, CopyOf, Writing, BeforeLocation, AfterLocation, Undoing, Finishing
  <2>4. \A n \in Moves \ {m} : mv'[n] = mv[n]
    BY <1>0, <1>a, <1>7, SMT DEF SwapAside, SetStatus
  <2> QED
    BY <1>0, PlacesAssumption, <2>1, <2>2, <2>3, <2>4, WorkStep
<1>8. CASE SwapIn
  <2>1. StatusFits(m)'
    BY <1>0, <1>a, <1>8, SMT DEF SwapIn, StatusFits, QueuedFits, Unfinished, PreSwitch, PostSwitch,
       WorkFits, BeforeLocation, AfterLocation, Undoing, Finishing
  <2>2. cur' = m /\ WorkFits(m)'
    BY <1>0, <1>a, <1>8, SMT DEF SwapIn, StatusFits, QueuedFits,
       WorkFits, CopyOf, Writing, BeforeLocation, AfterLocation, Undoing, Finishing
  <2>3. bytes'[row'.place] = "full" /\ \A p \in manifest' : bytes'[p] = "full"
    BY <1>0, <1>a, <1>8, SMT DEF SwapIn, WorkFits, CopyOf, Writing, BeforeLocation, AfterLocation, Undoing, Finishing
  <2>4. \A n \in Moves \ {m} : mv'[n] = mv[n]
    BY <1>0, <1>a, <1>8, SMT DEF SwapIn, SetStatus
  <2> QED
    BY <1>0, PlacesAssumption, <2>1, <2>2, <2>3, <2>4, WorkStep
<1>9. CASE SetLocation
  <2>1. StatusFits(m)'
    BY <1>0, <1>a, <1>9, SMT DEF SetLocation, MoveRow, StatusFits, QueuedFits, Unfinished, PreSwitch, PostSwitch,
       WorkFits, BeforeLocation, AfterLocation, Undoing, Finishing
  <2>2. cur' = m /\ WorkFits(m)'
    BY <1>0, <1>a, <1>9, SMT DEF SetLocation, MoveRow, StatusFits, QueuedFits,
       WorkFits, CopyOf, Writing, BeforeLocation, AfterLocation, Undoing, Finishing
  <2>3. bytes'[row'.place] = "full" /\ \A p \in manifest' : bytes'[p] = "full"
    BY <1>0, <1>a, <1>9, SMT DEF SetLocation, MoveRow, WorkFits, CopyOf, Writing, BeforeLocation, AfterLocation, Undoing, Finishing
  <2>4. \A n \in Moves \ {m} : mv'[n] = mv[n]
    BY <1>0, <1>a, <1>9, SMT DEF SetLocation, SetStatus
  <2> QED
    BY <1>0, PlacesAssumption, <2>1, <2>2, <2>3, <2>4, WorkStep
<1>10. CASE DeleteSourceManifest
  <2>1. StatusFits(m)'
    BY <1>0, <1>a, <1>10, SMT DEF DeleteSourceManifest, StatusFits, QueuedFits, Unfinished, PreSwitch, PostSwitch,
       WorkFits, BeforeLocation, AfterLocation, Undoing, Finishing
  <2>2. cur' = m /\ WorkFits(m)'
    BY <1>0, <1>a, <1>10, SMT DEF DeleteSourceManifest, StatusFits, QueuedFits,
       WorkFits, CopyOf, Writing, BeforeLocation, AfterLocation, Undoing, Finishing
  <2>3. bytes'[row'.place] = "full" /\ \A p \in manifest' : bytes'[p] = "full"
    BY <1>0, <1>a, <1>10, SMT DEF DeleteSourceManifest, WorkFits, CopyOf, Writing, BeforeLocation, AfterLocation, Undoing, Finishing
  <2>4. \A n \in Moves \ {m} : mv'[n] = mv[n]
    BY <1>0, <1>a, <1>10, SMT DEF DeleteSourceManifest, SetStatus
  <2> QED
    BY <1>0, PlacesAssumption, <2>1, <2>2, <2>3, <2>4, WorkStep
<1>11. CASE RelabelSwitched
  <2>1. StatusFits(m)'
    BY <1>0, <1>a, <1>11, SMT DEF RelabelSwitched, StatusFits, QueuedFits, Unfinished, PreSwitch, PostSwitch,
       WorkFits, BeforeLocation, AfterLocation, Undoing, Finishing
  <2>2. cur' = m /\ WorkFits(m)'
    BY <1>0, <1>a, <1>11, SMT DEF RelabelSwitched, StatusFits, QueuedFits,
       WorkFits, CopyOf, Writing, BeforeLocation, AfterLocation, Undoing, Finishing
  <2>3. bytes'[row'.place] = "full" /\ \A p \in manifest' : bytes'[p] = "full"
    BY <1>0, <1>a, <1>11, SMT DEF RelabelSwitched, WorkFits, CopyOf, Writing, BeforeLocation, AfterLocation, Undoing, Finishing
  <2>4. \A n \in Moves \ {m} : mv'[n] = mv[n]
    BY <1>0, <1>a, <1>11, SMT DEF RelabelSwitched, SetStatus
  <2> QED
    BY <1>0, PlacesAssumption, <2>1, <2>2, <2>3, <2>4, WorkStep
<1>12. CASE BeginDrain
  <2>1. StatusFits(m)'
    BY <1>0, <1>a, <1>12, SMT DEF BeginDrain, BackToLoop, MoveRow, StatusFits, QueuedFits, Unfinished, PreSwitch, PostSwitch,
       WorkFits, BeforeLocation, AfterLocation, Undoing, Finishing
  <2>2. cur' = NoMove
    BY <1>12 DEF BeginDrain, BackToLoop
  <2>3. bytes'[row'.place] = "full" /\ \A p \in manifest' : bytes'[p] = "full"
    BY <1>0, <1>a, <1>12, SMT DEF BeginDrain, BackToLoop, MoveRow, WorkFits, CopyOf, Writing, BeforeLocation, AfterLocation, Undoing, Finishing
  <2>4. \A n \in Moves \ {m} : mv'[n] = mv[n]
    BY <1>0, <1>a, <1>12, SMT DEF BeginDrain, SetStatus
  <2> QED
    BY <1>0, PlacesAssumption, <2>1, <2>2, <2>3, <2>4, WorkStep
<1>13. CASE RunRaises
  <2>1. StatusFits(m)'
    BY <1>0, <1>a, <1>13, SMT DEF RunRaises, StatusFits, QueuedFits, Unfinished, PreSwitch, PostSwitch,
       WorkFits, BeforeLocation, AfterLocation, Undoing, Finishing
  <2>2. cur' = m /\ WorkFits(m)'
    BY <1>0, <1>a, <1>13, SMT DEF RunRaises, StatusFits, QueuedFits,
       WorkFits, CopyOf, Writing, BeforeLocation, AfterLocation, Undoing, Finishing
  <2>3. bytes'[row'.place] = "full" /\ \A p \in manifest' : bytes'[p] = "full"
    BY <1>0, <1>a, <1>13, SMT DEF RunRaises, WorkFits, CopyOf, Writing, BeforeLocation, AfterLocation, Undoing, Finishing
  <2>4. \A n \in Moves \ {m} : mv'[n] = mv[n]
    BY <1>0, <1>a, <1>13, SMT DEF RunRaises, SetStatus
  <2> QED
    BY <1>0, PlacesAssumption, <2>1, <2>2, <2>3, <2>4, WorkStep
<1>14. CASE UndoCopy
  <2>1. StatusFits(m)'
    BY <1>0, <1>a, <1>14, SMT DEF UndoCopy, DiscardCopy, DeleteBucket, Fault, StatusFits, QueuedFits, Unfinished, PreSwitch, PostSwitch,
       WorkFits, BeforeLocation, AfterLocation, Undoing, Finishing
  <2>2. cur' = m /\ WorkFits(m)'
    BY <1>0, <1>a, <1>14, SMT DEF UndoCopy, DiscardCopy, DeleteBucket, Fault, StatusFits, QueuedFits,
       WorkFits, CopyOf, Writing, BeforeLocation, AfterLocation, Undoing, Finishing
  <2>3. bytes'[row'.place] = "full" /\ \A p \in manifest' : bytes'[p] = "full"
    <3>1. bytes'[row'.place] = "full"
      BY <1>0, <1>a, <1>b, <1>14, SMT DEF UndoCopy, DiscardCopy, DeleteBucket, Fault, WorkFits, CopyOf, Writing, BeforeLocation, AfterLocation, Undoing, Finishing
    <3>2. \A p \in manifest' : bytes'[p] = "full"
      BY <1>0, <1>a, <1>b, <1>14, SMT DEF UndoCopy, DiscardCopy, DeleteBucket, Fault, WorkFits, CopyOf, Writing, BeforeLocation, AfterLocation, Undoing, Finishing, Places
    <3> QED
      BY <3>1, <3>2
  <2>4. \A n \in Moves \ {m} : mv'[n] = mv[n]
    BY <1>0, <1>a, <1>14, SMT DEF UndoCopy, SetStatus
  <2> QED
    BY <1>0, PlacesAssumption, <2>1, <2>2, <2>3, <2>4, WorkStep
<1>15. CASE EndRun
  <2>1. StatusFits(m)'
    BY <1>0, <1>a, <1>15, SMT DEF EndRun, SetStatus, BackToLoop, MoveRow, Ended, StatusFits, QueuedFits, Unfinished, PreSwitch, PostSwitch,
       WorkFits, BeforeLocation, AfterLocation, Undoing, Finishing
  <2>2. cur' = NoMove
    BY <1>15 DEF EndRun, BackToLoop
  <2>3. bytes'[row'.place] = "full" /\ \A p \in manifest' : bytes'[p] = "full"
    BY <1>0, <1>a, <1>15, SMT DEF EndRun, SetStatus, BackToLoop, MoveRow, Ended, WorkFits, CopyOf, Writing, BeforeLocation, AfterLocation, Undoing, Finishing
  <2>4. \A n \in Moves \ {m} : mv'[n] = mv[n]
    BY <1>0, <1>a, <1>15, SMT DEF EndRun, SetStatus
  <2> QED
    BY <1>0, PlacesAssumption, <2>1, <2>2, <2>3, <2>4, WorkStep
<1> QED
  BY <1>1, <1>2, <1>3, <1>4, <1>5, <1>6, <1>7, <1>8, <1>9, <1>10, <1>11, <1>12, <1>13, <1>14, <1>15 DEF Run

LEMMA FinishSafe ==
    ASSUME TypeOK, WorkerHasMove, Safe, Finish
    PROVE  Safe'
<1> USE DEF dataVars, memVars, reqVars, readVars, WorkerUnchanged
<1> PICK m \in Moves : cur = m
  BY DEF Finish, TypeOK, WorkerHasMove, RemoveFromBucket, RemoveLocal, Uncache,
         NothingToRemove, RelabelRemoved, RelabelRaises, EndMove, ReleaseAfterFailure
<1>0. cur = m /\ OneActive /\ Active(m)
  BY DEF Safe, Active
<1>a. /\ StatusFits(m) /\ WorkFits(m)
      /\ bytes[row.place] = "full" /\ \A p \in manifest : bytes[p] = "full"
      /\ mv \in [Moves -> MoveRow] /\ mv[m] \in MoveRow
      /\ bytes \in [Places -> Copies] /\ staging \in [Moves -> Copies]
      /\ manifest \subseteq Remotes /\ row \in Row
      /\ Local \in Places /\ Local \notin Remotes
  BY PlacesAssumption DEF Safe, TypeOK, Places
<1>b. row.place \in Places /\ mv[m].src \in Places /\ mv[m].dst \in Places
  BY <1>a, SMT DEF Row, MoveRow
<1>1. CASE RemoveFromBucket
  <2>1. StatusFits(m)'
    BY <1>0, <1>a, <1>1, SMT DEF RemoveFromBucket, DeleteBucket, SetStatus, MoveRow, StatusFits, QueuedFits, Unfinished, PreSwitch, PostSwitch,
       WorkFits, BeforeLocation, AfterLocation, Undoing, Finishing
  <2>2. cur' = m /\ WorkFits(m)'
    BY <1>0, <1>a, <1>1, SMT DEF RemoveFromBucket, DeleteBucket, SetStatus, MoveRow, StatusFits, QueuedFits,
       WorkFits, CopyOf, Writing, BeforeLocation, AfterLocation, Undoing, Finishing
  <2>3. bytes'[row'.place] = "full"
    BY <1>0, <1>a, <1>b, <1>1, SMT DEF RemoveFromBucket, DeleteBucket, SetStatus, MoveRow, WorkFits, Finishing
  <2>4. \A p \in manifest' : bytes'[p] = "full"
    BY <1>0, <1>a, <1>b, <1>1, SMT DEF RemoveFromBucket, DeleteBucket, SetStatus, MoveRow, WorkFits, Finishing, Places
  <2>5. \A n \in Moves \ {m} : mv'[n] = mv[n]
    BY <1>0, <1>a, <1>1, SMT DEF RemoveFromBucket, SetStatus
  <2> QED
    BY <1>0, PlacesAssumption, <2>1, <2>2, <2>3, <2>4, <2>5, WorkStep
<1>2. CASE RemoveLocal
  <2>1. StatusFits(m)'
    BY <1>0, <1>a, <1>2, SMT DEF RemoveLocal, SetStatus, MoveRow, StatusFits, QueuedFits, Unfinished, PreSwitch, PostSwitch,
       WorkFits, BeforeLocation, AfterLocation, Undoing, Finishing
  <2>2. cur' = m /\ WorkFits(m)'
    BY <1>0, <1>a, <1>2, SMT DEF RemoveLocal, SetStatus, MoveRow, StatusFits, QueuedFits,
       WorkFits, CopyOf, Writing, BeforeLocation, AfterLocation, Undoing, Finishing
  <2>3. bytes'[row'.place] = "full"
    BY <1>0, <1>a, <1>b, <1>2, SMT DEF RemoveLocal, SetStatus, MoveRow, WorkFits, Finishing
  <2>4. \A p \in manifest' : bytes'[p] = "full"
    BY <1>0, <1>a, <1>b, <1>2, SMT DEF RemoveLocal, SetStatus, MoveRow, WorkFits, Finishing, Places
  <2>5. \A n \in Moves \ {m} : mv'[n] = mv[n]
    BY <1>0, <1>a, <1>2, SMT DEF RemoveLocal, SetStatus
  <2> QED
    BY <1>0, PlacesAssumption, <2>1, <2>2, <2>3, <2>4, <2>5, WorkStep
<1>3. CASE Uncache
  <2>1. StatusFits(m)'
    BY <1>0, <1>a, <1>3, SMT DEF Uncache, StatusFits, QueuedFits, Unfinished, PreSwitch, PostSwitch,
       WorkFits, BeforeLocation, AfterLocation, Undoing, Finishing
  <2>2. cur' = m /\ WorkFits(m)'
    BY <1>0, <1>a, <1>3, SMT DEF Uncache, StatusFits, QueuedFits,
       WorkFits, CopyOf, Writing, BeforeLocation, AfterLocation, Undoing, Finishing
  <2>3. bytes'[row'.place] = "full"
    BY <1>0, <1>a, <1>b, <1>3, SMT DEF Uncache, WorkFits, Finishing
  <2>4. \A p \in manifest' : bytes'[p] = "full"
    BY <1>0, <1>a, <1>b, <1>3, SMT DEF Uncache, WorkFits, Finishing, Places
  <2>5. \A n \in Moves \ {m} : mv'[n] = mv[n]
    BY <1>0, <1>a, <1>3, SMT DEF Uncache, SetStatus
  <2> QED
    BY <1>0, PlacesAssumption, <2>1, <2>2, <2>3, <2>4, <2>5, WorkStep
<1>4. CASE NothingToRemove
  <2>1. StatusFits(m)'
    BY <1>0, <1>a, <1>4, SMT DEF NothingToRemove, StatusFits, QueuedFits, Unfinished, PreSwitch, PostSwitch,
       WorkFits, BeforeLocation, AfterLocation, Undoing, Finishing
  <2>2. cur' = m /\ WorkFits(m)'
    BY <1>0, <1>a, <1>4, SMT DEF NothingToRemove, StatusFits, QueuedFits,
       WorkFits, CopyOf, Writing, BeforeLocation, AfterLocation, Undoing, Finishing
  <2>3. bytes'[row'.place] = "full"
    BY <1>0, <1>a, <1>b, <1>4, SMT DEF NothingToRemove, WorkFits, Finishing
  <2>4. \A p \in manifest' : bytes'[p] = "full"
    BY <1>0, <1>a, <1>b, <1>4, SMT DEF NothingToRemove, WorkFits, Finishing, Places
  <2>5. \A n \in Moves \ {m} : mv'[n] = mv[n]
    BY <1>0, <1>a, <1>4, SMT DEF NothingToRemove, SetStatus
  <2> QED
    BY <1>0, PlacesAssumption, <2>1, <2>2, <2>3, <2>4, <2>5, WorkStep
<1>5. CASE RelabelRemoved
  <2>1. StatusFits(m)'
    BY <1>0, <1>a, <1>5, SMT DEF RelabelRemoved, StatusFits, QueuedFits, Unfinished, PreSwitch, PostSwitch,
       WorkFits, BeforeLocation, AfterLocation, Undoing, Finishing
  <2>2. cur' = m /\ WorkFits(m)'
    BY <1>0, <1>a, <1>5, SMT DEF RelabelRemoved, StatusFits, QueuedFits,
       WorkFits, CopyOf, Writing, BeforeLocation, AfterLocation, Undoing, Finishing
  <2>3. bytes'[row'.place] = "full"
    BY <1>0, <1>a, <1>b, <1>5, SMT DEF RelabelRemoved, WorkFits, Finishing
  <2>4. \A p \in manifest' : bytes'[p] = "full"
    BY <1>0, <1>a, <1>b, <1>5, SMT DEF RelabelRemoved, WorkFits, Finishing, Places
  <2>5. \A n \in Moves \ {m} : mv'[n] = mv[n]
    BY <1>0, <1>a, <1>5, SMT DEF RelabelRemoved, SetStatus
  <2> QED
    BY <1>0, PlacesAssumption, <2>1, <2>2, <2>3, <2>4, <2>5, WorkStep
<1>6. CASE RelabelRaises
  <2>1. StatusFits(m)'
    BY <1>0, <1>a, <1>6, SMT DEF RelabelRaises, SetStatus, MoveRow, StatusFits, QueuedFits, Unfinished, PreSwitch, PostSwitch,
       WorkFits, BeforeLocation, AfterLocation, Undoing, Finishing
  <2>2. cur' = m /\ WorkFits(m)'
    BY <1>0, <1>a, <1>6, SMT DEF RelabelRaises, SetStatus, MoveRow, StatusFits, QueuedFits,
       WorkFits, CopyOf, Writing, BeforeLocation, AfterLocation, Undoing, Finishing
  <2>3. bytes'[row'.place] = "full"
    BY <1>0, <1>a, <1>b, <1>6, SMT DEF RelabelRaises, SetStatus, MoveRow, WorkFits, Finishing
  <2>4. \A p \in manifest' : bytes'[p] = "full"
    BY <1>0, <1>a, <1>b, <1>6, SMT DEF RelabelRaises, SetStatus, MoveRow, WorkFits, Finishing, Places
  <2>5. \A n \in Moves \ {m} : mv'[n] = mv[n]
    BY <1>0, <1>a, <1>6, SMT DEF RelabelRaises, SetStatus
  <2> QED
    BY <1>0, PlacesAssumption, <2>1, <2>2, <2>3, <2>4, <2>5, WorkStep
<1>7. CASE EndMove
  <2>1. StatusFits(m)'
    BY <1>0, <1>a, <1>7, SMT DEF EndMove, SetStatus, BackToLoop, MoveRow, StatusFits, QueuedFits, Unfinished, PreSwitch, PostSwitch,
       WorkFits, BeforeLocation, AfterLocation, Undoing, Finishing
  <2>2. cur' = NoMove
    BY <1>7 DEF EndMove, BackToLoop
  <2>3. bytes'[row'.place] = "full"
    BY <1>0, <1>a, <1>b, <1>7, SMT DEF EndMove, SetStatus, BackToLoop, MoveRow, WorkFits, Finishing
  <2>4. \A p \in manifest' : bytes'[p] = "full"
    BY <1>0, <1>a, <1>b, <1>7, SMT DEF EndMove, SetStatus, BackToLoop, MoveRow, WorkFits, Finishing, Places
  <2>5. \A n \in Moves \ {m} : mv'[n] = mv[n]
    BY <1>0, <1>a, <1>7, SMT DEF EndMove, SetStatus
  <2> QED
    BY <1>0, PlacesAssumption, <2>1, <2>2, <2>3, <2>4, <2>5, WorkStep
<1>8. CASE ReleaseAfterFailure
  <2>1. StatusFits(m)'
    BY <1>0, <1>a, <1>8, SMT DEF ReleaseAfterFailure, BackToLoop, StatusFits, QueuedFits, Unfinished, PreSwitch, PostSwitch,
       WorkFits, BeforeLocation, AfterLocation, Undoing, Finishing
  <2>2. cur' = NoMove
    BY <1>8 DEF ReleaseAfterFailure, BackToLoop
  <2>3. bytes'[row'.place] = "full"
    BY <1>0, <1>a, <1>b, <1>8, SMT DEF ReleaseAfterFailure, BackToLoop, WorkFits, Finishing
  <2>4. \A p \in manifest' : bytes'[p] = "full"
    BY <1>0, <1>a, <1>b, <1>8, SMT DEF ReleaseAfterFailure, BackToLoop, WorkFits, Finishing, Places
  <2>5. \A n \in Moves \ {m} : mv'[n] = mv[n]
    BY <1>0, <1>a, <1>8, SMT DEF ReleaseAfterFailure, SetStatus
  <2> QED
    BY <1>0, PlacesAssumption, <2>1, <2>2, <2>3, <2>4, <2>5, WorkStep
<1> QED
  BY <1>1, <1>2, <1>3, <1>4, <1>5, <1>6, <1>7, <1>8 DEF Finish

LEMMA LoopSafe ==
    ASSUME TypeOK, WorkerHasMove, Safe, Loop
    PROVE  Safe'
<1> USE DEF dataVars, workVars, memVars, reqVars, readVars, WorkerUnchanged
<1> PICK m \in Moves : Pick(m) \/ BeginRemoval(m) \/ WaitAgain(m)
  BY DEF Loop
<1>0. OneActive /\ Active(m) /\ cur = NoMove /\ NoMove # m
  BY PlacesAssumption
     DEF Safe, Active, WorkerHasMove, Pick, BeginRemoval, WaitAgain, Unfinished, PreSwitch,
         PostSwitch
<1>a. /\ StatusFits(m) /\ bytes[row.place] = "full" /\ \A p \in manifest : bytes[p] = "full"
      /\ mv \in [Moves -> MoveRow] /\ mv[m] \in MoveRow
  BY DEF Safe, TypeOK
<1>1. UNCHANGED <<row, bytes, manifest, staging>>
  BY DEF Pick, BeginRemoval, WaitAgain
<1>2. /\ mv'[m].src = mv[m].src /\ mv'[m].dst = mv[m].dst
      /\ \A n \in Moves \ {m} : mv'[n] = mv[n]
  BY <1>a, SMT DEF Pick, BeginRemoval, WaitAgain, SetStatus, MoveRow
<1>3. CASE Pick(m)
  <2>1. StatusFits(m)' /\ cur' = m /\ at' = "picked" /\ mv[m].status = "queued"
    BY <1>a, <1>1, <1>3 DEF Pick, StatusFits, QueuedFits
  <2>2. WorkFits(m)'
    BY <1>a, <1>1, <1>2, <2>1, SMT
       DEF StatusFits, QueuedFits, WorkFits, Unfinished, PreSwitch, BeforeLocation, Writing,
           AfterLocation, Finishing, Undoing
  <2> QED
    BY <1>0, <1>a, <1>1, <1>2, <2>1, <2>2, WorkStep
<1>4. CASE BeginRemoval(m)
  <2>1. cur' = m /\ at' = "cleaning" /\ mv[m].status \in PostSwitch /\ mv'[m].status = "cleaning"
    BY <1>a, <1>4, SMT DEF BeginRemoval, SetStatus, MoveRow
  <2>2. StatusFits(m)'
    BY <1>a, <1>1, <1>2, <2>1, SMT DEF StatusFits, QueuedFits, Unfinished, PostSwitch
  <2>3. WorkFits(m)'
    BY <1>a, <1>1, <1>2, <2>1, SMT
       DEF StatusFits, WorkFits, Unfinished, PostSwitch, BeforeLocation, Writing,
           AfterLocation, Finishing, Undoing
  <2> QED
    BY <1>0, <1>a, <1>1, <1>2, <2>1, <2>2, <2>3, WorkStep
<1>5. CASE WaitAgain(m)
  <2>1. cur' = NoMove /\ mv[m].status \in PostSwitch /\ mv'[m].status = "draining"
    BY <1>0, <1>a, <1>5, SMT DEF WaitAgain, SetStatus, MoveRow, PostSwitch
  <2>2. StatusFits(m)'
    BY <1>a, <1>1, <1>2, <2>1, SMT DEF StatusFits, QueuedFits, Unfinished, PostSwitch
  <2> QED
    BY <1>0, <1>a, <1>1, <1>2, <2>1, <2>2, WorkStep
<1> QED
  BY <1>3, <1>4, <1>5

LEMMA CrashSafe ==
    ASSUME TypeOK, WorkerHasMove, Safe, Crash
    PROVE  Safe'
<1>1. /\ UNCHANGED <<row, staging, mv>> /\ at' = "loop" /\ cur' = NoMove
      /\ \A n \in Moves : cur' # n
  BY PlacesAssumption DEF Crash, BackToLoop
<1>2. OneActive'
  BY <1>1 DEF Safe, OneActive, Active
<1>3. CASE UNCHANGED <<bytes, manifest>>
  BY <1>1, <1>2, <1>3 DEF Safe, StatusFits, QueuedFits
<1>4. ASSUME NEW p \in Places, Emptying(p), bytes[p] # "none",
             bytes' = [bytes EXCEPT ![p] = "partial"], manifest' = manifest \ {p}
      PROVE  Safe'
  <2>1. cur \in Moves /\ WorkFits(cur) /\ Active(cur)
    BY <1>4 DEF Emptying, WorkerHasMove, TypeOK, Safe, Active
  <2>2. p # row.place /\ bytes \in [Places -> Copies] /\ manifest \subseteq Places
    BY <1>4, <2>1, SMT DEF Emptying, WorkFits, Finishing, TypeOK, Places
  <2>3. bytes'[row'.place] = "full" /\ \A x \in manifest' : bytes'[x] = "full"
    BY <1>1, <1>4, <2>2, SMT DEF Safe, TypeOK, Row
  <2>4. \A m \in Moves : QueuedFits(m)'
    <3> SUFFICES ASSUME NEW m \in Moves, mv[m].status = "queued" PROVE QueuedFits(m)'
      BY <1>1 DEF QueuedFits
    <3>1. /\ row.place = mv[m].src
          /\ mv[m].dst \in Remotes => bytes[mv[m].dst] = "none" /\ mv[m].dst \notin manifest
      BY DEF Safe, StatusFits, QueuedFits
    <3>2. mv[m].dst \in Remotes => mv[m].dst # p
      BY <1>4, <3>1
    <3> QED
      BY <1>1, <1>4, <2>2, <3>1, <3>2, SMT DEF QueuedFits, Places
  <2>5. \A m \in Moves : StatusFits(m)'
    BY <1>1, <2>4 DEF Safe, StatusFits
  <2> QED
    BY <1>1, <1>2, <2>3, <2>5 DEF Safe
<1> QED
  BY <1>3, <1>4 DEF Crash

LEMMA RecoverySafe ==
    ASSUME TypeOK, WorkerHasMove, Safe, Recovery
    PROVE  Safe'
<1> USE DEF dataVars, workVars, memVars, reqVars, readVars
<1>a. /\ bytes[row.place] = "full" /\ \A p \in manifest : bytes[p] = "full"
      /\ mv \in [Moves -> MoveRow] /\ bytes \in [Places -> Copies]
      /\ manifest \subseteq Places /\ row.place \in Places /\ OneActive
  BY DEF Safe, TypeOK, Places, Row
<1>1. ASSUME NEW m \in Moves, RecoverSwitched(m) PROVE Safe'
  <2>1. cur = NoMove /\ cur' = NoMove /\ Active(m) /\ StatusFits(m) /\ m # NoMove
    BY <1>1, PlacesAssumption
       DEF RecoverSwitched, WorkerHasMove, Active, Unfinished, PreSwitch, Safe
  <2>2. /\ mv'[m].status = "draining" /\ mv'[m].src = mv[m].src /\ mv'[m].dst = mv[m].dst
        /\ \A n \in Moves \ {m} : mv'[n] = mv[n]
    BY <1>a, <1>1, SMT DEF RecoverSwitched, SetStatus, MoveRow
  <2>3. StatusFits(m)'
    BY <1>1, <2>1, <2>2, SMT
       DEF RecoverSwitched, StatusFits, QueuedFits, Unfinished, PreSwitch, PostSwitch
  <2> QED
    BY <1>a, <1>1, <2>1, <2>2, <2>3, WorkStep DEF RecoverSwitched
<1>2. ASSUME NEW m \in Moves, RecoverUndone(m) PROVE Safe'
  <2>1. cur = NoMove /\ cur' = NoMove /\ Active(m) /\ m # NoMove
    BY <1>2, PlacesAssumption
       DEF RecoverUndone, Interrupted, WorkerHasMove, Active, Unfinished, PreSwitch
  <2>2. /\ mv'[m].status = "failed"
        /\ \A n \in Moves \ {m} : mv'[n] = mv[n]
    BY <1>a, <1>2, SMT DEF RecoverUndone, SetStatus, MoveRow
  <2>3. StatusFits(m)'
    BY <2>2, SMT DEF StatusFits, QueuedFits, Unfinished, PreSwitch, PostSwitch
  <2>4. /\ bytes'[row'.place] = "full"
        /\ \A p \in manifest' : bytes'[p] = "full"
    BY <1>a, <1>2, SMT DEF RecoverUndone, DiscardCopy, DeleteBucket
  <2> QED
    BY <1>a, <1>2, <2>1, <2>2, <2>3, <2>4, WorkStep
<1>3. CASE Serve
  BY <1>3, FrameStep DEF Serve
<1> QED
  BY <1>1, <1>2, <1>3 DEF Recovery

LEMMA ReadSafe ==
    ASSUME Safe, Read \/ Tick
    PROVE  Safe'
<1>1. UNCHANGED <<row, bytes, manifest, staging, mv, at, cur, listed>>
  BY Zenon DEF Read, PreviewLookup, Acquire, Find, SendLink, Open, Release, GoStale,
               ReadUnchanged, Tick, dataVars, workVars
<1> QED
  BY <1>1, FrameStep

(* Only requests touch "overlap" and the start requests, and a crash drops  *)
(* the latter.                                                              *)
LEMMA RequestsOnly ==
    ASSUME StartsElsewhere, Worker \/ Crash \/ Recovery \/ Read \/ Tick
    PROVE  UNCHANGED overlap /\ StartsElsewhere'
<1> USE DEF reqVars, WorkerUnchanged
<1>1. CASE Worker
  <2>1. UNCHANGED reqVars
    <3>1. CASE Loop
      BY <3>1, Zenon DEF Loop, Pick, BeginRemoval, WaitAgain
    <3>2. CASE Run
      BY <3>2, Zenon
         DEF Run, BeginCopy, CopyFiles, BeginVerify, VerifyCopy, BeginSwitch, Publish,
             SwapAside, SwapIn, SetLocation, DeleteSourceManifest, RelabelSwitched,
             BeginDrain, RunRaises, UndoCopy, EndRun
    <3>3. CASE Finish
      BY <3>3, Zenon
         DEF Finish, RemoveFromBucket, RemoveLocal, Uncache, NothingToRemove,
             RelabelRemoved, RelabelRaises, EndMove, ReleaseAfterFailure
    <3> QED
      BY <1>1, <3>1, <3>2, <3>3 DEF Worker
  <2> QED
    BY <2>1 DEF StartsElsewhere
<1>2. CASE Crash
  BY <1>2 DEF Crash, StartsElsewhere
<1>3. CASE Recovery \/ Read \/ Tick
  <2>1. UNCHANGED reqVars
    BY <1>3, Zenon
       DEF Recovery, RecoverSwitched, RecoverUndone, Serve, Read, PreviewLookup, Acquire,
           Find, SendLink, Open, Release, GoStale, ReadUnchanged, Tick
  <2> QED
    BY <2>1 DEF StartsElsewhere
<1> QED
  BY <1>1, <1>2, <1>3

LEMMA IInvStep == IInv /\ [Next]_vars => IInv'
<1> SUFFICES ASSUME IInv, [Next]_vars PROVE IInv'
  OBVIOUS
<1>1. TypeOK /\ WorkerHasMove /\ StartsElsewhere /\ (~overlap => Safe)
  BY DEF IInv, Orderly
<1>2. TypeOK' /\ WorkerHasMove'
  BY <1>1, TypeStep, WorkerHasMoveStep
<1>3. CASE Request
  BY <1>1, <1>2, <1>3, RequestSafe DEF IInv, Orderly
<1>4. CASE Worker \/ Crash \/ Recovery \/ Read \/ Tick
  <2>1. UNCHANGED overlap /\ StartsElsewhere'
    BY <1>1, <1>4, RequestsOnly
  <2>2. ASSUME Safe PROVE Safe'
    BY <1>1, <1>4, <2>2, LoopSafe, RunSafe, FinishSafe, CrashSafe, RecoverySafe, ReadSafe
       DEF Worker
  <2> QED
    BY <1>1, <1>2, <2>1, <2>2 DEF IInv, Orderly
<1>5. CASE UNCHANGED vars
  <2>1. UNCHANGED <<starting, overlap>> /\ (Safe => Safe')
    BY <1>5, FrameStep DEF vars
  <2> QED
    BY <1>1, <1>2, <2>1 DEF IInv, Orderly, StartsElsewhere
<1> QED
  BY <1>3, <1>4, <1>5 DEF Next

LEMMA IInvAlways == Spec => []IInv
<1>1. Init => IInv
  BY InitType, InitSafe DEF IInv, Init, WorkerHasMove, Orderly
<1> QED
  BY <1>1, IInvStep, PTL DEF Spec

(* The place the row names holds the whole model, through every copy,       *)
(* failure, restart and removal, as long as moves are created in order.     *)
THEOREM ModelAvailable == Spec => []Available
<1>1. IInv => Available
  BY DEF IInv, Available, Orderly, Safe
<1> QED
  BY <1>1, IInvAlways, PTL

(* A manifest stands only over a whole copy, so a scan of a bucket never    *)
(* takes half of a model for the model.                                     *)
THEOREM ManifestsTrue == Spec => []Discoverable
<1>1. IInv => Discoverable
  BY DEF IInv, Discoverable, Orderly, Safe
<1> QED
  BY <1>1, IInvAlways, PTL

-----------------------------------------------------------------------------
(* Refinement.                                                             *)

(* A step that rewrites the files of at most one place is a step of         *)
(* ModelPlacement, or none, provided the model is whole afterwards.         *)
LEMMA OnePlaceStep ==
    ASSUME bytes \in [Places -> Copies], bytes' \in [Places -> Copies],
           UNCHANGED row.place, bytes'[row'.place] = "full",
           NEW p \in Places, \A x \in Places \ {p} : bytes'[x] = bytes[x]
    PROVE  Placement!Next \/ UNCHANGED <<row.place, {x \in Places : bytes[x] = "full"}>>
<1>1. CASE bytes'[p] = "full"
  <2>1. Placement!Complete(p)
    BY <1>1, Zenon DEF Placement!Complete
  <2> QED
    BY <2>1 DEF Placement!Next
<1>2. CASE bytes'[p] # "full"
  <2>1. Placement!Lose(p)
    BY <1>2, Zenon DEF Placement!Lose
  <2> QED
    BY <2>1 DEF Placement!Next
<1> QED
  BY <1>1, <1>2

(* The switch goes to a copy that is whole. *)
LEMMA SwitchStep ==
    ASSUME IInv, Orderly, SetLocation
    PROVE  Placement!Next
<1>1. cur \in Moves /\ WorkFits(cur) /\ mv[cur] \in MoveRow
  BY DEF SetLocation, IInv, WorkerHasMove, TypeOK, Safe
<1>2. bytes[mv[cur].dst] = "full" /\ mv[cur].dst \in Places
  BY <1>1, SMT DEF SetLocation, WorkFits, MoveRow
<1>3. row'.place = mv[cur].dst /\ UNCHANGED bytes
  BY SMT DEF SetLocation
<1>4. Placement!Switch(mv[cur].dst)
  BY <1>2, <1>3, Zenon DEF Placement!Switch
<1> QED
  BY <1>2, <1>4 DEF Placement!Next

(* Every other step leaves the place and all but one place's files alone. *)
LEMMA OnePlaceOnly ==
    ASSUME IInv, Orderly, [Next]_vars, ~SetLocation
    PROVE  /\ UNCHANGED row.place
           /\ \E p \in Places : \A x \in Places \ {p} : bytes'[x] = bytes[x]
<1> USE DEF dataVars, memVars, reqVars, readVars, WorkerUnchanged
<1>0. /\ at # "loop" => cur \in Moves /\ mv[cur] \in MoveRow /\ WorkFits(cur)
      /\ bytes \in [Places -> Copies] /\ Local \in Places
  BY DEF IInv, WorkerHasMove, TypeOK, Safe, Places
<1>a. \A m \in Moves : mv[m] \in MoveRow => mv[m].src \in Places /\ mv[m].dst \in Places
  BY SMT DEF MoveRow
<1>b. ASSUME UNCHANGED <<row, bytes>>
      PROVE  /\ UNCHANGED row.place
             /\ \E p \in Places : \A x \in Places \ {p} : bytes'[x] = bytes[x]
  BY <1>0, <1>b
<1>1. CASE Request \/ Loop \/ Read \/ Tick \/ UNCHANGED vars
  <2>1. UNCHANGED <<row, bytes>>
    BY <1>1, Zenon
       DEF Request, StartCheck, StartCreate, CancelRead, CancelApply, Loop, Pick,
           BeginRemoval, WaitAgain, Read, PreviewLookup, Acquire, Find, SendLink, Open,
           Release, GoStale, ReadUnchanged, Tick, vars
  <2> QED
    BY <1>b, <2>1
<1>2. CASE BeginCopy \/ CopyFiles
  <2>1. at # "loop" /\ UNCHANGED row
    BY <1>2 DEF BeginCopy, CopyFiles
  <2>2. \A x \in Places \ {mv[cur].dst} : bytes'[x] = bytes[x]
    BY <1>0, <1>2, SMT DEF BeginCopy, CopyFiles, WriteCopy
  <2> QED
    BY <1>0, <1>a, <2>1, <2>2
<1>3. CASE \/ BeginVerify \/ VerifyCopy \/ BeginSwitch \/ Publish \/ DeleteSourceManifest
           \/ RelabelSwitched \/ BeginDrain \/ RunRaises \/ EndRun
  <2>1. UNCHANGED <<row, bytes>>
    BY <1>3, Zenon
       DEF BeginVerify, VerifyCopy, BeginSwitch, Publish, DeleteSourceManifest,
           RelabelSwitched, BeginDrain, RunRaises, EndRun
  <2> QED
    BY <1>b, <2>1
<1>4. CASE SwapAside \/ SwapIn
  <2>1. UNCHANGED row /\ \A x \in Places \ {Local} : bytes'[x] = bytes[x]
    BY <1>0, <1>4, Zenon DEF SwapAside, SwapIn
  <2> QED
    BY <1>0, <2>1
<1>5. CASE UndoCopy
  <2>1. at # "loop" /\ UNCHANGED row
    BY <1>5 DEF UndoCopy
  <2>2. \A x \in Places \ {mv[cur].dst} : bytes'[x] = bytes[x]
    BY <1>0, <1>5, SMT DEF UndoCopy, DiscardCopy, DeleteBucket
  <2> QED
    BY <1>0, <1>a, <2>1, <2>2
<1>6. CASE RemoveFromBucket
  <2>1. at # "loop" /\ UNCHANGED row
    BY <1>6 DEF RemoveFromBucket
  <2>2. \A x \in Places \ {mv[cur].src} : bytes'[x] = bytes[x]
    BY <1>0, <1>6, SMT DEF RemoveFromBucket, DeleteBucket
  <2> QED
    BY <1>0, <1>a, <2>1, <2>2
<1>7. CASE RemoveLocal
  <2>1. UNCHANGED row /\ \A x \in Places \ {Local} : bytes'[x] = bytes[x]
    BY <1>0, <1>7, Zenon DEF RemoveLocal
  <2> QED
    BY <1>0, <2>1
<1>8. CASE Uncache
  <2>1. UNCHANGED bytes /\ row'.place = mv[cur].dst /\ row.place = mv[cur].dst
    BY <1>0, <1>8, SMT DEF Uncache, WorkFits, Finishing
  <2> QED
    BY <1>0, <2>1
<1>9. CASE \/ NothingToRemove \/ RelabelRemoved \/ RelabelRaises \/ EndMove
           \/ ReleaseAfterFailure
  <2>1. UNCHANGED <<row, bytes>>
    BY <1>9, Zenon
       DEF NothingToRemove, RelabelRemoved, RelabelRaises, EndMove, ReleaseAfterFailure
  <2> QED
    BY <1>b, <2>1
<1>10. CASE Crash
  <2>1. UNCHANGED row
    BY <1>10 DEF Crash
  <2>2. \E p \in Places : \A x \in Places \ {p} : bytes'[x] = bytes[x]
    BY <1>0, <1>10, SMT DEF Crash
  <2> QED
    BY <2>1, <2>2
<1>11. CASE Recovery
  <2>1. ASSUME NEW m \in Moves, RecoverUndone(m)
        PROVE  /\ UNCHANGED row /\ mv[m].dst \in Places
               /\ \A x \in Places \ {mv[m].dst} : bytes'[x] = bytes[x]
    <3>1. mv[m] \in MoveRow
      BY DEF IInv, TypeOK
    <3> QED
      BY <1>0, <1>a, <2>1, <3>1, SMT DEF RecoverUndone, DiscardCopy, DeleteBucket
  <2>2. ASSUME NEW m \in Moves, RecoverSwitched(m) PROVE UNCHANGED <<row, bytes>>
    BY <2>2 DEF RecoverSwitched
  <2>3. CASE Serve
    BY <1>b, <2>3 DEF Serve
  <2> QED
    BY <1>b, <1>11, <2>1, <2>2, <2>3 DEF Recovery
<1> QED
  BY <1>1, <1>2, <1>3, <1>4, <1>5, <1>6, <1>7, <1>8, <1>9, <1>10, <1>11
     DEF Next, Worker, Run, Finish

(* Moves created in order implement ModelPlacement: the model's place        *)
(* changes in one step, and only to a whole copy.                           *)
THEOREM SwitchesInOneStep == OrderlySpec => Switches
<1>1. Init => Placement!Init
  <2> SUFFICES ASSUME Init PROVE Placement!Init
    OBVIOUS
  <2>1. Safe /\ row \in Row
    BY InitSafe DEF Init
  <2>2. row.place \in {p \in Places : bytes[p] = "full"}
    BY <2>1, SMT DEF Safe, Row
  <2> QED
    BY <2>2 DEF Placement!Init
<1>2. IInv /\ Orderly /\ [Next /\ ~overlap']_vars
        => [Placement!Next]_<<row.place, {p \in Places : bytes[p] = "full"}>>
  <2> SUFFICES ASSUME IInv, Orderly, [Next /\ ~overlap']_vars
               PROVE  [Placement!Next]_<<row.place, {p \in Places : bytes[p] = "full"}>>
    OBVIOUS
  <2>1. [Next]_vars /\ ~overlap'
    BY DEF Orderly, vars
  <2>2. bytes \in [Places -> Copies] /\ bytes' \in [Places -> Copies]
        /\ bytes'[row'.place] = "full"
    BY <2>1, IInvStep DEF IInv, Orderly, Safe, TypeOK
  <2>3. CASE SetLocation
    BY <2>3, SwitchStep
  <2>4. CASE ~SetLocation
    <3>1. UNCHANGED row.place
      BY <2>1, <2>4, OnePlaceOnly
    <3>2. PICK p \in Places : \A x \in Places \ {p} : bytes'[x] = bytes[x]
      BY <2>1, <2>4, OnePlaceOnly
    <3> QED
      BY <2>2, <3>1, <3>2, OnePlaceStep
  <2> QED
    BY <2>3, <2>4
<1>3. OrderlySpec => []IInv /\ []Orderly
  <2>1. [Next /\ ~overlap']_vars => [Next]_vars
    BY DEF vars
  <2>2. Init => IInv /\ Orderly
    BY InitType, InitSafe DEF IInv, Init, WorkerHasMove, Orderly
  <2>3. Orderly /\ [Next /\ ~overlap']_vars => Orderly'
    BY DEF Orderly, vars
  <2> QED
    BY <2>1, <2>2, <2>3, IInvStep, PTL DEF OrderlySpec
<1> QED
  BY <1>1, <1>2, <1>3, PTL DEF OrderlySpec, Switches, Placement!Spec
=============================================================================
