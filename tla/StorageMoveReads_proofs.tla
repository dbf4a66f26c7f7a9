----------------------- MODULE StorageMoveReads_proofs -----------------------
(***************************************************************************)
(* Proofs about the reads beside a move, its pinned revision and its end,  *)
(* for any buckets, moves, readers, requests, link lifetime and faults:    *)
(* pulls keep the copy they found, links work until they expire, the       *)
(* pinned revision survives a move without faults, and done means that the *)
(* old copy is gone.                                                       *)
(*                                                                         *)
(* That the model is somewhere whole (Safe, StorageMove_proofs) is not     *)
(* enough: ReadsSafe says of every copy somebody may still read that no    *)
(* move writes it, and that the move which removes it counts the reader,   *)
(* or outlasts the link.                                                   *)
(***************************************************************************)
EXTENDS StorageMove_proofs

(* Past its switch: only what is left of the old copy is in question. *)
Beyond(m) == mv[m].status \in PostSwitch \/ (cur = m /\ at \in Finishing)

(* No storage call of a move goes to the copy as one it writes or undoes. *)
Untouched(p) ==
    /\ bytes[p] = "full"
    /\ p # row.place => \A m \in Moves : Active(m) => p # mv[m].dst

(* A lease is stale only while its files are sent. *)
StaleSends == \A r \in stale : rd[r].pc = "reading"

(* switched_at is written once, when the move begins to drain. *)
NotYetSwitched(m) ==
    \/ mv[m].status \in PreSwitch \union {"absent"}
    \/ cur = m /\ at \in BeforeLocation \union AfterLocation
SwitchedLate == \A m \in Moves : NotYetSwitched(m) => ~mv[m].switchedAt

(* What _finish waited for before it removes anything. *)
Waited(m) ==
    /\ mv[m].status \in PostSwitch \union Ended
    /\ mv[m].src \in Remotes => oldReads[m] \subseteq stale
    /\ mv[m].src \in Direct /\ mv[m].switchedAt => waitLeft[m] = 0
    /\ at = "cleaning" /\ mv[m].src = Local /\ ~mv[m].keep
          => removing /\ Leased \subseteq stale
RemovalWaited == \A m \in Moves : cur = m /\ at \in Finishing => Waited(m)

(* A pull's bucket copy: the move out of that bucket counts the pull. *)
PullHeld(r) ==
    rd[r].pc \in {"found", "reading"} /\ rd[r].place \in Remotes =>
        /\ Untouched(rd[r].place)
        /\ \A m \in Moves : Beyond(m) /\ mv[m].src = rd[r].place =>
              /\ r \in oldReads[m]
              /\ rd[r].pc = "found" /\ rd[r].place \in Direct /\ mv[m].switchedAt
                    => waitLeft[m] = TTL
LocalHeld(r) ==
    rd[r].pc = "reading" /\ rd[r].place = Local /\ ~rd[r].aside => bytes[Local] # "none"

(* A link's bucket copy: the move out of that bucket outlasts the link.      *)
(* Unless its switch was never recorded, which no later step repairs.       *)
Unrecorded(m) == SwitchUnrecorded(m) /\ (cur = m => at \in Finishing)
LinkHeld(p) ==
    linkLeft[p] > 0 =>
        \/ \E m \in Moves : mv[m].src = p /\ Unrecorded(m)
        \/ /\ Untouched(p)
           /\ \A m \in Moves : Beyond(m) /\ mv[m].src = p /\ mv[m].switchedAt
                 => linkLeft[p] <= waitLeft[m]

(* No reader outlives the server. *)
DownIdle == ~up => \A r \in Readers : rd[r].pc = "idle"

ReadsSafe ==
    /\ DownIdle
    /\ StaleSends
    /\ SwitchedLate
    /\ RemovalWaited
    /\ \A r \in Pulls \ stale : PullHeld(r) /\ LocalHeld(r)
    /\ \A p \in Direct : LinkHeld(p)

(* Where the pinned revision can fail to resolve: between the step that      *)
(* remembers it and the _relabel that follows.                              *)
Remembering == {"switching", "published", "swapped", "placed", "located", "unlisted",
                "cleaning", "uncache", "removed"}
PinRemembered ==
    faults = 0 =>
        /\ at \in Remembering => held
        /\ at \notin Remembering \/ at \in {"switching", "cleaning"} => resolves

(* What is gone before a move may end as "done". *)
Gone ==
    /\ \A m \in Moves : cur = m => mv[m].status # "absent"
    /\ at = "uncache" => mv[cur].src = Local /\ bytes[Local] = "none"
    /\ at \in {"removed", "released"} => mv[cur].keep \/ bytes[mv[cur].src] = "none"

(* The whole inductive invariant. *)
FullInv ==
    /\ IInv
    /\ PinRemembered
    /\ Gone
    /\ Orderly => ReadsSafe

-----------------------------------------------------------------------------
(* The pinned revision.                                                    *)

(* Faults are counted and never forgotten. *)
LEMMA FaultsCount == faults \in Nat /\ Fault => faults' # 0
  BY SMT DEF Fault

LEMMA PinStep ==
    ASSUME TypeOK, PinRemembered, [Next]_vars
    PROVE  PinRemembered'
<1> USE DEF dataVars, workVars, memVars, reqVars, readVars, WorkerUnchanged
<1>a. faults \in Nat
  BY DEF TypeOK
<1>f. ASSUME Fault PROVE PinRemembered'
  BY <1>a, <1>f, FaultsCount DEF PinRemembered
<1>g. ASSUME UNCHANGED <<at, held, resolves, faults>> PROVE PinRemembered'
  BY <1>g DEF PinRemembered
<1>1. CASE Request \/ Read \/ Tick \/ UNCHANGED vars
  <2>1. UNCHANGED <<at, held, resolves, faults>>
    BY <1>1, Zenon
       DEF Request, StartCheck, StartCreate, CancelRead, CancelApply, Read, PreviewLookup,
           Acquire, Find, SendLink, Open, Release, GoStale, ReadUnchanged, Tick, vars
  <2> QED
    BY <1>g, <2>1
<1>2. CASE Loop
  <2>1. CASE \E m \in Moves : Pick(m) \/ WaitAgain(m)
    <3>1. at = "loop" /\ at' \in {"loop", "picked"} /\ UNCHANGED <<held, resolves, faults>>
      BY <2>1, Zenon DEF Pick, WaitAgain
    <3> QED
      BY <3>1, Zenon DEF PinRemembered, Remembering
  <2>2. CASE \E m \in Moves : BeginRemoval(m)
    <3>1. /\ at = "loop" /\ at' = "cleaning"
          /\ held' = resolves /\ UNCHANGED <<resolves, faults>>
      BY <2>2, Zenon DEF BeginRemoval
    <3> QED
      BY <3>1, Zenon DEF PinRemembered, Remembering
  <2> QED
    BY <1>2, <2>1, <2>2 DEF Loop
<1>3. CASE Run
  <2>1. CASE BeginCopy \/ CopyFiles \/ BeginVerify \/ VerifyCopy
    BY <1>f, <2>1, Zenon
       DEF BeginCopy, CopyFiles, BeginVerify, VerifyCopy, PinRemembered, Remembering
  <2>2. CASE BeginSwitch
    BY <2>2, Zenon DEF BeginSwitch, PinRemembered, Remembering
  <2>3. CASE Publish \/ SwapAside \/ SwapIn \/ SetLocation \/ DeleteSourceManifest
    BY <2>3, Zenon
       DEF Publish, SwapAside, SwapIn, SetLocation, DeleteSourceManifest, PinRemembered,
           Remembering
  <2>4. CASE RelabelSwitched
    BY <1>f, <2>4, Zenon DEF RelabelSwitched, Relabel, PinRemembered, Remembering
  <2>5. CASE BeginDrain \/ EndRun
    BY <2>5, Zenon DEF BeginDrain, EndRun, BackToLoop, PinRemembered, Remembering
  <2>6. CASE RunRaises
    BY <1>f, <2>6, Zenon DEF RunRaises, CopyWrong, PinRemembered, Remembering
  <2>7. CASE UndoCopy
    BY <1>f, <2>7, Zenon DEF UndoCopy, DiscardCopy, DeleteBucket, PinRemembered, Remembering
  <2> QED
    BY <1>3, <2>1, <2>2, <2>3, <2>4, <2>5, <2>6, <2>7 DEF Run
<1>4. CASE Finish
  <2>1. CASE RemoveFromBucket
    BY <1>f, <2>1, Zenon DEF RemoveFromBucket, DeleteBucket, PinRemembered, Remembering
  <2>2. CASE RemoveLocal \/ Uncache \/ NothingToRemove
    BY <1>f, <2>2, Zenon
       DEF RemoveLocal, Uncache, NothingToRemove, PinRemembered, Remembering
  <2>3. CASE RelabelRemoved \/ RelabelRaises
    BY <1>f, <2>3, Zenon
       DEF RelabelRemoved, RelabelRaises, Relabel, PinRemembered, Remembering
  <2>4. CASE EndMove \/ ReleaseAfterFailure
    BY <2>4, Zenon
       DEF EndMove, ReleaseAfterFailure, BackToLoop, PinRemembered, Remembering
  <2> QED
    BY <1>4, <2>1, <2>2, <2>3, <2>4 DEF Finish
<1>5. CASE Crash
  BY <1>5, <1>f DEF Crash
<1>6. CASE Recovery
  <2>1. Fault \/ UNCHANGED <<at, held, resolves, faults>>
    BY <1>6, Zenon
       DEF Recovery, RecoverSwitched, RecoverUndone, DiscardCopy, DeleteBucket, Serve
  <2> QED
    BY <1>f, <1>g, <2>1
<1> QED
  BY <1>1, <1>2, <1>3, <1>4, <1>5, <1>6 DEF Next, Worker

-----------------------------------------------------------------------------
(* The end of a move.                                                      *)

LEMMA GoneStep ==
    ASSUME TypeOK, WorkerHasMove, Gone, [Next]_vars
    PROVE  Gone'
<1> USE DEF dataVars, workVars, memVars, reqVars, readVars, WorkerUnchanged
<1>a. /\ mv \in [Moves -> MoveRow] /\ bytes \in [Places -> Copies]
      /\ at # "loop" => cur \in Moves
      /\ \A m \in Moves : mv[m].src \in Places
      /\ \A m \in Moves : cur = m => mv[m].status # "absent"
  BY SMT DEF TypeOK, WorkerHasMove, MoveRow, Gone
<1>b. ASSUME UNCHANGED <<at, cur, mv, bytes>> PROVE Gone'
  BY <1>b DEF Gone
<1>c. ASSUME cur' = NoMove, at' = "loop" PROVE Gone'
  BY <1>c, PlacesAssumption DEF Gone
(* A step that sets the status of the move at work and goes nowhere near its end. *)
<1>d. ASSUME cur' \in Moves, mv'[cur'].status # "absent",
             at' \notin {"uncache", "removed", "released"}
      PROVE  Gone'
  BY <1>d DEF Gone
<1>1. CASE Request
  <2>0. PICK q \in Requests :
            \/ \E dst \in Places, keep \in BOOLEAN : StartCheck(q, dst, keep)
            \/ \E m \in Moves : StartCreate(q, m) \/ CancelRead(q, m)
            \/ CancelApply(q)
    BY <1>1 DEF Request
  <2>1. UNCHANGED <<at, cur, bytes>>
    BY <2>0, Zenon DEF StartCheck, StartCreate, CancelRead, CancelApply
  <2>2. \A n \in Moves : cur = n =>
            mv'[n].status # "absent" /\ mv'[n].src = mv[n].src /\ mv'[n].keep = mv[n].keep
    <3>1. CASE \/ \E dst \in Places, keep \in BOOLEAN : StartCheck(q, dst, keep)
               \/ \E m \in Moves : CancelRead(q, m)
      BY <1>a, <3>1 DEF StartCheck, CancelRead
    <3>2. ASSUME NEW m \in Moves, StartCreate(q, m), NEW n \in Moves, cur = n
          PROVE  mv'[n] = mv[n]
      BY <1>a, <3>2, SMT DEF StartCreate
    <3>3. ASSUME CancelApply(q), NEW n \in Moves
          PROVE  /\ mv'[n].src = mv[n].src /\ mv'[n].keep = mv[n].keep
                 /\ mv'[n].status \in {mv[n].status, "cancelled"}
      <4>1. mv'[n] = mv[n] \/ mv'[n] = [mv[n] EXCEPT !.status = "cancelled"]
        BY <1>a, <3>3, SMT DEF CancelApply
      <4>2. /\ mv'[n].src = mv[n].src
            /\ mv'[n].status \in {mv[n].status, "cancelled"}
        BY <1>a, <4>1, SMT DEF MoveRow
      <4>3. mv'[n].keep = mv[n].keep
        BY <1>a, <4>1, Zenon DEF MoveRow
      <4> QED
        BY <4>2, <4>3
    <3> QED
      BY <1>a, <2>0, <3>1, <3>2, <3>3
  <2>3. at \in {"uncache", "removed", "released"} => cur \in Moves
    BY <1>a
  <2> QED
    BY <2>1, <2>2, <2>3, Zenon DEF Gone
<1>2. CASE Loop
  <2> PICK m \in Moves : Pick(m) \/ BeginRemoval(m) \/ WaitAgain(m)
    BY <1>2 DEF Loop
  <2>1. CASE Pick(m)
    BY <1>d, <2>1, SMT DEF Pick
  <2>2. CASE BeginRemoval(m)
    <3>1. mv'[m].status = "cleaning" /\ cur' = m /\ at' = "cleaning"
      BY <1>a, <2>2, SMT DEF BeginRemoval, SetStatus, MoveRow
    <3> QED
      BY <1>d, <3>1
  <2>3. CASE WaitAgain(m)
    <3>1. at' = "loop" /\ cur' = NoMove
      BY <2>3 DEF WaitAgain, WorkerHasMove
    <3> QED
      BY <1>c, <3>1
  <2> QED
    BY <2>1, <2>2, <2>3
<1>3. CASE Run
  <2>1. CASE BeginDrain \/ EndRun
    BY <1>c, <2>1 DEF BeginDrain, EndRun, BackToLoop
  <2>2. CASE BeginCopy \/ BeginVerify \/ BeginSwitch
    <3>1. /\ cur \in Moves /\ cur' = cur
          /\ at' \in {"copying", "verifying", "switching"}
      BY <1>a, <2>2 DEF BeginCopy, BeginVerify, BeginSwitch
    <3>2. mv'[cur].status \in {"copying", "verifying", "switching"}
      BY <1>a, <2>2, <3>1, SMT DEF BeginCopy, BeginVerify, BeginSwitch, SetStatus, MoveRow
    <3> QED
      BY <1>d, <3>1, <3>2
  <2>3. CASE \/ CopyFiles \/ VerifyCopy \/ Publish \/ SwapAside \/ SwapIn \/ SetLocation
             \/ DeleteSourceManifest \/ RelabelSwitched \/ RunRaises \/ UndoCopy
    <3>1. /\ at # "loop" /\ cur' = cur /\ mv' = mv
          /\ at' \notin {"uncache", "removed", "released"}
      BY <2>3, Zenon
         DEF CopyFiles, VerifyCopy, Publish, SwapAside, SwapIn, SetLocation,
             DeleteSourceManifest, RelabelSwitched, RunRaises, UndoCopy, BeforeLocation,
             AfterLocation
    <3> QED
      BY <1>a, <1>d, <3>1
  <2> QED
    BY <1>3, <2>1, <2>2, <2>3 DEF Run
<1>4. CASE Finish
  <2>0. at # "loop" /\ cur \in Moves /\ mv[cur] \in MoveRow /\ mv[cur].status # "absent"
    BY <1>a, <1>4, Zenon
       DEF Finish, RemoveFromBucket, RemoveLocal, Uncache, NothingToRemove,
           RelabelRemoved, RelabelRaises, EndMove, ReleaseAfterFailure
  <2>f. ASSUME SetStatus(cur, "failed"), cur' = cur, at' = "releasing" PROVE Gone'
    <3>1. mv'[cur].status = "failed"
      BY <1>a, <2>0, <2>f, SMT DEF SetStatus, MoveRow
    <3> QED
      BY <1>d, <2>0, <2>f, <3>1
  <2>1. CASE RemoveFromBucket
    <3>1. CASE faults' = faults
      <4>1. bytes' = [bytes EXCEPT ![mv[cur].src] = "none"]
        BY <2>1, <3>1, SMT DEF RemoveFromBucket, DeleteBucket, Fault, TypeOK
      <4>2. bytes'[mv[cur].src] = "none" /\ UNCHANGED <<mv, cur>> /\ at' = "removed"
        BY <1>a, <2>0, <2>1, <3>1, <4>1, SMT DEF RemoveFromBucket
      <4> QED
        BY <1>a, <2>0, <4>2 DEF Gone
    <3>2. CASE faults' # faults
      BY <2>1, <2>f, <3>2 DEF RemoveFromBucket
    <3> QED
      BY <3>1, <3>2
  <2>2. CASE RemoveLocal
    <3>1. CASE /\ bytes' = [bytes EXCEPT ![Local] = "none"]
               /\ at' = "uncache" /\ UNCHANGED mv
      <4>1. bytes'[Local] = "none" /\ mv'[cur'].src = Local /\ cur' = cur
        BY <1>a, <2>0, <2>2, <3>1, SMT DEF RemoveLocal, Places
      <4> QED
        BY <1>a, <2>0, <3>1, <4>1 DEF Gone
    <3>2. CASE at' = "releasing" /\ SetStatus(cur, "failed")
      BY <2>2, <2>f, <3>2 DEF RemoveLocal
    <3> QED
      BY <2>2, <3>1, <3>2, Zenon DEF RemoveLocal
  <2>3. CASE Uncache
    BY <1>a, <2>0, <2>3 DEF Uncache, Gone
  <2>4. CASE NothingToRemove
    BY <1>a, <2>0, <2>4 DEF NothingToRemove, Gone
  <2>5. CASE RelabelRemoved
    BY <1>a, <2>0, <2>5 DEF RelabelRemoved, Gone
  <2>6. CASE RelabelRaises
    BY <2>6, <2>f DEF RelabelRaises
  <2>7. CASE EndMove \/ ReleaseAfterFailure
    BY <1>c, <2>7 DEF EndMove, ReleaseAfterFailure, BackToLoop
  <2> QED
    BY <1>4, <2>1, <2>2, <2>3, <2>4, <2>5, <2>6, <2>7 DEF Finish
<1>5. CASE Crash
  BY <1>5, <1>c DEF Crash, BackToLoop
<1>6. CASE Recovery
  <2>1. at' = "loop" /\ cur' = NoMove
    BY <1>6, Zenon DEF Recovery, RecoverSwitched, RecoverUndone, Serve, WorkerHasMove
  <2> QED
    BY <1>c, <2>1
<1>7. CASE Read \/ Tick \/ UNCHANGED vars
  <2>1. UNCHANGED <<at, cur, mv, bytes>>
    BY <1>7, Zenon
       DEF Read, PreviewLookup, Acquire, Find, SendLink, Open, Release, GoStale,
           ReadUnchanged, Tick, vars
  <2> QED
    BY <1>b, <2>1
<1> QED
  BY <1>1, <1>2, <1>3, <1>4, <1>5, <1>6, <1>7 DEF Next, Worker

-----------------------------------------------------------------------------
(* Reads and links.                                                        *)

(* Without a step of a reader or the clock: what a pull and a link rely on   *)
(* stays as long as nothing touches the copy and no further move is past    *)
(* its switch.                                                              *)
LEMMA PullKept ==
    ASSUME NEW r \in Readers, PullHeld(r), UNCHANGED <<oldReads, waitLeft>>,
           rd'[r].pc = rd[r].pc, rd'[r].place = rd[r].place,
           \A m \in Moves : Beyond(m)' =>
               Beyond(m) /\ mv'[m].src = mv[m].src /\ mv'[m].switchedAt = mv[m].switchedAt,
           \A p \in Remotes : rd[r].pc \in {"found", "reading"} /\ rd[r].place = p
               => Untouched(p)'
    PROVE  PullHeld(r)'
<1> SUFFICES ASSUME rd'[r].pc \in {"found", "reading"}, rd'[r].place \in Remotes
             PROVE  /\ Untouched(rd[r].place)'
                    /\ \A m \in Moves : Beyond(m)' /\ mv'[m].src = rd'[r].place =>
                          /\ r \in oldReads'[m]
                          /\ /\ rd'[r].pc = "found" /\ rd'[r].place \in Direct
                             /\ mv'[m].switchedAt
                             => waitLeft'[m] = TTL
  BY Zenon DEF PullHeld, Untouched, Active
<1>1. Untouched(rd[r].place)'
  <2>1. rd[r].place \in Remotes /\ rd[r].pc \in {"found", "reading"}
    OBVIOUS
  <2>2. PICK p \in Remotes : rd[r].place = p
    BY <2>1
  <2>3. Untouched(p)'
    BY <2>1, <2>2
  <2>4. rd'[r].place = p
    BY <2>2
  <2> QED
    BY <2>3, <2>4 DEF Untouched
<1>2. \A m \in Moves : Beyond(m) /\ mv[m].src = rd[r].place =>
          /\ r \in oldReads[m]
          /\ rd[r].pc = "found" /\ rd[r].place \in Direct /\ mv[m].switchedAt
                => waitLeft[m] = TTL
  BY Zenon DEF PullHeld
<1> QED
  BY <1>1, <1>2, Zenon

LEMMA LinkKept ==
    ASSUME NEW p \in Direct, LinkHeld(p), UNCHANGED <<linkLeft, waitLeft>>,
           \A m \in Moves : Beyond(m)' /\ mv'[m].src = p /\ mv'[m].switchedAt =>
               Beyond(m) /\ mv[m].src = p /\ mv[m].switchedAt,
           \A m \in Moves : Unrecorded(m) => Unrecorded(m)' /\ mv'[m].src = mv[m].src,
           linkLeft[p] > 0 /\ Untouched(p)
               => Untouched(p)' \/ \E m \in Moves : mv'[m].src = p /\ Unrecorded(m)'
    PROVE  LinkHeld(p)'
<1>1. CASE \E m \in Moves : mv[m].src = p /\ Unrecorded(m)
  BY <1>1, Zenon DEF LinkHeld
<1>2. CASE ~ \E m \in Moves : mv[m].src = p /\ Unrecorded(m)
  BY <1>2, Zenon DEF LinkHeld
<1> QED
  BY <1>1, <1>2

LEMMA QuietStep ==
    ASSUME TypeOK, ReadsSafe, UNCHANGED <<stale, oldReads, linkLeft, waitLeft>>,
           ~up' => ~up,
           \A r \in Readers : rd'[r].pc = rd[r].pc /\ rd'[r].place = rd[r].place,
           \A m \in Moves : Beyond(m)' =>
               Beyond(m) /\ mv'[m].src = mv[m].src /\ mv'[m].switchedAt = mv[m].switchedAt,
           \A m \in Moves : Unrecorded(m) => Unrecorded(m)' /\ mv'[m].src = mv[m].src,
           SwitchedLate', RemovalWaited',
           \A r \in Pulls \ stale : LocalHeld(r)',
           \A r \in Pulls \ stale, p \in Remotes :
               rd[r].pc \in {"found", "reading"} /\ rd[r].place = p => Untouched(p)',
           \A p \in Direct : linkLeft[p] > 0 /\ Untouched(p)
               => Untouched(p)' \/ \E m \in Moves : mv'[m].src = p /\ Unrecorded(m)'
    PROVE  ReadsSafe'
<1>1. DownIdle' /\ StaleSends'
  <2>1. stale \subseteq Readers
    BY DEF TypeOK
  <2> QED
    BY <2>1, Zenon DEF ReadsSafe, DownIdle, StaleSends
<1>2. \A r \in Pulls \ stale' : PullHeld(r)'
  <2> SUFFICES ASSUME NEW r \in Pulls \ stale PROVE PullHeld(r)'
    OBVIOUS
  <2>1. r \in Readers /\ PullHeld(r)
    BY DEF Readers, ReadsSafe
  <2> QED
    BY <2>1, PullKept
<1>3. \A p \in Direct : LinkHeld(p)'
  <2> SUFFICES ASSUME NEW p \in Direct PROVE LinkHeld(p)'
    OBVIOUS
  <2>1. LinkHeld(p)
    BY DEF ReadsSafe
  <2>2. \A m \in Moves : Beyond(m)' /\ mv'[m].src = p /\ mv'[m].switchedAt =>
               Beyond(m) /\ mv[m].src = p /\ mv[m].switchedAt
    BY Zenon
  <2> QED
    BY <2>1, <2>2, LinkKept
<1> QED
  BY <1>1, <1>2, <1>3 DEF ReadsSafe

(* ... in particular when no copy is written that somebody may read. *)
LEMMA CopiesKept ==
    ASSUME TypeOK, ReadsSafe, UNCHANGED <<stale, oldReads, linkLeft, waitLeft>>,
           ~up' => ~up,
           \A r \in Readers : rd'[r].pc = rd[r].pc /\ rd'[r].place = rd[r].place,
           \A m \in Moves : Beyond(m)' =>
               Beyond(m) /\ mv'[m].src = mv[m].src /\ mv'[m].switchedAt = mv[m].switchedAt,
           \A m \in Moves : Unrecorded(m) => Unrecorded(m)' /\ mv'[m].src = mv[m].src,
           SwitchedLate', RemovalWaited',
           \A r \in Pulls \ stale : LocalHeld(r)',
           \A p \in Remotes : Untouched(p) => Untouched(p)'
    PROVE  ReadsSafe'
<1>1. \A r \in Pulls \ stale, p \in Remotes :
          rd[r].pc \in {"found", "reading"} /\ rd[r].place = p => Untouched(p)'
  BY DEF ReadsSafe, PullHeld
<1>2. \A p \in Direct : Untouched(p) => Untouched(p)'
  BY PlacesAssumption
<1> QED
  BY <1>1, <1>2, QuietStep

(* The folder on disk stays as it is, or stays there. *)
LEMMA LocalKept ==
    ASSUME ReadsSafe, UNCHANGED rd, bytes'[Local] = "none" => bytes[Local] = "none"
    PROVE  \A r \in Pulls \ stale : LocalHeld(r)'
  BY Zenon DEF ReadsSafe, LocalHeld

(* A copy that no step writes stays untouched while no move is added. *)
LEMMA UntouchedKept ==
    ASSUME NEW p \in Places, Untouched(p), UNCHANGED row.place, bytes'[p] = bytes[p],
           \A m \in Moves : Active(m)' => Active(m) /\ mv'[m].dst = mv[m].dst
    PROVE  Untouched(p)'
  BY DEF Untouched

(* What setting a move's status leaves of its row. *)
LEMMA StatusOnly ==
    ASSUME mv \in [Moves -> MoveRow], NEW m \in Moves, NEW s, SetStatus(m, s)
    PROVE  /\ \A n \in Moves \ {m} : mv'[n] = mv[n]
           /\ mv'[m].status = s /\ mv'[m].src = mv[m].src /\ mv'[m].dst = mv[m].dst
           /\ mv'[m].keep = mv[m].keep /\ mv'[m].switchedAt = mv[m].switchedAt
<1>1. mv' = [mv EXCEPT ![m] = [mv[m] EXCEPT !.status = s]] /\ mv[m] \in MoveRow
  BY Zenon DEF SetStatus
<1>2. mv'[m] = [mv[m] EXCEPT !.status = s] /\ \A n \in Moves \ {m} : mv'[n] = mv[n]
  BY <1>1, Zenon
<1>3. mv'[m].status = s /\ mv'[m].src = mv[m].src /\ mv'[m].dst = mv[m].dst
  BY <1>1, <1>2, SMT DEF MoveRow
<1>4. mv'[m].keep = mv[m].keep
  BY <1>1, <1>2, Zenon DEF MoveRow
<1>5. mv'[m].switchedAt = mv[m].switchedAt
  BY <1>1, <1>2, Zenon DEF MoveRow
<1> QED
  BY <1>2, <1>3, <1>4, <1>5

(* The thread goes on with a move it is not finishing. *)
LEMMA BusyStep ==
    ASSUME TypeOK, ReadsSafe, NEW m \in Moves, cur = m, cur' = m,
           at \notin Finishing, at' \notin Finishing,
           at' \in BeforeLocation \union AfterLocation
               => at \in BeforeLocation \union AfterLocation,
           \A n \in Moves \ {m} : mv'[n] = mv[n],
           mv'[m].src = mv[m].src, mv'[m].switchedAt = mv[m].switchedAt,
           \/ mv'[m].status = mv[m].status
           \/ mv'[m].status \in PreSwitch /\ at \in BeforeLocation,
           UNCHANGED <<stale, oldReads, linkLeft, waitLeft, up>>,
           \A r \in Readers : rd'[r].pc = rd[r].pc /\ rd'[r].place = rd[r].place,
           \A r \in Pulls \ stale : LocalHeld(r)',
           \A p \in Remotes : Untouched(p) => Untouched(p)'
    PROVE  ReadsSafe'
<1>0. PreSwitch \intersect PostSwitch = {}
  BY DEF PreSwitch, PostSwitch
<1>1. \A n \in Moves : Beyond(n)' =>
          Beyond(n) /\ mv'[n].src = mv[n].src /\ mv'[n].switchedAt = mv[n].switchedAt
  <2> SUFFICES ASSUME NEW n \in Moves, Beyond(n)'
               PROVE  /\ Beyond(n)
                      /\ mv'[n].src = mv[n].src /\ mv'[n].switchedAt = mv[n].switchedAt
    OBVIOUS
  <2>1. mv'[n].status \in PostSwitch
    BY DEF Beyond
  <2>2. CASE n = m
    BY <1>0, <2>1, <2>2, Zenon DEF Beyond
  <2>3. CASE n # m
    BY <2>1, <2>3, Zenon DEF Beyond
  <2> QED
    BY <2>2, <2>3
<1>2. \A n \in Moves : Unrecorded(n) => Unrecorded(n)' /\ mv'[n].src = mv[n].src
  <2> SUFFICES ASSUME NEW n \in Moves, Unrecorded(n)
               PROVE  Unrecorded(n)' /\ mv'[n].src = mv[n].src
    OBVIOUS
  <2>1. n # m
    BY DEF Unrecorded
  <2>2. mv'[n] = mv[n]
    BY <2>1
  <2> QED
    BY <2>1, <2>2, Zenon DEF Unrecorded, SwitchUnrecorded
<1>3. SwitchedLate'
  <2> SUFFICES ASSUME NEW n \in Moves, NotYetSwitched(n)' PROVE ~mv'[n].switchedAt
    BY DEF SwitchedLate
  <2>1. NotYetSwitched(n) /\ mv'[n].switchedAt = mv[n].switchedAt
    <3>1. CASE n = m
      BY <3>1, Zenon DEF NotYetSwitched
    <3>2. CASE n # m
      BY <3>2, Zenon DEF NotYetSwitched
    <3> QED
      BY <3>1, <3>2
  <2> QED
    BY <2>1, Zenon DEF ReadsSafe, SwitchedLate
<1>4. RemovalWaited'
  BY DEF RemovalWaited
<1> QED
  BY <1>1, <1>2, <1>3, <1>4, CopiesKept

(* The thread leaves a move it was not finishing, or finishes it. *)
LEMMA EndedStep ==
    ASSUME TypeOK, ReadsSafe, NEW m \in Moves, cur = m, cur' \in {m, NoMove},
           (at \in Undoing /\ cur' = NoMove) \/ at \in Finishing,
           cur' = m => at' \in Finishing \ {"cleaning"},
           \A n \in Moves \ {m} : mv'[n] = mv[n],
           mv'[m].src = mv[m].src, mv'[m].switchedAt = mv[m].switchedAt,
           \/ mv'[m].status = mv[m].status /\ at \in Finishing
           \/ mv'[m].status \in Ended,
           UNCHANGED <<rd, stale, oldReads, linkLeft, waitLeft, up>>
    PROVE  /\ \A n \in Moves : Beyond(n)' =>
                  Beyond(n) /\ mv'[n].src = mv[n].src /\ mv'[n].switchedAt = mv[n].switchedAt
           /\ \A n \in Moves : Unrecorded(n) => Unrecorded(n)' /\ mv'[n].src = mv[n].src
           /\ SwitchedLate'
           /\ RemovalWaited'
<1>0. /\ Ended \intersect (PreSwitch \union PostSwitch \union {"absent"}) = {}
      /\ m # NoMove /\ \A n \in Moves \ {m} : cur # n /\ cur' # n
      /\ Finishing \intersect (BeforeLocation \union AfterLocation \union Undoing) = {}
      /\ PostSwitch \intersect (PreSwitch \union {"absent"}) = {}
  BY PlacesAssumption, SMT
     DEF Ended, PreSwitch, PostSwitch, Finishing, BeforeLocation, AfterLocation, Undoing
<1>w. at \in Finishing => Waited(m)
  BY DEF ReadsSafe, RemovalWaited
<1>s. at \in Finishing => mv[m].status \in PostSwitch \union Ended
  BY <1>w DEF Waited
<1>1. \A n \in Moves : Beyond(n)' =>
          Beyond(n) /\ mv'[n].src = mv[n].src /\ mv'[n].switchedAt = mv[n].switchedAt
  <2> SUFFICES ASSUME NEW n \in Moves, Beyond(n)'
               PROVE  /\ Beyond(n)
                      /\ mv'[n].src = mv[n].src /\ mv'[n].switchedAt = mv[n].switchedAt
    OBVIOUS
  <2>1. CASE n = m
    <3>1. at \in Finishing
      BY <1>0, <2>1 DEF Beyond
    <3> QED
      BY <2>1, <3>1, Zenon DEF Beyond
  <2>2. CASE n # m
    BY <1>0, <2>2, Zenon DEF Beyond
  <2> QED
    BY <2>1, <2>2
<1>2. \A n \in Moves : Unrecorded(n) => Unrecorded(n)' /\ mv'[n].src = mv[n].src
  <2> SUFFICES ASSUME NEW n \in Moves, Unrecorded(n)
               PROVE  Unrecorded(n)' /\ mv'[n].src = mv[n].src
    OBVIOUS
  <2>1. CASE n = m
    <3>1. mv'[m].status \in PostSwitch \union Ended
      BY <2>1, Zenon DEF Unrecorded, SwitchUnrecorded
    <3> QED
      BY <1>0, <2>1, <3>1, Zenon DEF Unrecorded, SwitchUnrecorded
  <2>2. CASE n # m
    BY <1>0, <2>2, Zenon DEF Unrecorded, SwitchUnrecorded
  <2> QED
    BY <2>1, <2>2
<1>3. SwitchedLate'
  <2> SUFFICES ASSUME NEW n \in Moves, NotYetSwitched(n)' PROVE ~mv'[n].switchedAt
    BY DEF SwitchedLate
  <2>1. n # m
    <3>1. mv'[m].status \in PostSwitch \union Ended
      BY <1>s
    <3> QED
      BY <1>0, <3>1 DEF NotYetSwitched
  <2>2. NotYetSwitched(n) /\ mv'[n].switchedAt = mv[n].switchedAt
    BY <1>0, <2>1, Zenon DEF NotYetSwitched
  <2> QED
    BY <2>2, Zenon DEF ReadsSafe, SwitchedLate
<1>4. RemovalWaited'
  <2> SUFFICES ASSUME cur' = m, at' \in Finishing PROVE Waited(m)'
    BY <1>0 DEF RemovalWaited
  <2>1. at \in Finishing /\ at' # "cleaning" /\ Waited(m)
    BY <1>0, <1>w
  <2>2. mv'[m].status \in PostSwitch \union Ended
    BY <1>s, <2>1
  <2> QED
    BY <2>1, <2>2, Zenon DEF Waited
<1> QED
  BY <1>1, <1>2, <1>3, <1>4

(* The move begins to drain: it counts the leases there are, and outlasts   *)
(* the links there are.                                                     *)
LEMMA DrainReads ==
    ASSUME TypeOK, ReadsSafe, OneActive, NEW m \in Moves, cur = m, Active(m), BeginDrain
    PROVE  ReadsSafe'
<1> USE DEF dataVars, memVars, reqVars, readVars, WorkerUnchanged
<1>0. /\ m # NoMove /\ cur' = NoMove /\ at = "relabelled" /\ at' = "loop"
      /\ \A n \in Moves : cur' # n
      /\ UNCHANGED <<row, bytes, rd, stale, linkLeft, up>>
      /\ mv \in [Moves -> MoveRow] /\ mv[m] \in MoveRow
      /\ waitLeft \in [Moves -> 0..TTL] /\ oldReads \in [Moves -> SUBSET Readers]
      /\ Remotes \subseteq Places /\ Direct \subseteq Remotes
  BY PlacesAssumption, Zenon DEF BeginDrain, BackToLoop, TypeOK, Places
<1>1. /\ \A n \in Moves \ {m} :
            mv'[n] = mv[n] /\ waitLeft'[n] = waitLeft[n] /\ oldReads'[n] = oldReads[n]
      /\ mv'[m] = [mv[m] EXCEPT !.status = "draining", !.switchedAt = TRUE]
      /\ waitLeft'[m] = IF mv[m].src \in Direct THEN TTL ELSE 0
      /\ oldReads'[m] = Leased
  BY <1>0, Zenon DEF BeginDrain
<1>2. mv'[m].status = "draining" /\ mv'[m].src = mv[m].src /\ mv'[m].dst = mv[m].dst
  BY <1>0, <1>1, SMT DEF MoveRow
<1>3. \A p \in Remotes : Untouched(p) => Untouched(p)'
  <2>1. \A n \in Moves : Active(n)' => Active(n) /\ mv'[n].dst = mv[n].dst
    BY <1>0, <1>1, <1>2, Zenon DEF Active
  <2> QED
    BY <1>0, <2>1, UntouchedKept
<1>4. \A n \in Moves \ {m} : ~Beyond(n)'
  <2>1. \A n \in Moves \ {m} : mv[n].status \notin Unfinished
    BY DEF OneActive, Active
  <2> QED
    BY <1>0, <1>1, <2>1 DEF Beyond, Unfinished
<1>5. DownIdle' /\ StaleSends'
  BY <1>0, Zenon DEF ReadsSafe, DownIdle, StaleSends
<1>6. SwitchedLate'
  <2> SUFFICES ASSUME NEW n \in Moves, NotYetSwitched(n)' PROVE ~mv'[n].switchedAt
    BY DEF SwitchedLate
  <2>1. n # m
    BY <1>0, <1>2 DEF NotYetSwitched, PreSwitch
  <2>2. NotYetSwitched(n) /\ mv'[n] = mv[n]
    BY <1>0, <1>1, <2>1, Zenon DEF NotYetSwitched
  <2> QED
    BY <2>2, Zenon DEF ReadsSafe, SwitchedLate
<1>7. RemovalWaited'
  BY <1>0 DEF RemovalWaited
<1>8. \A r \in Pulls \ stale' : PullHeld(r)' /\ LocalHeld(r)'
  <2> SUFFICES ASSUME NEW r \in Pulls \ stale PROVE PullHeld(r)' /\ LocalHeld(r)'
    BY <1>0
  <2>1. PullHeld(r) /\ LocalHeld(r) /\ r \in Readers
    BY DEF ReadsSafe, Readers
  <2>2. LocalHeld(r)'
    BY <1>0, <2>1, Zenon DEF LocalHeld
  <2>3. PullHeld(r)'
    <3> SUFFICES ASSUME rd[r].pc \in {"found", "reading"}, NEW p \in Remotes, rd[r].place = p
                 PROVE  /\ Untouched(p)'
                        /\ \A n \in Moves : Beyond(n)' /\ mv'[n].src = p =>
                              /\ r \in oldReads'[n]
                              /\ p \in Direct => waitLeft'[n] = TTL
      BY <1>0, Zenon DEF PullHeld, Untouched, Active
    <3>1. Untouched(p)'
      BY <1>3, <2>1 DEF PullHeld
    <3>2. r \in Leased
      BY <2>1 DEF Leased
    <3> QED
      BY <1>1, <1>2, <1>4, <3>1, <3>2
  <2> QED
    BY <2>2, <2>3
<1>9. \A p \in Direct : LinkHeld(p)'
  <2> SUFFICES ASSUME NEW p \in Direct, linkLeft[p] > 0,
                      ~ \E n \in Moves : mv'[n].src = p /\ Unrecorded(n)'
               PROVE  /\ Untouched(p)'
                      /\ \A n \in Moves : Beyond(n)' /\ mv'[n].src = p
                            => linkLeft[p] <= waitLeft'[n]
    BY <1>0, Zenon DEF LinkHeld
  <2>1. ~ \E n \in Moves : mv[n].src = p /\ Unrecorded(n)
    <3> SUFFICES ASSUME NEW n \in Moves, mv[n].src = p, Unrecorded(n) PROVE FALSE
      OBVIOUS
    <3>1. n # m
      BY <1>0, SMT DEF Unrecorded, Finishing
    <3>2. mv'[n] = mv[n] /\ cur' # n
      BY <1>0, <1>1, <3>1
    <3> QED
      BY <1>0, <3>2, Zenon DEF Unrecorded, SwitchUnrecorded
  <2>2. Untouched(p)'
    BY <1>0, <1>3, <2>1, Zenon DEF ReadsSafe, LinkHeld
  <2>3. ASSUME mv[m].src = p PROVE linkLeft[p] <= waitLeft'[m]
    <3>1. waitLeft'[m] = TTL
      BY <1>1, <2>3
    <3>2. linkLeft[p] \in 0..TTL
      BY <1>0 DEF TypeOK
    <3> QED
      BY <3>1, <3>2, PlacesAssumption, SMT
  <2> QED
    BY <1>1, <1>2, <1>4, <2>2, <2>3
<1> QED
  BY <1>5, <1>6, <1>7, <1>8, <1>9 DEF ReadsSafe

LEMMA RunReads ==
    ASSUME TypeOK, WorkerHasMove, Safe, ReadsSafe, Run
    PROVE  ReadsSafe'
<1> USE DEF dataVars, memVars, reqVars, readVars, WorkerUnchanged
<1> PICK m \in Moves : cur = m
  BY DEF Run, TypeOK, WorkerHasMove, BeginCopy, CopyFiles, BeginVerify, VerifyCopy, BeginSwitch,
         Publish, SwapAside, SwapIn, SetLocation, DeleteSourceManifest, RelabelSwitched,
         BeginDrain, RunRaises, UndoCopy, EndRun, BeforeLocation, AfterLocation
<1>0. /\ cur = m /\ OneActive /\ Active(m) /\ WorkFits(m) /\ m # NoMove
      /\ mv \in [Moves -> MoveRow] /\ bytes \in [Places -> Copies]
      /\ Local \in Places /\ Local \notin Remotes /\ Remotes \subseteq Places
  BY PlacesAssumption DEF Safe, Active, TypeOK, Places
<1>d. mv[m].src \in Places /\ mv[m].dst \in Places /\ mv[m].src # mv[m].dst
  BY <1>0, SMT DEF MoveRow, WorkFits
<1>u. \A p \in Remotes : Untouched(p) /\ p = mv[m].dst => p = row.place
  BY <1>0 DEF Untouched
<1>l. bytes'[Local] = bytes[Local] /\ rd' = rd => \A r \in Pulls \ stale : LocalHeld(r)'
  BY LocalKept
(* Steps on the move that write at most where it may write. *)
<1>k. ASSUME cur' = m, \A n \in Moves \ {m} : mv'[n] = mv[n], mv'[m].dst = mv[m].dst,
             UNCHANGED row.place,
             \A p \in Remotes : (p = mv[m].dst => p = row.place) => bytes'[p] = bytes[p]
      PROVE  \A p \in Remotes : Untouched(p) => Untouched(p)'
  <2>1. \A n \in Moves : Active(n)' => Active(n) /\ mv'[n].dst = mv[n].dst
    BY <1>0, <1>k DEF Active
  <2> QED
    BY <1>0, <1>u, <1>k, <2>1, UntouchedKept
<1>s. Finishing \intersect (BeforeLocation \union AfterLocation \union Undoing) = {}
  BY SMT DEF Finishing, BeforeLocation, AfterLocation, Undoing
<1>1. CASE BeginCopy \/ CopyFiles
  <2>1. /\ cur' = m /\ at \in BeforeLocation /\ at' \in BeforeLocation
        /\ row' = row /\ rd' = rd /\ row.place = mv[m].src
        /\ UNCHANGED <<stale, oldReads, linkLeft, waitLeft, up>>
    BY <1>0, <1>1, Zenon DEF BeginCopy, CopyFiles, BeforeLocation, WorkFits
  <2>2. mv' = mv \/ SetStatus(m, "copying")
    BY <1>0, <1>1 DEF BeginCopy, CopyFiles
  <2>3. /\ \A n \in Moves \ {m} : mv'[n] = mv[n]
        /\ mv'[m].src = mv[m].src /\ mv'[m].switchedAt = mv[m].switchedAt
        /\ mv'[m].dst = mv[m].dst /\ mv'[m].status \in {mv[m].status, "copying"}
    BY <1>0, <2>2, StatusOnly
  <2>4. \A p \in Places : p # mv[m].dst \/ p \notin Remotes => bytes'[p] = bytes[p]
    BY <1>0, <1>1, SMT DEF BeginCopy, CopyFiles, WriteCopy
  <2>5. \A p \in Remotes : (p = mv[m].dst => p = row.place) => bytes'[p] = bytes[p]
    BY <1>0, <1>d, <2>1, <2>4
  <2>6. /\ \A p \in Remotes : Untouched(p) => Untouched(p)'
        /\ \A r \in Pulls \ stale : LocalHeld(r)'
    BY <1>0, <1>k, <1>l, <2>1, <2>3, <2>4, <2>5
  <2>7. "copying" \in PreSwitch /\ at \notin Finishing /\ at' \notin Finishing
    BY <1>s, <2>1 DEF PreSwitch
  <2> QED
    BY <1>0, <2>1, <2>3, <2>6, <2>7, BusyStep
<1>2. CASE BeginVerify \/ VerifyCopy \/ BeginSwitch
  <2>1. /\ cur' = m /\ at \in BeforeLocation /\ at' \in BeforeLocation
        /\ row' = row /\ rd' = rd /\ bytes' = bytes
        /\ UNCHANGED <<stale, oldReads, linkLeft, waitLeft, up>>
    BY <1>0, <1>2, Zenon DEF BeginVerify, VerifyCopy, BeginSwitch, BeforeLocation
  <2>2. mv' = mv \/ SetStatus(m, "verifying") \/ SetStatus(m, "switching")
    BY <1>0, <1>2 DEF BeginVerify, VerifyCopy, BeginSwitch
  <2>3. /\ \A n \in Moves \ {m} : mv'[n] = mv[n]
        /\ mv'[m].src = mv[m].src /\ mv'[m].switchedAt = mv[m].switchedAt
        /\ mv'[m].dst = mv[m].dst
        /\ mv'[m].status \in {mv[m].status, "verifying", "switching"}
    BY <1>0, <2>2, StatusOnly
  <2>6. /\ \A p \in Remotes : Untouched(p) => Untouched(p)'
        /\ \A r \in Pulls \ stale : LocalHeld(r)'
    BY <1>0, <1>k, <1>l, <2>1, <2>3
  <2>7. /\ "verifying" \in PreSwitch /\ "switching" \in PreSwitch
        /\ at \notin Finishing /\ at' \notin Finishing
    BY <1>s, <2>1 DEF PreSwitch
  <2> QED
    BY <1>0, <2>1, <2>3, <2>6, <2>7, BusyStep
<1>3. CASE Publish \/ SwapIn
  <2>1. /\ cur' = m /\ at \in BeforeLocation /\ at' \in BeforeLocation
        /\ row' = row /\ rd' = rd /\ mv' = mv
        /\ UNCHANGED <<stale, oldReads, linkLeft, waitLeft, up>>
    BY <1>0, <1>3, Zenon DEF Publish, SwapIn, BeforeLocation
  <2>2. \A p \in Remotes : bytes'[p] = bytes[p]
    BY <1>0, <1>3, Zenon DEF Publish, SwapIn
  <2>3. bytes'[Local] = "none" => bytes[Local] = "none"
    BY <1>0, <1>3, SMT DEF Publish, SwapIn, WorkFits
  <2>6. /\ \A p \in Remotes : Untouched(p) => Untouched(p)'
        /\ \A r \in Pulls \ stale : LocalHeld(r)'
    BY <1>0, <1>k, <2>1, <2>2, <2>3, LocalKept
  <2>7. at \notin Finishing /\ at' \notin Finishing
    BY <1>s, <2>1
  <2> QED
    BY <1>0, <2>1, <2>6, <2>7, BusyStep
<1>4. CASE SwapAside
  <2>1. /\ cur' = m /\ at \in BeforeLocation /\ at' \in BeforeLocation
        /\ row' = row /\ mv' = mv
        /\ UNCHANGED <<stale, oldReads, linkLeft, waitLeft, up>>
        /\ \A p \in Remotes : bytes'[p] = bytes[p]
    BY <1>0, <1>4, Zenon DEF SwapAside, BeforeLocation
  <2>2. \A r \in Readers :
            /\ rd'[r].pc = rd[r].pc /\ rd'[r].place = rd[r].place
            /\ rd[r].pc = "reading" /\ rd[r].place = Local => rd'[r].aside
    <3> SUFFICES ASSUME NEW r \in Readers
                 PROVE  /\ rd'[r].pc = rd[r].pc /\ rd'[r].place = rd[r].place
                        /\ rd[r].pc = "reading" /\ rd[r].place = Local => rd'[r].aside
      OBVIOUS
    <3>1. rd[r] \in Reader
      BY DEF TypeOK
    <3>2. rd'[r] = IF rd[r].pc = "reading" /\ rd[r].place = Local
                     THEN [rd[r] EXCEPT !.aside = TRUE] ELSE rd[r]
      BY <1>4, Zenon DEF SwapAside
    <3>3. CASE rd[r].pc = "reading" /\ rd[r].place = Local
      <4>1. rd'[r] = [rd[r] EXCEPT !.aside = TRUE]
        BY <3>2, <3>3
      <4>2. rd'[r].aside
        BY <3>1, <4>1, Zenon DEF Reader
      <4>3. rd'[r].pc = rd[r].pc /\ rd'[r].place = rd[r].place
        BY <3>1, <4>1, SMT DEF Reader
      <4> QED
        BY <4>2, <4>3
    <3>4. CASE ~(rd[r].pc = "reading" /\ rd[r].place = Local)
      BY <3>2, <3>4
    <3> QED
      BY <3>3, <3>4
  <2>6. /\ \A p \in Remotes : Untouched(p) => Untouched(p)'
        /\ \A r \in Pulls \ stale : LocalHeld(r)'
    <3>1. \A r \in Pulls \ stale : LocalHeld(r)'
      BY <2>2, Zenon DEF LocalHeld, Readers
    <3> QED
      BY <1>0, <1>k, <2>1, <3>1
  <2>7. at \notin Finishing /\ at' \notin Finishing
    BY <1>s, <2>1
  <2> QED
    BY <1>0, <2>1, <2>2, <2>6, <2>7, BusyStep
<1>5. CASE SetLocation
  <2>1. /\ cur' = m /\ at \in BeforeLocation /\ at' \in AfterLocation
        /\ rd' = rd /\ mv' = mv /\ bytes' = bytes /\ row'.place = mv[m].dst
        /\ UNCHANGED <<stale, oldReads, linkLeft, waitLeft, up>>
    BY <1>0, <1>5, Zenon DEF SetLocation, BeforeLocation, AfterLocation
  <2>2. \A p \in Remotes : Untouched(p) => Untouched(p)'
    BY <1>0, <2>1, Zenon DEF Untouched, OneActive, Active
  <2>3. \A r \in Pulls \ stale : LocalHeld(r)'
    BY <1>l, <2>1
  <2>7. at \notin Finishing /\ at' \notin Finishing
    BY <1>s, <2>1
  <2> QED
    BY <1>0, <2>1, <2>2, <2>3, <2>7, BusyStep
<1>6. CASE DeleteSourceManifest \/ RelabelSwitched \/ RunRaises
  <2>1. /\ cur' = m /\ at \in BeforeLocation \union AfterLocation
        /\ at' \in AfterLocation \union Undoing
        /\ row' = row /\ rd' = rd /\ mv' = mv /\ bytes' = bytes
        /\ UNCHANGED <<stale, oldReads, linkLeft, waitLeft, up>>
    BY <1>0, <1>6, Zenon
       DEF DeleteSourceManifest, RelabelSwitched, RunRaises, BeforeLocation, AfterLocation,
           Undoing
  <2>2. at \notin Finishing /\ at' \notin Finishing
    BY <1>s, <2>1
  <2>6. /\ \A p \in Remotes : Untouched(p) => Untouched(p)'
        /\ \A r \in Pulls \ stale : LocalHeld(r)'
    BY <1>0, <1>k, <1>l, <2>1
  <2> QED
    BY <1>0, <2>1, <2>2, <2>6, BusyStep
<1>7. CASE UndoCopy
  <2>1. /\ cur' = m /\ at \in Undoing /\ at' \in Undoing
        /\ row' = row /\ rd' = rd /\ mv' = mv
        /\ UNCHANGED <<stale, oldReads, linkLeft, waitLeft, up>>
    BY <1>0, <1>7, Zenon DEF UndoCopy, Undoing
  <2>2. /\ at \notin Finishing /\ at' \notin Finishing
        /\ at' \notin BeforeLocation \union AfterLocation
    BY <2>1, SMT DEF Undoing, Finishing, BeforeLocation, AfterLocation
  <2>4. \A p \in Places :
            p # mv[m].dst \/ p \notin Remotes \/ p = row.place => bytes'[p] = bytes[p]
    BY <1>0, <1>7, SMT DEF UndoCopy, DiscardCopy, DeleteBucket
  <2>6. /\ \A p \in Remotes : Untouched(p) => Untouched(p)'
        /\ \A r \in Pulls \ stale : LocalHeld(r)'
    BY <1>0, <1>k, <1>l, <2>1, <2>4
  <2> QED
    BY <1>0, <2>1, <2>2, <2>6, BusyStep
<1>8. CASE EndRun
  <2>1. /\ cur' = NoMove /\ at \in Undoing
        /\ row' = row /\ rd' = rd /\ bytes' = bytes
        /\ UNCHANGED <<stale, oldReads, linkLeft, waitLeft, up>>
        /\ SetStatus(m, "failed") \/ SetStatus(m, "cancelled")
    BY <1>0, <1>8, Zenon DEF EndRun, BackToLoop, Undoing
  <2>2. /\ \A n \in Moves \ {m} : mv'[n] = mv[n]
        /\ mv'[m].src = mv[m].src /\ mv'[m].switchedAt = mv[m].switchedAt
        /\ mv'[m].dst = mv[m].dst /\ mv'[m].status \in {"failed", "cancelled"}
    BY <1>0, <2>1, StatusOnly
  <2>0. \A n \in Moves : cur' # n
    BY <2>1, PlacesAssumption
  <2>3. \A n \in Moves : Active(n)' => Active(n) /\ mv'[n].dst = mv[n].dst
    BY <1>0, <2>0, <2>2, Zenon DEF Active
  <2>4. \A p \in Remotes : Untouched(p) => Untouched(p)'
    BY <1>0, <2>1, <2>3, UntouchedKept
  <2>5. {"failed", "cancelled"} \subseteq Ended /\ cur' # m
    BY <1>0, <2>1 DEF Ended
  <2>6. \A r \in Pulls \ stale : LocalHeld(r)'
    BY <1>l, <2>1
  <2>7. /\ \A n \in Moves : Beyond(n)' =>
              Beyond(n) /\ mv'[n].src = mv[n].src /\ mv'[n].switchedAt = mv[n].switchedAt
        /\ \A n \in Moves : Unrecorded(n) => Unrecorded(n)' /\ mv'[n].src = mv[n].src
        /\ SwitchedLate' /\ RemovalWaited'
    BY <1>0, <2>1, <2>2, <2>5, EndedStep
  <2> QED
    BY <2>1, <2>4, <2>6, <2>7, CopiesKept
<1>9. CASE BeginDrain
  BY <1>0, <1>9, DrainReads
<1> QED
  BY <1>1, <1>2, <1>3, <1>4, <1>5, <1>6, <1>7, <1>8, <1>9 DEF Run

LEMMA LoopReads ==
    ASSUME TypeOK, WorkerHasMove, Safe, ReadsSafe, Loop
    PROVE  ReadsSafe'
<1> USE DEF dataVars, memVars, reqVars, readVars, WorkerUnchanged
<1> PICK m \in Moves : Pick(m) \/ BeginRemoval(m) \/ WaitAgain(m)
  BY DEF Loop
<1>0. /\ at = "loop" /\ cur = NoMove /\ m # NoMove /\ \A n \in Moves : cur # n
      /\ mv \in [Moves -> MoveRow] /\ Remotes \subseteq Places
      /\ UNCHANGED <<row, bytes, rd, stale, oldReads, linkLeft, waitLeft, up>>
  BY PlacesAssumption, Zenon
     DEF Pick, BeginRemoval, WaitAgain, WorkerHasMove, TypeOK, workVars, memVars, Places
<1>1. /\ \A n \in Moves \ {m} : mv'[n] = mv[n]
      /\ mv'[m].src = mv[m].src /\ mv'[m].dst = mv[m].dst /\ mv'[m].keep = mv[m].keep
      /\ mv'[m].switchedAt = mv[m].switchedAt
      /\ \/ mv'[m].status = "queued" /\ mv[m].status = "queued" /\ cur' = m /\ at' = "picked"
         \/ /\ mv[m].status \in PostSwitch /\ mv'[m].status = "cleaning"
            /\ cur' = m /\ at' = "cleaning"
         \/ /\ mv[m].status \in PostSwitch /\ mv'[m].status = "draining"
            /\ cur' = NoMove /\ at' = "loop"
  <2>1. CASE Pick(m)
    BY <2>1, Zenon DEF Pick
  <2>2. CASE BeginRemoval(m)
    <3>1. SetStatus(m, "cleaning")
      BY <2>2 DEF BeginRemoval
    <3> QED
      BY <1>0, <2>2, <3>1, StatusOnly DEF BeginRemoval
  <2>3. CASE WaitAgain(m)
    <3>1. SetStatus(m, "draining")
      BY <2>3 DEF WaitAgain
    <3>2. mv[m].status \in PostSwitch /\ cur' = NoMove /\ at' = "loop"
      BY <1>0, <2>3 DEF WaitAgain, PostSwitch, workVars
    <3> QED
      BY <1>0, <3>1, <3>2, StatusOnly
  <2> QED
    BY <2>1, <2>2, <2>3
<1>m. "queued" \in Unfinished /\ PostSwitch \subseteq Unfinished /\ "queued" \notin PostSwitch
      /\ {"draining", "cleaning"} = PostSwitch /\ "picked" \notin Finishing
      /\ "queued" \notin Ended /\ "queued" \in PreSwitch
      /\ PostSwitch \intersect (PreSwitch \union {"absent"}) = {}
      /\ "cleaning" \in Finishing /\ "cleaning" \notin BeforeLocation \union AfterLocation
      /\ PostSwitch \intersect Ended = {}
  BY SMT DEF Unfinished, PreSwitch, PostSwitch, Finishing, Ended, BeforeLocation, AfterLocation
<1>2. \A p \in Remotes : Untouched(p) => Untouched(p)'
  <2>1. \A n \in Moves : Active(n)' => Active(n) /\ mv'[n].dst = mv[n].dst
    BY <1>0, <1>1, <1>m, PlacesAssumption, Zenon DEF Active
  <2> QED
    BY <1>0, <2>1, UntouchedKept
<1>3. \A n \in Moves : Beyond(n)' =>
          Beyond(n) /\ mv'[n].src = mv[n].src /\ mv'[n].switchedAt = mv[n].switchedAt
  <2> SUFFICES ASSUME NEW n \in Moves, Beyond(n)'
               PROVE  /\ Beyond(n)
                      /\ mv'[n].src = mv[n].src /\ mv'[n].switchedAt = mv[n].switchedAt
    OBVIOUS
  <2>1. CASE n = m
    <3>1. mv[m].status \in PostSwitch
      BY <1>1, <1>m, <2>1 DEF Beyond
    <3> QED
      BY <1>1, <2>1, <3>1, Zenon DEF Beyond
  <2>2. CASE n # m
    <3>1. mv'[n] = mv[n] /\ cur' # n
      BY <1>1, <2>2, PlacesAssumption
    <3> QED
      BY <3>1, Zenon DEF Beyond
  <2> QED
    BY <2>1, <2>2
<1>4. \A n \in Moves : Unrecorded(n) => Unrecorded(n)' /\ mv'[n].src = mv[n].src
  <2> SUFFICES ASSUME NEW n \in Moves, Unrecorded(n)
               PROVE  Unrecorded(n)' /\ mv'[n].src = mv[n].src
    OBVIOUS
  <2>1. CASE n = m
    <3>1. /\ mv'[m].status \in PostSwitch /\ ~mv[m].switchedAt
          /\ cur' = m => at' \in Finishing
      <4>1. mv[m].status # "queued" /\ ~mv[m].switchedAt
        BY <1>m, <2>1, Zenon DEF Unrecorded, SwitchUnrecorded
      <4>2. mv'[m].status \in {"draining", "cleaning"} /\ (cur' = m => at' = "cleaning")
        BY <1>0, <1>1, <4>1
      <4> QED
        BY <1>m, <4>1, <4>2
    <3> QED
      BY <1>1, <2>1, <3>1, Zenon DEF Unrecorded, SwitchUnrecorded
  <2>2. CASE n # m
    <3>1. mv'[n] = mv[n] /\ cur' # n
      BY <1>1, <2>2, PlacesAssumption
    <3> QED
      BY <3>1, Zenon DEF Unrecorded, SwitchUnrecorded
  <2> QED
    BY <2>1, <2>2
<1>5. SwitchedLate'
  <2> SUFFICES ASSUME NEW n \in Moves, NotYetSwitched(n)' PROVE ~mv'[n].switchedAt
    BY DEF SwitchedLate
  <2>1. NotYetSwitched(n) /\ mv'[n].switchedAt = mv[n].switchedAt
    <3>1. CASE n = m
      <4>1. mv[m].status \in PreSwitch
        <5>1. CASE mv'[m].status \in {"draining", "cleaning"}
          BY <1>0, <1>1, <1>m, <3>1, <5>1 DEF NotYetSwitched
        <5>2. CASE mv'[m].status \notin {"draining", "cleaning"}
          BY <1>1, <1>m, <5>2
        <5> QED
          BY <5>1, <5>2
      <4> QED
        BY <1>1, <3>1, <4>1, Zenon DEF NotYetSwitched
    <3>2. CASE n # m
      <4>1. mv'[n] = mv[n] /\ cur' # n
        BY <1>1, <3>2, PlacesAssumption
      <4> QED
        BY <4>1, Zenon DEF NotYetSwitched
    <3> QED
      BY <3>1, <3>2
  <2> QED
    BY <2>1, Zenon DEF ReadsSafe, SwitchedLate
<1>6. RemovalWaited'
  <2> SUFFICES ASSUME cur' = m, at' \in Finishing PROVE Waited(m)'
    BY <1>1, PlacesAssumption DEF RemovalWaited
  <2>1. BeginRemoval(m)
    BY <1>0, <1>1, <1>m DEF Pick, WaitAgain, workVars
  <2>2. MayRemove(m) /\ removing' = (removing \/ RemovesFiles(m))
    BY <2>1 DEF BeginRemoval
  <2>3. mv'[m].status \in PostSwitch \union Ended
    BY <1>1, <1>m, <2>1 DEF BeginRemoval
  <2>4. mv[m].src \in Remotes => oldReads[m] \subseteq stale
    BY <2>2, Zenon DEF MayRemove, RemovesFiles, Counted
  <2>5. mv[m].src \in Direct /\ mv[m].switchedAt => waitLeft[m] = 0
    <3>1. mv[m].src \in Direct /\ mv[m].switchedAt => ~(waitLeft[m] > 0)
      BY <2>2, Zenon DEF MayRemove, LinksOutstanding
    <3>2. waitLeft[m] \in 0..TTL
      BY DEF TypeOK
    <3>3. ~(waitLeft[m] > 0) => waitLeft[m] = 0
      BY <3>2, PlacesAssumption, SMT
    <3> QED
      BY <3>1, <3>3, Zenon
  <2>6. mv[m].src = Local /\ ~mv[m].keep => removing' /\ Leased \subseteq stale
    BY <2>2, PlacesAssumption, Zenon DEF MayRemove, RemovesFiles, Counted
  <2>7. Leased' = Leased
    BY <1>0, Zenon DEF Leased
  <2> QED
    BY <1>0, <1>1, <2>3, <2>4, <2>5, <2>6, <2>7, Zenon DEF Waited
<1>7. \A r \in Pulls \ stale : LocalHeld(r)'
  BY <1>0, LocalKept
<1>8. ~up' => ~up
  BY <1>0, Zenon
<1> QED
  BY <1>0, <1>2, <1>3, <1>4, <1>5, <1>6, <1>7, <1>8, CopiesKept

(* The old copy in a bucket goes: no pull is left on it that counts, and no  *)
(* link, or the switch was never recorded.                                  *)
LEMMA RemovedUnread ==
    ASSUME TypeOK, Safe, ReadsSafe, NEW m \in Moves, cur = m, at \in Finishing
    PROVE  /\ \A r \in Pulls \ stale :
                  ~(rd[r].pc \in {"found", "reading"} /\ rd[r].place \in Remotes
                    /\ rd[r].place = mv[m].src)
           /\ \A p \in Direct : p = mv[m].src /\ linkLeft[p] > 0
                  => \E n \in Moves : mv[n].src = p /\ Unrecorded(n)
<1>0. Waited(m) /\ Beyond(m)
  BY DEF ReadsSafe, RemovalWaited, Beyond
<1>1. ASSUME NEW r \in Pulls \ stale, rd[r].pc \in {"found", "reading"},
             rd[r].place \in Remotes, rd[r].place = mv[m].src
      PROVE  FALSE
  <2>1. r \in oldReads[m]
    BY <1>0, <1>1, Zenon DEF ReadsSafe, PullHeld
  <2> QED
    BY <1>0, <1>1, <2>1 DEF Waited
<1>2. ASSUME NEW p \in Direct, p = mv[m].src, linkLeft[p] > 0,
             ~ \E n \in Moves : mv[n].src = p /\ Unrecorded(n)
      PROVE  FALSE
  <2>1. mv[m].switchedAt
    BY <1>0, <1>2, Zenon DEF Waited, Unrecorded, SwitchUnrecorded
  <2>2. linkLeft[p] <= waitLeft[m]
    BY <1>0, <1>2, <2>1, Zenon DEF ReadsSafe, LinkHeld
  <2>3. waitLeft[m] = 0
    BY <1>0, <1>2, <2>1, Zenon DEF Waited
  <2>4. linkLeft[p] \in 0..TTL
    BY <1>2, PlacesAssumption DEF TypeOK
  <2> QED
    BY <1>2, <2>2, <2>3, <2>4, PlacesAssumption, SMT
<1> QED
  BY <1>1, <1>2, Zenon

LEMMA FinishReads ==
    ASSUME TypeOK, WorkerHasMove, Safe, ReadsSafe, Finish
    PROVE  ReadsSafe'
<1> USE DEF dataVars, memVars, reqVars, readVars, WorkerUnchanged
<1>i. at \in Finishing
  BY Zenon
     DEF Finish, RemoveFromBucket, RemoveLocal, Uncache, NothingToRemove, RelabelRemoved,
         RelabelRaises, EndMove, ReleaseAfterFailure, Finishing
<1> PICK m \in Moves : cur = m
  BY <1>i DEF TypeOK, WorkerHasMove, Finishing
<1>0. /\ cur = m /\ OneActive /\ Active(m) /\ WorkFits(m) /\ m # NoMove
      /\ mv \in [Moves -> MoveRow] /\ bytes \in [Places -> Copies]
      /\ Local \in Places /\ Local \notin Remotes /\ Remotes \subseteq Places
      /\ Direct \subseteq Remotes /\ row.place = mv[m].dst
  BY <1>i, PlacesAssumption DEF Safe, Active, TypeOK, Places, WorkFits
<1>w. Waited(m)
  BY <1>i DEF ReadsSafe, RemovalWaited
<1>1. /\ \A n \in Moves \ {m} : mv'[n] = mv[n]
      /\ mv'[m].src = mv[m].src /\ mv'[m].dst = mv[m].dst
      /\ mv'[m].switchedAt = mv[m].switchedAt
      /\ mv'[m].status \in {mv[m].status, "failed", "done"}
  <2>1. mv' = mv \/ SetStatus(m, "failed") \/ SetStatus(m, "done")
    BY <1>0, Zenon
       DEF Finish, RemoveFromBucket, RemoveLocal, Uncache, NothingToRemove, RelabelRemoved,
           RelabelRaises, EndMove, ReleaseAfterFailure
  <2> QED
    BY <1>0, <2>1, StatusOnly
<1>2. /\ cur' \in {m, NoMove} /\ (cur' = m => at' \in Finishing \ {"cleaning"})
      /\ UNCHANGED <<rd, stale, oldReads, linkLeft, waitLeft, up>>
      /\ row'.place = row.place
  <2>1. /\ cur' \in {m, NoMove} /\ (cur' = m => at' \in Finishing \ {"cleaning"})
        /\ UNCHANGED <<rd, stale, oldReads, linkLeft, waitLeft, up>>
    BY <1>0, Zenon
       DEF Finish, RemoveFromBucket, RemoveLocal, Uncache, NothingToRemove, RelabelRemoved,
           RelabelRaises, EndMove, ReleaseAfterFailure, BackToLoop, Finishing
  <2>2. row' = row \/ Uncache
    BY Zenon
       DEF Finish, RemoveFromBucket, RemoveLocal, NothingToRemove, RelabelRemoved,
           RelabelRaises, EndMove, ReleaseAfterFailure
  <2>3. Uncache => row'.place = row.place
    BY <1>0, SMT DEF Uncache
  <2> QED
    BY <2>1, <2>2, <2>3
<1>3. /\ \A n \in Moves : Beyond(n)' =>
            Beyond(n) /\ mv'[n].src = mv[n].src /\ mv'[n].switchedAt = mv[n].switchedAt
      /\ \A n \in Moves : Unrecorded(n) => Unrecorded(n)' /\ mv'[n].src = mv[n].src
      /\ SwitchedLate' /\ RemovalWaited'
  <2>1. mv'[m].status = mv[m].status \/ mv'[m].status \in Ended
    BY <1>1 DEF Ended
  <2> QED
    BY <1>0, <1>i, <1>1, <1>2, <2>1, EndedStep
<1>4. \A p \in Remotes : Untouched(p) /\ bytes'[p] = bytes[p] => Untouched(p)'
  <2>1. \A n \in Moves : Active(n)' => Active(n) /\ mv'[n].dst = mv[n].dst
    BY <1>0, <1>1, <1>2, PlacesAssumption, Zenon DEF Active
  <2> QED
    BY <1>0, <1>2, <2>1, UntouchedKept
<1>5. \A p \in Remotes : p # mv[m].src => bytes'[p] = bytes[p]
  <2>1. CASE RemoveFromBucket
    BY <1>0, <2>1, SMT DEF RemoveFromBucket, DeleteBucket
  <2>2. CASE RemoveLocal
    BY <1>0, <2>2, Zenon DEF RemoveLocal
  <2>3. CASE ~RemoveFromBucket /\ ~RemoveLocal
    BY <2>3, Zenon
       DEF Finish, Uncache, NothingToRemove, RelabelRemoved, RelabelRaises, EndMove,
           ReleaseAfterFailure
  <2> QED
    BY <2>1, <2>2, <2>3
<1>6. \A r \in Pulls \ stale : LocalHeld(r)'
  <2>1. CASE RemoveFromBucket
    <3>1. mv[m].src # Local
      BY <1>0, <2>1 DEF RemoveFromBucket
    <3>2. bytes'[Local] = bytes[Local]
      BY <1>0, <2>1, <3>1, SMT DEF RemoveFromBucket, DeleteBucket
    <3> QED
      BY <1>2, <3>2, LocalKept
  <2>2. CASE RemoveLocal
    <3>1. Leased \subseteq stale
      BY <1>0, <1>w, <2>2, Zenon DEF RemoveLocal, Waited
    <3>2. \A r \in Pulls \ stale : rd[r].pc # "reading"
      BY <3>1 DEF Leased, Readers
    <3> QED
      BY <1>2, <3>2, Zenon DEF LocalHeld
  <2>3. CASE ~RemoveFromBucket /\ ~RemoveLocal
    <3>1. bytes' = bytes
      BY <2>3, Zenon
         DEF Finish, Uncache, NothingToRemove, RelabelRemoved, RelabelRaises, EndMove,
             ReleaseAfterFailure
    <3> QED
      BY <1>2, <3>1, LocalKept
  <2> QED
    BY <2>1, <2>2, <2>3
<1>7. \A r \in Pulls \ stale, p \in Remotes :
          rd[r].pc \in {"found", "reading"} /\ rd[r].place = p => Untouched(p)'
  <2> SUFFICES ASSUME NEW r \in Pulls \ stale, NEW p \in Remotes,
                      rd[r].pc \in {"found", "reading"}, rd[r].place = p
               PROVE  Untouched(p)'
    OBVIOUS
  <2>1. p # mv[m].src
    BY <1>0, <1>i, RemovedUnread
  <2>2. Untouched(p)
    BY DEF ReadsSafe, PullHeld
  <2> QED
    BY <1>4, <1>5, <2>1, <2>2
<1>8. \A p \in Direct : linkLeft[p] > 0 /\ Untouched(p)
          => Untouched(p)' \/ \E n \in Moves : mv'[n].src = p /\ Unrecorded(n)'
  <2> SUFFICES ASSUME NEW p \in Direct, linkLeft[p] > 0, Untouched(p)
               PROVE  Untouched(p)' \/ \E n \in Moves : mv'[n].src = p /\ Unrecorded(n)'
    OBVIOUS
  <2>1. CASE p = mv[m].src
    <3>1. PICK n \in Moves : mv[n].src = p /\ Unrecorded(n)
      BY <1>i, <2>1, RemovedUnread
    <3> QED
      BY <1>3, <3>1
  <2>2. CASE p # mv[m].src
    BY <1>0, <1>4, <1>5, <2>2
  <2> QED
    BY <2>1, <2>2
<1>9. ~up' => ~up
  BY <1>2, Zenon
<1> QED
  BY <1>2, <1>3, <1>6, <1>7, <1>8, <1>9, QuietStep

(* Steps that touch nothing the invariant speaks of. *)
LEMMA ReadsFrame ==
    ASSUME ReadsSafe, UNCHANGED <<row, bytes, mv, waitLeft, at, cur, removing, rd, stale,
                                  oldReads, linkLeft>>, ~up' => ~up
    PROVE  ReadsSafe'
<1>1. \A p : Untouched(p) => Untouched(p)'
  BY Zenon DEF Untouched, Active
<1>2. DownIdle' /\ StaleSends' /\ SwitchedLate'
  BY Zenon DEF ReadsSafe, DownIdle, StaleSends, SwitchedLate, NotYetSwitched
<1>3. RemovalWaited'
  BY Zenon DEF ReadsSafe, RemovalWaited, Waited, Leased
<1>4. \A r \in Pulls \ stale' : PullHeld(r)' /\ LocalHeld(r)'
  <2> SUFFICES ASSUME NEW r \in Pulls \ stale PROVE PullHeld(r)' /\ LocalHeld(r)'
    BY Zenon
  <2>1. PullHeld(r) /\ LocalHeld(r)
    BY DEF ReadsSafe
  <2>2. LocalHeld(r)'
    BY <2>1, Zenon DEF LocalHeld
  <2>3. PullHeld(r)'
    BY <2>1, Zenon DEF PullHeld, Untouched, Active, Beyond
  <2> QED
    BY <2>2, <2>3
<1>5. \A p \in Direct : LinkHeld(p)'
  <2> SUFFICES ASSUME NEW p \in Direct PROVE LinkHeld(p)'
    OBVIOUS
  <2>1. LinkHeld(p)
    BY DEF ReadsSafe
  <2> QED
    BY <2>1, Zenon DEF LinkHeld, Untouched, Active, Beyond, Unrecorded, SwitchUnrecorded
<1> QED
  BY <1>2, <1>3, <1>4, <1>5 DEF ReadsSafe

LEMMA RequestReads ==
    ASSUME TypeOK, TypeOK', Safe, ReadsSafe, Request, ~overlap'
    PROVE  ReadsSafe'
<1> USE DEF dataVars, workVars, memVars, readVars
<1> PICK q \in Requests :
        \/ \E dst \in Places, keep \in BOOLEAN : StartCheck(q, dst, keep)
        \/ \E m \in Moves : StartCreate(q, m) \/ CancelRead(q, m)
        \/ CancelApply(q)
  BY DEF Request
<1>0. /\ mv \in [Moves -> MoveRow] /\ bytes \in [Places -> Copies] /\ Remotes \subseteq Places
      /\ UNCHANGED <<row, bytes, waitLeft, at, cur, rd, stale, oldReads, linkLeft, removing>>
      /\ (~up' => ~up)
  BY Zenon DEF StartCheck, StartCreate, CancelRead, CancelApply, TypeOK, Places
<1>m. /\ Ended \intersect (PreSwitch \union PostSwitch \union {"absent"}) = {}
      /\ "queued" \in PreSwitch /\ "queued" \notin PostSwitch /\ "cancelled" \in Ended
      /\ "absent" \notin PostSwitch \union Ended
  BY SMT DEF Ended, PreSwitch, PostSwitch
<1>l. \A r \in Pulls \ stale : LocalHeld(r)'
  BY <1>0, LocalKept
<1>1. CASE \/ \E dst \in Places, keep \in BOOLEAN : StartCheck(q, dst, keep)
           \/ \E m \in Moves : CancelRead(q, m)
  <2>1. mv' = mv
    BY <1>1 DEF StartCheck, CancelRead
  <2> QED
    BY <1>0, <2>1, ReadsFrame
<1>2. ASSUME NEW m \in Moves, StartCreate(q, m) PROVE ReadsSafe'
  <2>1. /\ \A n \in Moves : ~Active(n)
        /\ starting[q].dst \in Remotes => bytes[starting[q].dst] = "none"
        /\ row.place = starting[q].src
    BY <1>2 DEF StartCreate
  <2>2. /\ \A n \in Moves \ {m} : mv'[n] = mv[n]
        /\ mv'[m].status = "queued" /\ mv'[m].dst = starting[q].dst
        /\ mv[m].status = "absent"
    BY <1>0, <1>2, SMT DEF StartCreate
  <2>8. ~mv'[m].switchedAt
    <3>1. mv'[m] = [status |-> "queued", src |-> starting[q].src, dst |-> starting[q].dst,
                    keep |-> starting[q].keep, switchedAt |-> FALSE]
      BY <1>0, <1>2, Zenon DEF StartCreate
    <3> QED
      BY <3>1, SMT
  <2>3. \A n \in Moves : cur # n /\ cur' # n
    BY <1>0, <2>1 DEF Active
  <2>4. \A n \in Moves : Beyond(n)' =>
            Beyond(n) /\ mv'[n].src = mv[n].src /\ mv'[n].switchedAt = mv[n].switchedAt
    BY <1>m, <2>2, <2>3, Zenon DEF Beyond
  <2>5. \A n \in Moves : Unrecorded(n) => Unrecorded(n)' /\ mv'[n].src = mv[n].src
    <3> SUFFICES ASSUME NEW n \in Moves, Unrecorded(n)
                 PROVE  Unrecorded(n)' /\ mv'[n].src = mv[n].src
      OBVIOUS
    <3>1. n # m
      BY <1>m, <2>2 DEF Unrecorded, SwitchUnrecorded
    <3>2. mv'[n] = mv[n] /\ cur' # n
      BY <2>2, <2>3, <3>1
    <3> QED
      BY <3>2, Zenon DEF Unrecorded, SwitchUnrecorded
  <2>6. SwitchedLate'
    <3> SUFFICES ASSUME NEW n \in Moves, NotYetSwitched(n)' PROVE ~mv'[n].switchedAt
      BY DEF SwitchedLate
    <3>1. CASE n = m
      BY <2>8, <3>1, Zenon
    <3>2. CASE n # m
      <4>1. mv'[n] = mv[n] /\ NotYetSwitched(n)
        BY <2>2, <2>3, <3>2, Zenon DEF NotYetSwitched
      <4> QED
        BY <4>1, Zenon DEF ReadsSafe, SwitchedLate
    <3> QED
      BY <3>1, <3>2
  <2>7. RemovalWaited'
    BY <2>3 DEF RemovalWaited
  <2>9. \A p \in Remotes : Untouched(p) => Untouched(p)'
    <3> SUFFICES ASSUME NEW p \in Remotes, Untouched(p) PROVE Untouched(p)'
      OBVIOUS
    <3>1. bytes[p] = "full"
      BY DEF Untouched
    <3>2. \A n \in Moves : Active(n)' => n = m
      BY <2>1, <2>2, <2>3, Zenon DEF Active
    <3>3. p # mv'[m].dst
      BY <2>1, <2>2, <3>1
    <3> QED
      BY <1>0, <3>1, <3>2, <3>3 DEF Untouched
  <2> QED
    BY <1>0, <1>l, <2>4, <2>5, <2>6, <2>7, <2>9, CopiesKept
<1>3. CASE CancelApply(q)
  <2>1. \A n \in Moves : mv'[n] = mv[n] \/ mv'[n] = [mv[n] EXCEPT !.status = "cancelled"]
    BY <1>0, <1>3, SMT DEF CancelApply
  <2>2. \A n \in Moves :
           /\ mv'[n].src = mv[n].src /\ mv'[n].dst = mv[n].dst
           /\ mv'[n].status = mv[n].status \/ mv'[n].status = "cancelled"
    <3> SUFFICES ASSUME NEW n \in Moves
                 PROVE  /\ mv'[n].src = mv[n].src /\ mv'[n].dst = mv[n].dst
                        /\ mv'[n].status = mv[n].status \/ mv'[n].status = "cancelled"
      OBVIOUS
    <3>1. mv[n] \in MoveRow
      BY <1>0
    <3>2. mv'[n] = mv[n] \/ mv'[n] = [mv[n] EXCEPT !.status = "cancelled"]
      BY <2>1
    <3> QED
      BY <3>1, <3>2, SMT DEF MoveRow
  <2>3. \A n \in Moves : mv'[n].keep = mv[n].keep /\ mv'[n].switchedAt = mv[n].switchedAt
    <3> SUFFICES ASSUME NEW n \in Moves
                 PROVE  mv'[n].keep = mv[n].keep /\ mv'[n].switchedAt = mv[n].switchedAt
      OBVIOUS
    <3>1. mv[n] \in MoveRow
      BY <1>0
    <3>2. mv'[n].keep = mv[n].keep
      BY <2>1, <3>1, Zenon DEF MoveRow
    <3>3. mv'[n].switchedAt = mv[n].switchedAt
      BY <2>1, <3>1, Zenon DEF MoveRow
    <3> QED
      BY <3>2, <3>3
  <2>4. \A n \in Moves : Beyond(n)' =>
            Beyond(n) /\ mv'[n].src = mv[n].src /\ mv'[n].switchedAt = mv[n].switchedAt
    BY <1>0, <1>m, <2>2, <2>3, Zenon DEF Beyond
  <2>5. \A n \in Moves : Unrecorded(n) => Unrecorded(n)' /\ mv'[n].src = mv[n].src
    <3> SUFFICES ASSUME NEW n \in Moves, Unrecorded(n)
                 PROVE  Unrecorded(n)' /\ mv'[n].src = mv[n].src
      OBVIOUS
    <3>1. mv'[n].status \in PostSwitch \union Ended
      BY <1>m, <2>2 DEF Unrecorded, SwitchUnrecorded
    <3> QED
      BY <1>0, <2>2, <2>3, <3>1, Zenon DEF Unrecorded, SwitchUnrecorded
  <2>6. SwitchedLate'
    <3> SUFFICES ASSUME NEW n \in Moves, NotYetSwitched(n)' PROVE ~mv'[n].switchedAt
      BY DEF SwitchedLate
    <3>1. NotYetSwitched(n)
      BY <1>0, <1>m, <2>2, Zenon DEF NotYetSwitched
    <3> QED
      BY <2>3, <3>1, Zenon DEF ReadsSafe, SwitchedLate
  <2>7. RemovalWaited'
    <3> SUFFICES ASSUME NEW n \in Moves, cur = n, at \in Finishing PROVE Waited(n)'
      BY <1>0 DEF RemovalWaited
    <3>1. Waited(n)
      BY DEF ReadsSafe, RemovalWaited
    <3>2. mv'[n].status \in PostSwitch \union Ended
      BY <1>m, <2>2, <3>1 DEF Waited
    <3> QED
      BY <1>0, <2>2, <2>3, <3>1, <3>2, Zenon DEF Waited, Leased
  <2>9. \A p \in Remotes : Untouched(p) => Untouched(p)'
    <3>1. \A n \in Moves : Active(n)' => Active(n) /\ mv'[n].dst = mv[n].dst
      <4>1. "cancelled" \notin Unfinished
        BY DEF Unfinished, PreSwitch, PostSwitch
      <4> QED
        BY <1>0, <2>2, <4>1, Zenon DEF Active
    <3> QED
      BY <1>0, <3>1, UntouchedKept
  <2> QED
    BY <1>0, <1>l, <2>4, <2>5, <2>6, <2>7, <2>9, CopiesKept
<1> QED
  BY <1>1, <1>2, <1>3

LEMMA CrashReads ==
    ASSUME TypeOK, WorkerHasMove, Safe, ReadsSafe, Crash
    PROVE  ReadsSafe'
<1>0. /\ UNCHANGED <<row, mv, waitLeft, linkLeft>> /\ stale' = {} /\ cur' = NoMove
      /\ \A n \in Moves : cur' # n
      /\ rd' = [r \in Readers |-> Idle]
      /\ bytes \in [Places -> Copies] /\ Direct \subseteq Places
  BY PlacesAssumption, Zenon DEF Crash, BackToLoop, TypeOK, Places
<1>1. \A r \in Readers : rd'[r].pc = "idle"
  BY <1>0 DEF Idle
<1>2. DownIdle' /\ StaleSends'
  BY <1>0, <1>1 DEF DownIdle, StaleSends
<1>3. \A r \in Pulls \ stale' : PullHeld(r)' /\ LocalHeld(r)'
  BY <1>1 DEF PullHeld, LocalHeld, Readers
<1>4. SwitchedLate'
  BY <1>0, Zenon DEF ReadsSafe, SwitchedLate, NotYetSwitched
<1>5. RemovalWaited'
  BY <1>0 DEF RemovalWaited
<1>6. \A m \in Moves : Unrecorded(m) => Unrecorded(m)' /\ mv'[m].src = mv[m].src
  BY <1>0, Zenon DEF Unrecorded, SwitchUnrecorded
<1>7. \A p \in Direct : LinkHeld(p)'
  <2> SUFFICES ASSUME NEW p \in Direct PROVE LinkHeld(p)'
    OBVIOUS
  <2>1. \A m \in Moves : Beyond(m)' /\ mv'[m].src = p /\ mv'[m].switchedAt =>
               Beyond(m) /\ mv[m].src = p /\ mv[m].switchedAt
    BY <1>0, Zenon DEF Beyond
  <2>2. \A m \in Moves : Active(m)' => Active(m) /\ mv'[m].dst = mv[m].dst
    BY <1>0, Zenon DEF Active
  <2>3. ASSUME linkLeft[p] > 0, Untouched(p)
        PROVE  Untouched(p)' \/ \E m \in Moves : mv'[m].src = p /\ Unrecorded(m)'
    <3>1. CASE bytes'[p] = bytes[p]
      BY <1>0, <2>2, <2>3, <3>1, UntouchedKept
    <3>2. CASE bytes'[p] # bytes[p]
      <4>1. Emptying(p)
        BY <1>0, <3>2, SMT DEF Crash
      <4>2. cur \in Moves /\ Active(cur)
        BY <4>1 DEF Emptying, WorkerHasMove, TypeOK, Active
      <4>3. at = "cleaning" /\ p = mv[cur].src
        BY <2>3, <4>1, <4>2 DEF Emptying, Untouched
      <4>4. \E n \in Moves : mv[n].src = p /\ Unrecorded(n)
        <5>1. at \in Finishing
          BY <4>3 DEF Finishing
        <5> QED
          BY <2>3, <4>2, <4>3, <5>1, RemovedUnread
      <4> QED
        BY <1>6, <4>4
    <3> QED
      BY <3>1, <3>2
  <2> QED
    BY <1>0, <1>6, <2>1, <2>3, LinkKept DEF ReadsSafe
<1> QED
  BY <1>2, <1>3, <1>4, <1>5, <1>7 DEF ReadsSafe

LEMMA RecoveryReads ==
    ASSUME TypeOK, WorkerHasMove, Safe, ReadsSafe, Recovery
    PROVE  ReadsSafe'
<1> USE DEF dataVars, workVars, memVars, reqVars, readVars
<1>0. /\ UNCHANGED <<row, at, cur, rd, stale, oldReads, linkLeft, waitLeft, removing>>
      /\ ~up /\ at = "loop" /\ cur = NoMove
      /\ \A n \in Moves : cur # n /\ cur' # n
      /\ mv \in [Moves -> MoveRow] /\ bytes \in [Places -> Copies]
      /\ Remotes \subseteq Places /\ Direct \subseteq Remotes /\ Local \notin Remotes
      /\ Local \in Places
  BY PlacesAssumption, Zenon
     DEF Recovery, RecoverSwitched, RecoverUndone, Serve, WorkerHasMove, TypeOK, Places
<1>i. \A r \in Readers : rd[r].pc = "idle"
  BY <1>0 DEF ReadsSafe, DownIdle
<1>p. \A r \in Pulls \ stale' : PullHeld(r)' /\ LocalHeld(r)'
  BY <1>0, <1>i DEF PullHeld, LocalHeld, Readers
<1>s. DownIdle' /\ StaleSends' /\ RemovalWaited'
  BY <1>0, <1>i, Zenon DEF ReadsSafe, DownIdle, StaleSends, RemovalWaited
<1>1. ASSUME NEW m \in Moves, RecoverSwitched(m) PROVE ReadsSafe'
  <2>1. /\ bytes' = bytes /\ mv[m].status = "switching"
        /\ \A n \in Moves \ {m} : mv'[n] = mv[n]
        /\ mv'[m].status = "draining" /\ mv'[m].src = mv[m].src /\ mv'[m].dst = mv[m].dst
        /\ mv'[m].switchedAt = mv[m].switchedAt
    BY <1>0, <1>1, StatusOnly DEF RecoverSwitched
  <2>2. ~mv[m].switchedAt
    BY <2>1, Zenon DEF ReadsSafe, SwitchedLate, NotYetSwitched, PreSwitch
  <2>3. SwitchedLate'
    <3> SUFFICES ASSUME NEW n \in Moves, NotYetSwitched(n)' PROVE ~mv'[n].switchedAt
      BY DEF SwitchedLate
    <3>1. CASE n = m
      BY <2>1, <2>2, <3>1, Zenon
    <3>2. CASE n # m
      BY <1>0, <2>1, <3>2, Zenon DEF ReadsSafe, SwitchedLate, NotYetSwitched
    <3> QED
      BY <3>1, <3>2
  <2>4. \A p \in Direct : LinkHeld(p)'
    <3> SUFFICES ASSUME NEW p \in Direct PROVE LinkHeld(p)'
      OBVIOUS
    <3>1. \A n \in Moves : Beyond(n)' /\ mv'[n].src = p /\ mv'[n].switchedAt =>
               Beyond(n) /\ mv[n].src = p /\ mv[n].switchedAt
      BY <1>0, <2>1, <2>2, Zenon DEF Beyond
    <3>2. \A n \in Moves : Unrecorded(n) => Unrecorded(n)' /\ mv'[n].src = mv[n].src
      <4> SUFFICES ASSUME NEW n \in Moves, Unrecorded(n)
                   PROVE  Unrecorded(n)' /\ mv'[n].src = mv[n].src
        OBVIOUS
      <4>1. n # m
        BY <2>1 DEF Unrecorded, SwitchUnrecorded, PostSwitch, Ended
      <4> QED
        BY <1>0, <2>1, <4>1, Zenon DEF Unrecorded, SwitchUnrecorded
    <3>3. Untouched(p) => Untouched(p)'
      <4>1. \A n \in Moves : Active(n)' => Active(n) /\ mv'[n].dst = mv[n].dst
        BY <1>0, <2>1, Zenon DEF Active, Unfinished, PreSwitch
      <4> QED
        BY <1>0, <2>1, <4>1, UntouchedKept
    <3> QED
      BY <1>0, <3>1, <3>2, <3>3, LinkKept DEF ReadsSafe
  <2> QED
    BY <1>p, <1>s, <2>3, <2>4 DEF ReadsSafe
<1>2. ASSUME NEW m \in Moves, RecoverUndone(m) PROVE ReadsSafe'
  <2>1. /\ \A n \in Moves \ {m} : mv'[n] = mv[n]
        /\ mv'[m].status = "failed" /\ mv'[m].src = mv[m].src /\ mv'[m].dst = mv[m].dst
        /\ mv'[m].switchedAt = mv[m].switchedAt
    BY <1>0, <1>2, StatusOnly DEF RecoverUndone
  <2>2. Active(m) /\ mv[m].status \notin PostSwitch \union Ended
    BY <1>2 DEF RecoverUndone, Interrupted, Active, Unfinished, PreSwitch, PostSwitch, Ended
  <2>3. SwitchedLate'
    <3> SUFFICES ASSUME NEW n \in Moves, NotYetSwitched(n)' PROVE ~mv'[n].switchedAt
      BY DEF SwitchedLate
    <3>1. n # m
      BY <1>0, <2>1 DEF NotYetSwitched, PreSwitch
    <3> QED
      BY <1>0, <2>1, <3>1, Zenon DEF ReadsSafe, SwitchedLate, NotYetSwitched
  <2>4. \A p \in Direct : LinkHeld(p)'
    <3> SUFFICES ASSUME NEW p \in Direct PROVE LinkHeld(p)'
      OBVIOUS
    <3>1. \A n \in Moves : Beyond(n)' /\ mv'[n].src = p /\ mv'[n].switchedAt =>
               Beyond(n) /\ mv[n].src = p /\ mv[n].switchedAt
      <4>1. "failed" \notin PostSwitch
        BY DEF PostSwitch
      <4> QED
        BY <1>0, <2>1, <4>1, Zenon DEF Beyond
    <3>2. \A n \in Moves : Unrecorded(n) => Unrecorded(n)' /\ mv'[n].src = mv[n].src
      <4> SUFFICES ASSUME NEW n \in Moves, Unrecorded(n)
                   PROVE  Unrecorded(n)' /\ mv'[n].src = mv[n].src
        OBVIOUS
      <4>1. n # m
        BY <2>2 DEF Unrecorded, SwitchUnrecorded
      <4> QED
        BY <1>0, <2>1, <4>1, Zenon DEF Unrecorded, SwitchUnrecorded
    <3>3. Untouched(p) => Untouched(p)'
      <4> SUFFICES ASSUME Untouched(p) PROVE Untouched(p)'
        OBVIOUS
      <4>1. \A n \in Moves : Active(n)' => Active(n) /\ mv'[n].dst = mv[n].dst
        BY <1>0, <2>1, <2>2, Zenon DEF Active
      <4>2. p # mv[m].dst \/ p = row.place
        BY <2>2 DEF Untouched
      <4>3. bytes'[p] = bytes[p]
        BY <1>0, <1>2, <4>2, SMT DEF RecoverUndone, DiscardCopy, DeleteBucket
      <4> QED
        BY <1>0, <4>1, <4>3, UntouchedKept
    <3> QED
      BY <1>0, <3>1, <3>2, <3>3, LinkKept DEF ReadsSafe
  <2> QED
    BY <1>p, <1>s, <2>3, <2>4 DEF ReadsSafe
<1>3. CASE Serve
  <2>1. bytes' = bytes /\ mv' = mv
    BY <1>3 DEF Serve
  <2>2. SwitchedLate'
    BY <1>0, <2>1, Zenon DEF ReadsSafe, SwitchedLate, NotYetSwitched
  <2>3. \A p \in Direct : LinkHeld(p)'
    <3> SUFFICES ASSUME NEW p \in Direct PROVE LinkHeld(p)'
      OBVIOUS
    <3>1. LinkHeld(p)
      BY DEF ReadsSafe
    <3> QED
      BY <1>0, <2>1, <3>1, Zenon
         DEF LinkHeld, Untouched, Active, Beyond, Unrecorded, SwitchUnrecorded
  <2> QED
    BY <1>p, <1>s, <2>2, <2>3 DEF ReadsSafe
<1> QED
  BY <1>1, <1>2, <1>3 DEF Recovery

(* A step of one reader: what it has to show about itself and the links. *)
LEMMA ReaderStep ==
    ASSUME TypeOK, TypeOK', ReadsSafe, NEW r \in Readers, up, up',
           UNCHANGED <<row, bytes, mv, waitLeft, at, cur, removing>>,
           \A s \in Readers \ {r} : rd'[s] = rd[s] /\ (s \in stale' <=> s \in stale),
           \A m \in Moves, s \in Readers \ {r} : s \in oldReads'[m] <=> s \in oldReads[m],
           r \in stale' => rd'[r].pc = "reading",
           r \in stale => r \in stale' \/ rd'[r].pc \notin {"leased", "found", "reading"},
           \A m \in Moves : r \in oldReads'[m] => r \in oldReads[m] /\ (r \in stale => r \in stale'),
           r \in Leased' => r \in Leased \/ ~removing,
           r \in Pulls \ stale' => PullHeld(r)' /\ LocalHeld(r)',
           \A p \in Direct : LinkHeld(p)'
    PROVE  ReadsSafe'
<1>1. DownIdle' /\ StaleSends'
  BY Zenon DEF ReadsSafe, DownIdle, StaleSends, TypeOK
<1>2. SwitchedLate'
  BY Zenon DEF ReadsSafe, SwitchedLate, NotYetSwitched
<1>3. RemovalWaited'
  <2> SUFFICES ASSUME NEW m \in Moves, cur = m, at \in Finishing PROVE Waited(m)'
    BY DEF RemovalWaited
  <2>1. Waited(m)
    BY DEF ReadsSafe, RemovalWaited
  <2>2. oldReads[m] \subseteq stale => oldReads'[m] \subseteq stale'
    <3>1. oldReads'[m] \subseteq Readers
      BY DEF TypeOK
    <3> QED
      BY <3>1
  <2>3. removing /\ Leased \subseteq stale => Leased' \subseteq stale'
    <3> SUFFICES ASSUME removing, Leased \subseteq stale, NEW s \in Leased' PROVE s \in stale'
      OBVIOUS
    <3>1. s \in Readers /\ rd'[s].pc \in {"leased", "found", "reading"}
      BY DEF Leased
    <3>2. CASE s = r
      BY <3>1, <3>2
    <3>3. CASE s # r
      BY <3>1, <3>3 DEF Leased
    <3> QED
      BY <3>2, <3>3
  <2> QED
    BY <2>1, <2>2, <2>3, Zenon DEF Waited
<1>4. \A s \in Pulls \ stale' : PullHeld(s)' /\ LocalHeld(s)'
  <2> SUFFICES ASSUME NEW s \in Pulls \ stale', s # r PROVE PullHeld(s)' /\ LocalHeld(s)'
    OBVIOUS
  <2>1. s \in Readers /\ s \notin stale /\ rd'[s] = rd[s]
    BY DEF Readers
  <2>2. PullHeld(s) /\ LocalHeld(s)
    BY <2>1 DEF ReadsSafe
  <2>3. LocalHeld(s)'
    BY <2>1, <2>2, Zenon DEF LocalHeld
  <2>4. PullHeld(s)'
    BY <2>1, <2>2, Zenon DEF PullHeld, Untouched, Active, Beyond
  <2> QED
    BY <2>3, <2>4
<1> QED
  BY <1>1, <1>2, <1>3, <1>4 DEF ReadsSafe

LEMMA ReadReads ==
    ASSUME TypeOK, TypeOK', Safe, ReadsSafe, Read
    PROVE  ReadsSafe'
<1> USE DEF dataVars, workVars, reqVars, ReadUnchanged
<1> PICK r \in Readers :
        \/ PreviewLookup(r) \/ Acquire(r) \/ Find(r) \/ SendLink(r)
        \/ Open(r) \/ Release(r) \/ GoStale(r)
  BY DEF Read
<1>0. /\ up /\ up' /\ UNCHANGED <<row, bytes, mv, waitLeft, at, cur, removing>>
      /\ rd \in [Readers -> Reader] /\ rd[r] \in Reader
      /\ stale \subseteq Readers /\ oldReads \in [Moves -> SUBSET Readers]
      /\ r \in stale => rd[r].pc = "reading"
      /\ r \in Pulls \ stale => PullHeld(r) /\ LocalHeld(r)
  BY Zenon
     DEF PreviewLookup, Acquire, Find, SendLink, Open, Release, GoStale, TypeOK, ReadsSafe,
         StaleSends
<1>l. ASSUME linkLeft' = linkLeft PROVE \A p \in Direct : LinkHeld(p)'
  <2> SUFFICES ASSUME NEW p \in Direct PROVE LinkHeld(p)'
    OBVIOUS
  <2>1. LinkHeld(p)
    BY DEF ReadsSafe
  <2> QED
    BY <1>0, <1>l, <2>1, Zenon
       DEF LinkHeld, Untouched, Active, Beyond, Unrecorded, SwitchUnrecorded
<1>e. ASSUME EndLease(r)
      PROVE  /\ r \notin stale' /\ \A m \in Moves : r \notin oldReads'[m]
             /\ \A s \in Readers \ {r} : s \in stale' <=> s \in stale
             /\ \A m \in Moves, s \in Readers \ {r} : s \in oldReads'[m] <=> s \in oldReads[m]
  BY <1>0, <1>e DEF EndLease
<1>1. CASE PreviewLookup(r)
  <2>1. /\ rd'[r].pc = "known" /\ \A s \in Readers \ {r} : rd'[s] = rd[s]
        /\ UNCHANGED <<stale, linkLeft, oldReads>> /\ rd[r].pc = "idle"
    BY <1>0, <1>1, SMT DEF PreviewLookup, SetReader
  <2>2. r \notin stale /\ r \notin Leased' /\ PullHeld(r)' /\ LocalHeld(r)'
    BY <1>0, <2>1 DEF Leased, PullHeld, LocalHeld
  <2> QED
    BY <1>0, <1>l, <2>1, <2>2, ReaderStep
<1>2. CASE Acquire(r)
  <2>1. /\ rd'[r].pc = "leased" /\ \A s \in Readers \ {r} : rd'[s] = rd[s]
        /\ UNCHANGED <<stale, linkLeft, oldReads>> /\ rd[r].pc \in {"idle", "known"}
        /\ ~removing
    BY <1>0, <1>2, SMT DEF Acquire, Reader
  <2>2. r \notin stale /\ PullHeld(r)' /\ LocalHeld(r)'
    BY <1>0, <2>1 DEF PullHeld, LocalHeld
  <2> QED
    BY <1>0, <1>l, <2>1, <2>2, ReaderStep
<1>3. CASE Find(r)
  <2>1. /\ rd'[r].pc = "found" /\ \A s \in Readers \ {r} : rd'[s] = rd[s]
        /\ UNCHANGED <<stale, linkLeft, oldReads>> /\ rd[r].pc = "leased"
        /\ r \in Pulls => rd'[r].place = Served(row.place, row.cached)
    BY <1>0, <1>3, SMT DEF Find, SetReader
  <2>2. r \notin stale /\ r \in Leased
    BY <1>0, <2>1 DEF Leased
  <2>3. LocalHeld(r)'
    BY <2>1 DEF LocalHeld
  <2>4. ASSUME r \in Pulls PROVE PullHeld(r)'
    <3> SUFFICES ASSUME rd'[r].place \in Remotes
                 PROVE  /\ Untouched(rd[r].place)'
                        /\ \A m \in Moves : ~(Beyond(m)' /\ mv'[m].src = rd'[r].place)
      BY Zenon DEF PullHeld, Untouched, Active
    <3>1. rd'[r].place = row.place
      BY <2>1, <2>4, PlacesAssumption DEF Served
    <3>2. bytes[row.place] = "full" /\ row'.place = row.place
      BY <1>0 DEF Safe
    <3>3. Untouched(rd[r].place)'
      BY <1>0, <3>1, <3>2 DEF Untouched
    <3>4. ASSUME NEW m \in Moves, Beyond(m), mv[m].src = row.place PROVE FALSE
      <4>1. CASE mv[m].status \in PostSwitch
        <5>1. row.place = mv[m].dst /\ mv[m].src # mv[m].dst
          BY <4>1 DEF Safe, StatusFits, Unfinished
        <5> QED
          BY <3>4, <5>1
      <4>2. CASE cur = m /\ at \in Finishing
        <5>1. row.place = mv[m].dst /\ mv[m].src # mv[m].dst
          BY <4>2 DEF Safe, WorkFits
        <5> QED
          BY <3>4, <5>1
      <4> QED
        BY <3>4, <4>1, <4>2 DEF Beyond
    <3>5. \A m \in Moves : Beyond(m)' => Beyond(m)
      BY <1>0, Zenon DEF Beyond
    <3> QED
      BY <1>0, <3>1, <3>3, <3>4, <3>5
  <2> QED
    BY <1>0, <1>l, <2>1, <2>2, <2>3, <2>4, ReaderStep
<1>4. CASE SendLink(r)
  <2>1. /\ rd'[r] = Idle /\ \A s \in Readers \ {r} : rd'[s] = rd[s]
        /\ rd[r].pc = "found" /\ r \in Pulls /\ rd[r].place \in Direct /\ EndLease(r)
        /\ linkLeft' = [linkLeft EXCEPT ![rd[r].place] = TTL]
    BY <1>0, <1>4, SMT DEF SendLink
  <2>2. r \notin stale /\ rd'[r].pc = "idle" /\ PullHeld(r)
    BY <1>0, <2>1 DEF Idle
  <2>3. r \notin Leased' /\ PullHeld(r)' /\ LocalHeld(r)'
    BY <2>2 DEF Leased, PullHeld, LocalHeld
  <2>4. \A p \in Direct : LinkHeld(p)'
    <3> SUFFICES ASSUME NEW p \in Direct PROVE LinkHeld(p)'
      OBVIOUS
    <3>0. linkLeft \in [Remotes -> 0..TTL] /\ Direct \subseteq Remotes
      BY PlacesAssumption DEF TypeOK
    <3>1. CASE p # rd[r].place
      <4>1. linkLeft'[p] = linkLeft[p] /\ LinkHeld(p)
        BY <2>1, <3>0, <3>1 DEF ReadsSafe
      <4> QED
        BY <1>0, <4>1, Zenon
           DEF LinkHeld, Untouched, Active, Beyond, Unrecorded, SwitchUnrecorded
    <3>2. CASE p = rd[r].place
      <4>1. Untouched(p) /\ linkLeft'[p] = TTL
        BY <2>1, <2>2, <3>0, <3>2 DEF PullHeld
      <4>2. \A m \in Moves : Beyond(m) /\ mv[m].src = p /\ mv[m].switchedAt
                => waitLeft[m] = TTL
        BY <2>1, <2>2, <3>0, <3>2, Zenon DEF PullHeld
      <4>3. TTL <= TTL
        BY PlacesAssumption, SMT
      <4>4. Untouched(p)'
        BY <1>0, <4>1, Zenon DEF Untouched, Active
      <4>5. \A m \in Moves : Beyond(m)' /\ mv'[m].src = p /\ mv'[m].switchedAt
                => linkLeft'[p] <= waitLeft'[m]
        BY <1>0, <4>1, <4>2, <4>3, Zenon DEF Beyond
      <4> QED
        BY <4>4, <4>5, Zenon DEF LinkHeld
    <3> QED
      BY <3>1, <3>2
  <2> QED
    BY <1>0, <1>e, <2>1, <2>2, <2>3, <2>4, ReaderStep
<1>5. CASE Open(r)
  <2>1. /\ \A s \in Readers \ {r} : rd'[s] = rd[s]
        /\ rd[r].pc = "found" /\ linkLeft' = linkLeft
    BY <1>0, <1>5, SMT DEF Open
  <2>2. r \notin stale /\ r \in Leased /\ (r \in Pulls => PullHeld(r))
    BY <1>0, <2>1 DEF Leased
  <2>3. CASE rd[r].place = Local /\ bytes[Local] = "none"
    <3>1. rd'[r].pc = "broken" /\ EndLease(r)
      BY <1>0, <1>5, <2>3, SMT DEF Open, Idle
    <3>2. r \notin Leased' /\ PullHeld(r)' /\ LocalHeld(r)'
      BY <3>1 DEF Leased, PullHeld, LocalHeld
    <3> QED
      BY <1>0, <1>e, <1>l, <2>1, <2>2, <3>1, <3>2, ReaderStep
  <2>4. CASE ~(rd[r].place = Local /\ bytes[Local] = "none")
    <3>1. /\ rd'[r].pc = "reading" /\ rd'[r].place = rd[r].place
          /\ UNCHANGED <<stale, oldReads>>
      BY <1>0, <1>5, <2>4, SMT DEF Open, Reader
    <3>2. LocalHeld(r)'
      BY <1>0, <2>4, <3>1 DEF LocalHeld
    <3>3. r \in Pulls => PullHeld(r)'
      <4> SUFFICES ASSUME r \in Pulls, NEW p \in Remotes, rd[r].place = p
                   PROVE  /\ Untouched(p)'
                          /\ \A m \in Moves : Beyond(m)' /\ mv'[m].src = p => r \in oldReads'[m]
        BY <3>1, Zenon DEF PullHeld, Untouched, Active
      <4>1. /\ Untouched(p)
            /\ \A m \in Moves : Beyond(m) /\ mv[m].src = p => r \in oldReads[m]
        BY <2>1, <2>2, Zenon DEF PullHeld
      <4>2. Untouched(p)'
        BY <1>0, <4>1, Zenon DEF Untouched, Active
      <4> QED
        BY <1>0, <3>1, <4>1, <4>2, Zenon DEF Beyond
    <3> QED
      BY <1>0, <1>l, <2>1, <2>2, <3>1, <3>2, <3>3, ReaderStep
  <2> QED
    BY <2>3, <2>4
<1>6. CASE Release(r)
  <2>1. /\ rd'[r] = Idle /\ \A s \in Readers \ {r} : rd'[s] = rd[s]
        /\ EndLease(r) /\ linkLeft' = linkLeft
    BY <1>0, <1>6, SMT DEF Release
  <2>2. rd'[r].pc = "idle" /\ r \notin Leased' /\ PullHeld(r)' /\ LocalHeld(r)'
    BY <2>1 DEF Idle, Leased, PullHeld, LocalHeld
  <2> QED
    BY <1>0, <1>e, <1>l, <2>1, <2>2, ReaderStep
<1>7. CASE GoStale(r)
  <2>1. /\ rd' = rd /\ linkLeft' = linkLeft /\ oldReads' = oldReads
        /\ stale' = stale \union {r} /\ rd[r].pc = "reading"
    BY <1>7, Zenon DEF GoStale
  <2>2. r \in Leased /\ r \in stale'
    BY <2>1 DEF Leased
  <2> QED
    BY <1>0, <1>l, <2>1, <2>2, ReaderStep
<1> QED
  BY <1>1, <1>2, <1>3, <1>4, <1>5, <1>6, <1>7

(* Time passes for a link and for the move that waits for it alike. *)
LEMMA TickReads ==
    ASSUME TypeOK, ReadsSafe, Tick
    PROVE  ReadsSafe'
<1> USE DEF dataVars, workVars, memVars, reqVars
<1>0. /\ UNCHANGED <<row, bytes, mv, at, cur, removing, rd, stale, oldReads, up>>
      /\ \A r \in Readers : rd[r].pc # "found"
      /\ \A m \in Moves : waitLeft'[m] = Decrease(waitLeft[m])
      /\ \A p \in Remotes : linkLeft'[p] = Decrease(linkLeft[p])
      /\ \A m \in Moves : waitLeft[m] \in Nat
      /\ \A p \in Remotes : linkLeft[p] \in Nat
      /\ Direct \subseteq Remotes
  BY PlacesAssumption, SMT DEF Tick, TypeOK
<1>d. /\ Decrease(0) = 0
      /\ \A n \in Nat : Decrease(n) > 0 => n > 0
      /\ \A m, n \in Nat : m <= n => Decrease(m) <= Decrease(n)
  BY SMT DEF Decrease
<1>1. DownIdle' /\ StaleSends' /\ SwitchedLate'
  BY <1>0, Zenon DEF ReadsSafe, DownIdle, StaleSends, SwitchedLate, NotYetSwitched
<1>2. RemovalWaited'
  <2> SUFFICES ASSUME NEW m \in Moves, cur = m, at \in Finishing PROVE Waited(m)'
    BY <1>0 DEF RemovalWaited
  <2>1. Waited(m)
    BY DEF ReadsSafe, RemovalWaited
  <2>2. waitLeft[m] = 0 => waitLeft'[m] = 0
    BY <1>0, <1>d, Zenon
  <2> QED
    BY <1>0, <2>1, <2>2, Zenon DEF Waited, Leased
<1>3. \A r \in Pulls \ stale' : PullHeld(r)' /\ LocalHeld(r)'
  <2> SUFFICES ASSUME NEW r \in Pulls \ stale PROVE PullHeld(r)' /\ LocalHeld(r)'
    BY <1>0
  <2>1. PullHeld(r) /\ LocalHeld(r) /\ rd[r].pc # "found"
    BY <1>0 DEF ReadsSafe, Readers
  <2>2. LocalHeld(r)'
    BY <1>0, <2>1, Zenon DEF LocalHeld
  <2>3. PullHeld(r)'
    BY <1>0, <2>1, Zenon DEF PullHeld, Untouched, Active, Beyond
  <2> QED
    BY <2>2, <2>3
<1>4. \A p \in Direct : LinkHeld(p)'
  <2> SUFFICES ASSUME NEW p \in Direct, linkLeft'[p] > 0,
                      ~ \E m \in Moves : mv[m].src = p /\ Unrecorded(m)
               PROVE  /\ Untouched(p)
                      /\ \A m \in Moves : Beyond(m) /\ mv[m].src = p /\ mv[m].switchedAt
                            => linkLeft'[p] <= waitLeft'[m]
    BY <1>0, Zenon DEF LinkHeld, Untouched, Active, Beyond, Unrecorded, SwitchUnrecorded
  <2>1. linkLeft[p] > 0
    BY <1>0, <1>d
  <2>2. /\ Untouched(p)
        /\ \A m \in Moves : Beyond(m) /\ mv[m].src = p /\ mv[m].switchedAt
              => linkLeft[p] <= waitLeft[m]
    BY <2>1, Zenon DEF ReadsSafe, LinkHeld
  <2>3. \A m \in Moves : linkLeft[p] <= waitLeft[m] => linkLeft'[p] <= waitLeft'[m]
    <3> SUFFICES ASSUME NEW m \in Moves, linkLeft[p] <= waitLeft[m]
                 PROVE  linkLeft'[p] <= waitLeft'[m]
      OBVIOUS
    <3>1. linkLeft[p] \in Nat /\ waitLeft[m] \in Nat
      BY <1>0
    <3>2. linkLeft'[p] = Decrease(linkLeft[p]) /\ waitLeft'[m] = Decrease(waitLeft[m])
      BY <1>0
    <3> QED
      BY <1>d, <3>1, <3>2
  <2> QED
    BY <2>2, <2>3, Zenon
<1> QED
  BY <1>1, <1>2, <1>3, <1>4 DEF ReadsSafe

-----------------------------------------------------------------------------
(* Together.                                                               *)

LEMMA InitReads == Init => ReadsSafe /\ PinRemembered /\ Gone
<1> SUFFICES ASSUME Init PROVE ReadsSafe /\ PinRemembered /\ Gone
  OBVIOUS
<1>1. /\ \A r \in Readers : rd[r].pc = "idle"
      /\ stale = {} /\ at = "loop" /\ \A m \in Moves : cur # m
      /\ \A p \in Direct : ~(linkLeft[p] > 0)
  BY PlacesAssumption, SMT DEF Init, Idle
<1>2. \A m \in Moves : ~mv[m].switchedAt
  <2>1. \A m \in Moves : mv[m] = [status |-> "absent", src |-> Local, dst |-> Local,
                                  keep |-> FALSE, switchedAt |-> FALSE]
    BY DEF Init
  <2> QED
    BY <2>1, SMT
<1>3. DownIdle /\ StaleSends /\ SwitchedLate /\ RemovalWaited
  BY <1>1, <1>2, Zenon DEF DownIdle, StaleSends, SwitchedLate, RemovalWaited
<1>4. \A r \in Pulls \ stale : PullHeld(r) /\ LocalHeld(r)
  BY <1>1 DEF PullHeld, LocalHeld, Readers
<1>5. \A p \in Direct : LinkHeld(p)
  BY <1>1 DEF LinkHeld
<1>6. PinRemembered
  BY Zenon DEF Init, PinRemembered, Remembering
<1>7. Gone
  BY <1>1 DEF Gone
<1> QED
  BY <1>3, <1>4, <1>5, <1>6, <1>7 DEF ReadsSafe

LEMMA FullInvStep == FullInv /\ [Next]_vars => FullInv'
<1> SUFFICES ASSUME FullInv, [Next]_vars PROVE FullInv'
  OBVIOUS
<1>1. IInv /\ IInv' /\ TypeOK /\ TypeOK' /\ WorkerHasMove
  BY IInvStep DEF FullInv, IInv
<1>2. PinRemembered' /\ Gone'
  BY <1>1, PinStep, GoneStep DEF FullInv
<1>3. ASSUME ~overlap' PROVE ReadsSafe'
  <2>1. ~overlap
    <3>1. CASE Request
      BY <1>3, <3>1, Zenon
         DEF Request, StartCheck, StartCreate, CancelRead, CancelApply
    <3>2. CASE Worker \/ Crash \/ Recovery \/ Read \/ Tick
      BY <1>1, <1>3, <3>2, RequestsOnly DEF IInv
    <3>3. CASE UNCHANGED vars
      BY <1>3, <3>3 DEF vars
    <3> QED
      BY <3>1, <3>2, <3>3 DEF Next
  <2>2. Safe /\ ReadsSafe
    BY <1>1, <2>1 DEF FullInv, IInv, Orderly
  <2>3. CASE UNCHANGED vars
    <3>1. UNCHANGED <<row, bytes, mv, waitLeft, at, cur, removing, rd, stale, oldReads,
                      linkLeft>> /\ (~up' => ~up)
      BY <2>3, Zenon DEF vars
    <3> QED
      BY <2>2, <3>1, ReadsFrame
  <2> QED
    BY <1>1, <1>3, <2>2, <2>3, RequestReads, LoopReads, RunReads, FinishReads, CrashReads,
       RecoveryReads, ReadReads, TickReads DEF Next, Worker
<1> QED
  BY <1>1, <1>2, <1>3 DEF FullInv, Orderly

LEMMA FullInvAlways == Spec => []FullInv
<1>1. Init => FullInv
  BY InitType, InitSafe, InitReads DEF FullInv, IInv, Init, WorkerHasMove, Orderly
<1> QED
  BY <1>1, FullInvStep, PTL DEF Spec

(* A pull keeps the copy it found until it ends: the bucket it reads is not  *)
(* emptied under it, nor the local folder, however moves, removals, crashes *)
(* and other reads come in between.                                         *)
THEOREM PullsAlwaysKeepTheirCopy == Spec => []PullsKeepTheirCopy
<1>1. FullInv => PullsKeepTheirCopy
  <2> SUFFICES ASSUME FullInv, Orderly, NEW r \in Pulls \ stale
               PROVE  /\ rd[r].pc \in {"found", "reading"} /\ rd[r].place \in Remotes
                         => bytes[rd[r].place] = "full"
                      /\ rd[r].pc = "reading" /\ rd[r].place = Local /\ ~rd[r].aside
                         => bytes[Local] # "none"
    BY DEF PullsKeepTheirCopy
  <2>1. PullHeld(r) /\ LocalHeld(r)
    BY DEF FullInv, ReadsSafe
  <2> QED
    BY <2>1, Zenon DEF PullHeld, LocalHeld, Untouched
<1> QED
  BY <1>1, FullInvAlways, PTL

(* A signed link finds its files until it expires, unless the switch away    *)
(* from them was never recorded.                                            *)
THEOREM LinksAlwaysHonouredOnceRecorded == Spec => []LinksHonoured
<1>1. FullInv => LinksHonoured
  BY Zenon DEF FullInv, ReadsSafe, LinksHonoured, LinkHeld, Untouched, Unrecorded
<1> QED
  BY <1>1, FullInvAlways, PTL

(* While no call fails, and moves are created in order, the revision a       *)
(* client pinned before a move resolves to the same files whenever the       *)
(* thread is between moves (_relabel).                                       *)
THEOREM PinAlwaysKept == Spec => []PinKept
<1>1. FullInv => PinKept
  BY Zenon DEF FullInv, PinRemembered, PinKept, Remembering
<1> QED
  BY <1>1, FullInvAlways, PTL

(* A move becomes "done" only once its old copy is gone or was to be kept,   *)
(* in whatever order moves were created.                                    *)
THEOREM DoneAlwaysRemovesOldCopy == Spec => DoneRemovesOldCopy
<1>1. TypeOK /\ WorkerHasMove /\ Gone /\ [Next]_vars
        => [\A m \in Moves :
               mv[m].status # "done" /\ mv'[m].status = "done"
               => mv[m].keep \/ bytes'[mv[m].src] = "none"]_vars
  <2> SUFFICES ASSUME TypeOK, WorkerHasMove, Gone, Next,
                      NEW m \in Moves, mv[m].status # "done", mv'[m].status = "done"
               PROVE  mv[m].keep \/ bytes'[mv[m].src] = "none"
    BY Zenon
  <2>0. mv \in [Moves -> MoveRow] /\ (at # "loop" => cur \in Moves)
    BY DEF TypeOK, WorkerHasMove
  <2>e. EndMove
    <3>s. ASSUME NEW n \in Moves, NEW s, SetStatus(n, s), s # "done" PROVE FALSE
      BY <2>0, <3>s, StatusOnly
    <3>u. mv' # mv
      OBVIOUS
    <3>1. ~Request
      <4> SUFFICES ASSUME NEW q \in Requests, NEW n \in Moves,
                          StartCreate(q, n) \/ CancelApply(q)
                   PROVE  FALSE
        BY <3>u, Zenon DEF Request, StartCheck, CancelRead
      <4>1. CASE StartCreate(q, n)
        BY <2>0, <4>1, SMT DEF StartCreate
      <4>2. CASE CancelApply(q)
        <5>1. mv'[m] = mv[m] \/ mv'[m] = [mv[m] EXCEPT !.status = "cancelled"]
          BY <2>0, <4>2, SMT DEF CancelApply
        <5>2. mv[m] \in MoveRow
          BY <2>0
        <5> QED
          BY <5>1, <5>2, SMT DEF MoveRow
      <4> QED
        BY <4>1, <4>2
    <3>2. ~Crash /\ ~Read /\ ~Tick
      BY <3>u, Zenon
         DEF Crash, Read, PreviewLookup, Acquire, Find, SendLink, Open, Release, GoStale,
             ReadUnchanged, Tick
    <3>3. ~Recovery
      BY <3>s, <3>u, Zenon DEF Recovery, RecoverSwitched, RecoverUndone, Serve
    <3>4. ~Loop
      BY <3>s, <3>u, Zenon DEF Loop, Pick, BeginRemoval, WaitAgain
    <3>5. ~Run
      <4> SUFFICES ASSUME Run PROVE FALSE
        OBVIOUS
      <4>1. CASE BeginDrain
        <5>1. cur \in Moves
          BY <2>0, <4>1 DEF BeginDrain
        <5>2. /\ m # cur => mv'[m] = mv[m]
              /\ m = cur => mv'[m] = [mv[m] EXCEPT !.status = "draining", !.switchedAt = TRUE]
          BY <2>0, <4>1, <5>1, Zenon DEF BeginDrain
        <5>3. mv[m] \in MoveRow
          BY <2>0
        <5>4. CASE m = cur
          <6>1. mv'[m] = [mv[m] EXCEPT !.status = "draining", !.switchedAt = TRUE]
            BY <5>2, <5>4
          <6>2. mv'[m].status = "draining"
            BY <5>3, <6>1, SMT DEF MoveRow
          <6> QED
            BY <6>2
        <5> QED
          BY <5>2, <5>4
      <4>2. CASE EndRun
        <5>1. cur \in Moves
          BY <2>0, <4>2 DEF EndRun
        <5>2. SetStatus(cur, "failed") \/ SetStatus(cur, "cancelled")
          BY <4>2, Zenon DEF EndRun
        <5> QED
          BY <3>s, <5>1, <5>2
      <4>3. CASE BeginCopy \/ BeginVerify \/ BeginSwitch
        <5>1. cur \in Moves
          BY <2>0, <4>3 DEF BeginCopy, BeginVerify, BeginSwitch
        <5>2. SetStatus(cur, "copying") \/ SetStatus(cur, "verifying")
              \/ SetStatus(cur, "switching")
          BY <4>3, Zenon DEF BeginCopy, BeginVerify, BeginSwitch
        <5> QED
          BY <3>s, <5>1, <5>2
      <4>4. CASE \/ CopyFiles \/ VerifyCopy \/ Publish \/ SwapAside \/ SwapIn \/ SetLocation
                 \/ DeleteSourceManifest \/ RelabelSwitched \/ RunRaises \/ UndoCopy
        <5>1. mv' = mv
          BY <4>4, Zenon
             DEF CopyFiles, VerifyCopy, Publish, SwapAside, SwapIn, SetLocation,
                 DeleteSourceManifest, RelabelSwitched, RunRaises, UndoCopy
        <5> QED
          BY <3>u, <5>1
      <4> QED
        BY <4>1, <4>2, <4>3, <4>4 DEF Run
    <3>6. Finish => EndMove
      <4> SUFFICES ASSUME Finish, ~EndMove PROVE FALSE
        OBVIOUS
      <4>1. SetStatus(cur, "failed")
        BY <3>u, Zenon
           DEF Finish, RemoveFromBucket, RemoveLocal, Uncache, NothingToRemove,
               RelabelRemoved, RelabelRaises, ReleaseAfterFailure
      <4>2. cur \in Moves
        BY <2>0, Zenon
           DEF Finish, RemoveFromBucket, RemoveLocal, Uncache, NothingToRemove,
               RelabelRemoved, RelabelRaises, ReleaseAfterFailure
      <4> QED
        BY <3>s, <4>1, <4>2
    <3> QED
      BY <3>1, <3>2, <3>3, <3>4, <3>5, <3>6 DEF Next, Worker
  <2>1. at = "released" /\ cur \in Moves /\ SetStatus(cur, "done") /\ bytes' = bytes
    BY <2>0, <2>e, Zenon DEF EndMove, dataVars
  <2>2. m = cur
    BY <2>0, <2>1, StatusOnly
  <2> QED
    BY <2>1, <2>2, Zenon DEF Gone
<1>2. FullInv => TypeOK /\ WorkerHasMove /\ Gone
  BY DEF FullInv, IInv
<1> QED
  BY <1>1, <1>2, FullInvAlways, PTL DEF Spec, DoneRemovesOldCopy
=============================================================================
