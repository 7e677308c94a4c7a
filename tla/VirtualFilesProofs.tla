------------------------ MODULE VirtualFilesProofs ------------------------
(***************************************************************************)
(* Proofs about VirtualFiles, for every set of paths, contents, blobs and  *)
(* uploaders: no reader meets a blob_ref whose object is missing, a blob   *)
(* write that returned stays what its path is where the database keeps the *)
(* order of its rows, and inline contents never change under a reader of a *)
(* checkpoint.                                                             *)
(*                                                                         *)
(* An upload adds a row to a checkpoint that others may already have       *)
(* committed after, which no transaction of the store does.  What keeps it *)
(* harmless is that each upload has a checkpoint of its own, where its     *)
(* path holds a tombstone until the row arrives.                           *)
(***************************************************************************)
EXTENDS VirtualFiles, RewindStoreProofs

Waits == [pc : {"commit"}, branch : BranchIds, path : Paths, ref : Blobs]
Inserts == [pc : {"insert"}, branch : BranchIds, path : Paths, ref : Blobs,
            checkpoint : CheckpointIds]
Writes == [checkpoint : CheckpointIds, path : Paths, ref : Blobs]

Stored(ref) == objects[ref] # NoObject

(* The object was uploaded first, and the row for the path is the          *)
(* tombstone that the upload committed.                                    *)
UploadOK(w) ==
    \/ w = Idle
    \/ w \in Waits /\ Stored(w.ref)
    \/ /\ w \in Inserts /\ Stored(w.ref)
       /\ vfs_objects[w.checkpoint][w.path] = Tombstone

WriteOK(w) ==
    /\ w \in Writes
    /\ ordered => vfs_objects[w.checkpoint][w.path] = w.ref

(* c is a checkpoint of a blob write that has not returned.                *)
Awaits(u, c) == uploads[u].pc = "insert" /\ uploads[u].checkpoint = c

BlobsStored ==
    \A c \in CheckpointIds, p \in Paths :
        vfs_objects[c][p] \in Blobs => Stored(vfs_objects[c][p])

OwnCheckpoints ==
    /\ \A u, v \in Uploaders, c \in CheckpointIds : Awaits(u, c) /\ Awaits(v, c) => u = v
    /\ \A u \in Uploaders, w \in written : ~Awaits(u, w.checkpoint)

FilesInv ==
    /\ StoreInv
    /\ objects \in [Blobs -> Bodies \cup {NoObject}]
    /\ DOMAIN uploads = Uploaders
    /\ ordered \in BOOLEAN
    /\ \A u \in Uploaders : UploadOK(uploads[u])
    /\ \A w \in written : WriteOK(w)
    /\ BlobsStored
    /\ OwnCheckpoints

-----------------------------------------------------------------------------
(* Rows of vfs_objects, and what a reader makes of them.                   *)

LEMMA FileRows ==
  ASSUME StoreInv
  PROVE  /\ TreeInv
         /\ vfs_objects \in Seq(Rows(Paths)) /\ Len(vfs_objects) = Len(checkpoints)
         /\ \A c \in CheckpointIds :
               /\ vfs_objects[c] \in Rows(Paths)
               /\ \A p \in Paths : vfs_objects[c][p] \in Contents \cup {Unwritten, Tombstone}
<1>1. TreeInv /\ vfs_objects \in Seq(Rows(Paths)) /\ Len(vfs_objects) = Len(checkpoints)
  BY DEF StoreInv, TreeInv, TypeOK
<1>2. \A c \in CheckpointIds : vfs_objects[c] \in Rows(Paths)
  BY <1>1, ElementOfSeq DEF CheckpointIds
<1> QED
  BY <1>1, <1>2 DEF Rows

LEMMA ResolvesTo ==
  ASSUME NEW c, NEW p \in Paths
  PROVE  resolve_files(c)[p] = ReplayOn(lineage[c], vfs_objects, checkpoints, p)
  BY ReplayIsReplayOn DEF resolve_files

LEMMA ResolvesToPrime ==
  ASSUME NEW c, NEW p \in Paths
  PROVE  resolve_files(c)'[p] = ReplayOn(lineage'[c], vfs_objects', checkpoints', p)
  BY ReplayIsReplayOn DEF resolve_files

(* A path holds nothing, or the contents of a row on the lineage.          *)
LEMMA ResolvedIsWritten ==
  ASSUME StoreInv, NEW c \in CheckpointIds, NEW p \in Paths, resolve_files(c)[p] # Absent
  PROVE  \E d \in lineage[c] : /\ d \in CheckpointIds /\ resolve_files(c)[p] = vfs_objects[d][p]
                               /\ vfs_objects[d][p] \in Contents
  BY ResolvesTo, ReplayIsWritten, FileRows

(* The row of a checkpoint itself hides all that its ancestors wrote.      *)
LEMMA OwnRowDecides ==
  ASSUME StoreInv, NEW c \in CheckpointIds, NEW p \in Paths, vfs_objects[c][p] # Unwritten
  PROVE  resolve_files(c)[p] = IF vfs_objects[c][p] = Tombstone THEN Absent
                               ELSE vfs_objects[c][p]
  BY ResolvesTo, OwnRowReplays DEF StoreInv

(* A late row in the place of a tombstone changes nothing for a reader     *)
(* that found something else.                                              *)
LEMMA ReplayOnLateRow ==
  ASSUME NEW L, NEW t1, NEW t2, NEW rows, NEW x, NEW m \in Nat, NEW n,
         \A d \in L : rows[d].step \in 0 .. m,
         \A d \in L : d # n => t2[d][x] = t1[d][x],
         t1[n][x] = Tombstone, t2[n][x] # Unwritten,
         ReplayOn(L, t1, rows, x) # Absent
  PROVE  ReplayOn(L, t2, rows, x) = ReplayOn(L, t1, rows, x)
<1>1. PICK W : W = {d \in L : t1[d][x] # Unwritten}
  OBVIOUS
<1>2. W = {d \in L : t2[d][x] # Unwritten}
  <2>1. Tombstone # Unwritten
    BY DistinctMarkers
  <2> QED
    BY <2>1, <1>1
<1>3. PICK last : last = LastOf(W, rows)
  OBVIOUS
<1>4. W # {} /\ t1[last][x] # Tombstone
  BY <1>1, <1>3 DEF ReplayOn, ReplayOf
<1>5. last \in L /\ last # n
  BY <1>1, <1>3, <1>4, LastIsWriter
<1> QED
  BY <1>1, <1>2, <1>3, <1>4, <1>5 DEF ReplayOn, ReplayOf

-----------------------------------------------------------------------------
(* Steps of the store, under the uploads.                                  *)

(* A checkpoint this step adds has no row with a blob.                     *)
NoNewBlobs ==
    \A c \in CheckpointIds' : c \notin CheckpointIds =>
        \A p \in Paths : vfs_objects'[c][p] \notin Blobs

BlobsGrow == \A ref \in Blobs : Stored(ref) => Stored(ref)'

LEMMA CreateRunFiles ==
  ASSUME StoreInv, create_run
  PROVE  [Next]_storeVars /\ NoNewBlobs
<1>1. PICK n : n = Len(checkpoints) + 1
  OBVIOUS
<1>2. PICK m : m = Len(branches) + 1
  OBVIOUS
<1>3. CheckpointIds' = CheckpointIds \cup {n} /\ vfs_objects'[n] = NoRows(Paths)
  BY <1>1, <1>2, CreateRunShape DEF StoreInv, NewCheckpoint
<1>4. \A p \in Paths : NoRows(Paths)[p] \notin Blobs
  BY BlobsAreContents, DistinctMarkers DEF NoRows
<1> QED
  BY <1>3, <1>4 DEF NoNewBlobs, Next

LEMMA CommitFiles ==
  ASSUME StoreInv, NEW b \in BranchIds, NEW files \in Rows(Paths),
         create_checkpoint(b, NoRows(Keys), files, NULL),
         \A p \in Paths : files[p] \notin Blobs
  PROVE  /\ [Next]_storeVars /\ NoNewBlobs
         /\ Len(checkpoints) + 1 \in CheckpointIds' /\ Len(checkpoints) + 1 \notin CheckpointIds
         /\ vfs_objects'[Len(checkpoints) + 1] = files
<1>1. PICK n : n = Len(checkpoints) + 1
  OBVIOUS
<1> DEFINE row == [run |-> branches[b].run, branch |-> b, parent |-> branches[b].head,
                   step |-> checkpoints[branches[b].head].step + 1]
<1>2. /\ CheckpointIds' = CheckpointIds \cup {n} /\ vfs_objects'[n] = files
      /\ n \notin CheckpointIds
  <2>1. NewCheckpoint(n, row, NoRows(Keys), files)
    BY <1>1, CommitShape DEF StoreInv
  <2> QED
    BY <2>1 DEF NewCheckpoint
<1>3. [Next]_storeVars
  BY FilesOnlyCheckpoint DEF Next
<1> QED
  BY <1>1, <1>2, <1>3 DEF NoNewBlobs

LEMMA RewindFiles ==
  ASSUME NEW b \in BranchIds, NEW target \in CheckpointIds, rewind(b, target)
  PROVE  [Next]_storeVars /\ NoNewBlobs
<1>1. CheckpointIds' = CheckpointIds
  BY DEF rewind, CheckpointIds
<1> QED
  BY <1>1 DEF NoNewBlobs, Next

LEMMA StoreKeepsRows ==
  ASSUME FilesInv, [Next]_storeVars, NoNewBlobs, BlobsGrow, ordered' = ordered
  PROVE  /\ StoreInv' /\ StoreGrows /\ BlobsStored'
         /\ \A w : UploadOK(w) => UploadOK(w)'
         /\ \A w : WriteOK(w) => WriteOK(w)'
<1>1. StoreInv' /\ StoreGrows
  BY StoreStep, StoreStepGrows DEF FilesInv, StoreInv
<1>2. /\ BranchIds \subseteq BranchIds' /\ CheckpointIds \subseteq CheckpointIds'
      /\ \A c \in CheckpointIds : vfs_objects'[c] = vfs_objects[c]
  BY <1>1 DEF StoreGrows, OldCheckpointsStay
<1>3. BlobsStored'
  <2>1. ASSUME NEW c \in CheckpointIds', NEW p \in Paths, vfs_objects'[c][p] \in Blobs
        PROVE  objects'[vfs_objects'[c][p]] # NoObject
    <3>1. c \in CheckpointIds
      BY <2>1 DEF NoNewBlobs
    <3>2. PICK ref \in Blobs : ref = vfs_objects[c][p] /\ ref = vfs_objects'[c][p]
      BY <2>1, <3>1, <1>2
    <3>3. Stored(ref)'
      BY <3>1, <3>2 DEF FilesInv, BlobsStored, BlobsGrow
    <3> QED
      BY <3>2, <3>3 DEF Stored
  <2> QED
    BY <2>1 DEF BlobsStored, Stored
<1>4. ASSUME NEW w, UploadOK(w)  PROVE UploadOK(w)'
  <2>1. CASE w = Idle
    BY <2>1 DEF UploadOK
  <2>2. CASE w \in Waits /\ Stored(w.ref)
    <3>1. w \in Waits' /\ w.ref \in Blobs
      BY <2>2, <1>2 DEF Waits
    <3> QED
      BY <3>1, <2>2 DEF UploadOK, BlobsGrow, Stored
  <2>3. CASE /\ w \in Inserts /\ Stored(w.ref)
             /\ vfs_objects[w.checkpoint][w.path] = Tombstone
    <3>1. w \in Inserts' /\ w.ref \in Blobs /\ w.checkpoint \in CheckpointIds
      BY <2>3, <1>2 DEF Inserts
    <3> QED
      BY <3>1, <2>3, <1>2 DEF UploadOK, BlobsGrow, Stored
  <2> QED
    BY <1>4, <2>1, <2>2, <2>3 DEF UploadOK
<1>5. ASSUME NEW w, WriteOK(w)  PROVE WriteOK(w)'
  <2>1. w \in Writes' /\ w.checkpoint \in CheckpointIds
    BY <1>2, <1>5 DEF WriteOK, Writes
  <2> QED
    BY <2>1, <1>2, <1>5 DEF WriteOK
<1> QED
  BY <1>1, <1>3, <1>4, <1>5

(* The parts of FilesInv' put together, for a step of the store under an   *)
(* upload u that goes on with w.                                           *)
LEMMA FilesInvNext ==
  ASSUME FilesInv, [Next]_storeVars, NoNewBlobs, BlobsGrow,
         objects' \in [Blobs -> Bodies \cup {NoObject}], written' = written, ordered' = ordered,
         NEW u \in Uploaders, NEW w, uploads' = [uploads EXCEPT ![u] = w], UploadOK(w)',
         \A c \in CheckpointIds : ~(w.pc = "insert" /\ w.checkpoint = c)
  PROVE  FilesInv'
<1>1. /\ StoreInv' /\ StoreGrows /\ BlobsStored'
      /\ \A v : UploadOK(v) => UploadOK(v)'
      /\ \A v : WriteOK(v) => WriteOK(v)'
  BY StoreKeepsRows
<1>2. /\ DOMAIN uploads' = Uploaders /\ uploads'[u] = w
      /\ \A v \in Uploaders : v # u => uploads'[v] = uploads[v]
  BY DEF FilesInv
<1>3. ASSUME NEW v \in Uploaders  PROVE UploadOK(uploads[v])'
  <2>1. PICK x : x = uploads'[v]
    OBVIOUS
  <2>2. UploadOK(x)'
    BY <2>1, <1>1, <1>2 DEF FilesInv
  <2> QED
    BY <2>1, <2>2 DEF UploadOK, Waits, Inserts, Stored
<1>4. \A v \in written' : WriteOK(v)'
  BY <1>1 DEF FilesInv
<1>5. OwnCheckpoints'
  <2>1. ASSUME NEW v \in Uploaders, NEW c, Awaits(v, c)', v # u
        PROVE  Awaits(v, c) /\ c \in CheckpointIds
    <3>1. Awaits(v, c)
      BY <2>1, <1>2 DEF Awaits
    <3>2. UploadOK(uploads[v])
      BY DEF FilesInv
    <3> QED
      BY <3>1, <3>2 DEF UploadOK, Awaits, Idle, Waits, Inserts
  <2>2. ASSUME NEW c \in CheckpointIds  PROVE ~Awaits(u, c)'
    BY <1>2 DEF Awaits
  <2>3. \A v \in written : v.checkpoint \in CheckpointIds
    BY DEF FilesInv, WriteOK, Writes
  <2>4. ASSUME NEW v \in Uploaders, NEW x \in Uploaders, NEW c \in CheckpointIds',
               Awaits(v, c)', Awaits(x, c)'
        PROVE  v = x
    BY <2>1, <2>2, <2>4 DEF FilesInv, OwnCheckpoints
  <2>5. ASSUME NEW v \in Uploaders, NEW x \in written'  PROVE ~Awaits(v, x.checkpoint)'
    BY <2>1, <2>2, <2>3 DEF FilesInv, OwnCheckpoints
  <2> QED
    BY <2>4, <2>5 DEF OwnCheckpoints, Awaits
<1> QED
  BY <1>1, <1>2, <1>3, <1>4, <1>5 DEF FilesInv

-----------------------------------------------------------------------------
(* The steps of an upload.                                                 *)

LEMMA OtherUsesKeepFiles ==
  ASSUME FilesInv, UseStore
  PROVE  /\ [Next]_storeVars /\ NoNewBlobs /\ BlobsGrow
         /\ objects' = objects /\ uploads' = uploads /\ written' = written /\ ordered' = ordered
<1>1. /\ StoreInv /\ objects' = objects /\ uploads' = uploads /\ written' = written
      /\ ordered' = ordered
  BY DEF FilesInv, UseStore
<1>2. ASSUME create_run  PROVE [Next]_storeVars /\ NoNewBlobs
  BY <1>1, <1>2, CreateRunFiles
<1>3. ASSUME NEW b \in BranchIds, NEW files \in Rows(Paths),
             \A p \in Paths : files[p] \notin Blobs,
             create_checkpoint(b, NoRows(Keys), files, NULL)
      PROVE  [Next]_storeVars /\ NoNewBlobs
  BY <1>1, <1>3, CommitFiles
<1>4. ASSUME NEW b \in BranchIds, NEW target \in CheckpointIds, rewind(b, target)
      PROVE  [Next]_storeVars /\ NoNewBlobs
  BY <1>4, RewindFiles
<1>5. BlobsGrow
  BY <1>1 DEF BlobsGrow, Stored
<1> QED
  BY <1>1, <1>2, <1>3, <1>4, <1>5 DEF UseStore

LEMMA StoreStillFiles ==
  ASSUME FilesInv, [Next]_storeVars, NoNewBlobs, BlobsGrow,
         objects' = objects, uploads' = uploads, written' = written, ordered' = ordered
  PROVE  FilesInv'
<1>1. /\ StoreInv' /\ StoreGrows /\ BlobsStored'
      /\ \A v : UploadOK(v) => UploadOK(v)'
      /\ \A v : WriteOK(v) => WriteOK(v)'
  BY StoreKeepsRows
<1>2. ASSUME NEW v \in Uploaders  PROVE UploadOK(uploads[v])'
  <2>1. PICK x : x = uploads[v]
    OBVIOUS
  <2>2. UploadOK(x)'
    BY <2>1, <1>1 DEF FilesInv
  <2> QED
    BY <2>1, <2>2 DEF UploadOK, Waits, Inserts, Stored
<1>3. \A v \in written' : WriteOK(v)'
  BY <1>1 DEF FilesInv
<1>4. OwnCheckpoints'
  <2>1. ASSUME NEW v \in Uploaders, NEW c, Awaits(v, c)  PROVE c \in CheckpointIds
    <3>1. UploadOK(uploads[v])
      BY DEF FilesInv
    <3> QED
      BY <2>1, <3>1 DEF UploadOK, Awaits, Idle, Waits, Inserts
  <2> QED
    BY <2>1 DEF FilesInv, OwnCheckpoints, Awaits
<1> QED
  BY <1>1, <1>2, <1>3, <1>4 DEF FilesInv

LEMMA PutObjectFiles ==
  ASSUME FilesInv, NEW u \in Uploaders, NEW b \in BranchIds, NEW p \in Paths, NEW ref \in Blobs,
         NEW body \in Bodies, PutObject(u, b, p, ref, body)
  PROVE  FilesInv'
<1>1. PICK w : w = [pc |-> "commit", branch |-> b, path |-> p, ref |-> ref]
  OBVIOUS
<1>2. /\ objects' = [objects EXCEPT ![ref] = body] /\ uploads' = [uploads EXCEPT ![u] = w]
      /\ written' = written /\ ordered' = ordered /\ UNCHANGED storeVars
      /\ objects \in [Blobs -> Bodies \cup {NoObject}] /\ body # NoObject
  BY <1>1, NoObjectIsNoBody DEF PutObject, FilesInv
<1>3. objects' \in [Blobs -> Bodies \cup {NoObject}] /\ objects'[ref] # NoObject
  BY <1>2
<1>4. BlobsGrow
  BY <1>2 DEF BlobsGrow, Stored
<1>5. NoNewBlobs /\ [Next]_storeVars
  BY <1>2 DEF NoNewBlobs, CheckpointIds, storeVars
<1>6. UploadOK(w)'
  BY <1>1, <1>2, <1>3 DEF UploadOK, Waits, Stored, BranchIds, storeVars
<1>7. \A c \in CheckpointIds : ~(w.pc = "insert" /\ w.checkpoint = c)
  BY <1>1
<1> QED
  BY <1>2, <1>3, <1>4, <1>5, <1>6, <1>7, FilesInvNext

LEMMA CommitCheckpointFiles ==
  ASSUME FilesInv, NEW u \in Uploaders, CommitCheckpoint(u)
  PROVE  FilesInv' /\ [Next]_storeVars /\ BlobsGrow /\ objects' = objects
<1>1. PICK w : w = uploads[u]
  OBVIOUS
<1>2. w \in Waits /\ w.branch \in BranchIds /\ w.path \in Paths /\ w.ref \in Blobs
      /\ objects[w.ref] # NoObject
  <2>1. UploadOK(w) /\ w.pc = "commit"
    BY <1>1 DEF FilesInv, CommitCheckpoint
  <2>2. w \in Waits /\ Stored(w.ref)
    BY <2>1 DEF UploadOK, Idle, Inserts
  <2> QED
    BY <2>2 DEF Waits, Stored
<1>3. PICK n : n = Len(checkpoints) + 1
  OBVIOUS
<1>4. PICK files : files = [NoRows(Paths) EXCEPT ![w.path] = Tombstone]
  OBVIOUS
<1>5. PICK x : x = [pc |-> "insert", branch |-> w.branch, path |-> w.path, ref |-> w.ref,
                    checkpoint |-> n]
  OBVIOUS
<1>6. /\ create_checkpoint(w.branch, NoRows(Keys), files, NULL)
      /\ uploads' = [uploads EXCEPT ![u] = x] /\ objects' = objects /\ written' = written
      /\ ordered' = ordered
  BY <1>1, <1>3, <1>4, <1>5 DEF CommitCheckpoint
<1>7. files \in Rows(Paths) /\ files[w.path] = Tombstone /\ \A p \in Paths : files[p] \notin Blobs
  BY <1>2, <1>4, BlobsAreContents, DistinctMarkers DEF NoRows, Rows
<1>8. /\ [Next]_storeVars /\ NoNewBlobs
      /\ n \in CheckpointIds' /\ n \notin CheckpointIds /\ vfs_objects'[n] = files
  BY <1>2, <1>3, <1>6, <1>7, CommitFiles DEF FilesInv
<1>9. BlobsGrow
  BY <1>6 DEF BlobsGrow, Stored
<1>10. w.branch \in BranchIds'
  BY <1>2, <1>8, StoreStepGrows DEF FilesInv, StoreInv, StoreGrows
<1>11. UploadOK(x)'
  <2>1. x \in Inserts'
    BY <1>2, <1>5, <1>8, <1>10 DEF Inserts
  <2> QED
    BY <2>1, <1>2, <1>5, <1>6, <1>7, <1>8 DEF UploadOK, Stored
<1>12. \A c \in CheckpointIds : ~(x.pc = "insert" /\ x.checkpoint = c)
  BY <1>5, <1>8
<1>13. objects' \in [Blobs -> Bodies \cup {NoObject}]
  BY <1>6 DEF FilesInv
<1> QED
  BY <1>6, <1>8, <1>9, <1>11, <1>12, <1>13, FilesInvNext

LEMMA FailFiles ==
  ASSUME FilesInv, NEW u \in Uploaders, Fail(u)
  PROVE  FilesInv'
<1>1. /\ uploads' = [uploads EXCEPT ![u] = Idle] /\ objects' = objects /\ written' = written
      /\ ordered' = ordered /\ UNCHANGED storeVars
  BY DEF Fail
<1>2. NoNewBlobs /\ [Next]_storeVars /\ BlobsGrow
  BY <1>1 DEF NoNewBlobs, CheckpointIds, storeVars, BlobsGrow, Stored
<1>3. UploadOK(Idle)'
  BY DEF UploadOK, Idle
<1>4. \A c \in CheckpointIds : ~(Idle.pc = "insert" /\ Idle.checkpoint = c)
  BY DEF Idle
<1>5. objects' \in [Blobs -> Bodies \cup {NoObject}]
  BY <1>1 DEF FilesInv
<1> QED
  BY <1>1, <1>2, <1>3, <1>4, <1>5, FilesInvNext

-----------------------------------------------------------------------------
(* The late row of an upload.                                              *)

LEMMA SameTree ==
  ASSUME StoreInv, TypeOK',
         UNCHANGED <<runs, branches, checkpoints, state_kv, staged_effects>>
  PROVE  /\ StoreInv' /\ lineage' = lineage
         /\ CheckpointIds' = CheckpointIds /\ BranchIds' = BranchIds
<1>1. lineage' = lineage /\ CheckpointIds' = CheckpointIds /\ BranchIds' = BranchIds
  BY SameCheckpoints DEF BranchIds
<1>2. LineageIsChain' /\ NoLostCommit' /\ RunHasActiveBranch' /\ Tree'
  BY <1>1 DEF StoreInv, TreeInv, Tree, LineageIsChain, NoLostCommit, RunHasActiveBranch,
     RunOf, Active
<1>3. LineagesNest' /\ \A b \in BranchIds' : OwnLineage(b)'
  BY <1>1 DEF StoreInv, LineagesNest, OwnLineage
<1> QED
  BY <1>1, <1>2, <1>3 DEF StoreInv, TreeInv

LEMMA LateRow ==
  ASSUME StoreInv, NEW c \in CheckpointIds, NEW p \in Paths, NEW content \in Contents,
         vfs_objects' = [vfs_objects EXCEPT ![c][p] = content],
         UNCHANGED <<runs, branches, checkpoints, state_kv, staged_effects>>
  PROVE  /\ TypeOK' /\ vfs_objects'[c][p] = content
         /\ \A d \in CheckpointIds, q \in Paths :
               d # c \/ q # p => vfs_objects'[d][q] = vfs_objects[d][q]
<1>1. /\ vfs_objects \in Seq(Rows(Paths)) /\ Len(vfs_objects) = Len(checkpoints)
      /\ \A d \in CheckpointIds : vfs_objects[d] \in Rows(Paths)
  BY FileRows
<1>2. DOMAIN vfs_objects = CheckpointIds
  BY <1>1 DEF CheckpointIds
<1>3. PICK row : row = [vfs_objects[c] EXCEPT ![p] = content]
  OBVIOUS
<1>4. row \in Rows(Paths) /\ row[p] = content /\ \A q \in Paths : q # p => row[q] = vfs_objects[c][q]
  BY <1>1, <1>3 DEF Rows
<1>5. vfs_objects' = [vfs_objects EXCEPT ![c] = row]
  BY <1>3
<1>6. /\ vfs_objects' \in Seq(Rows(Paths)) /\ Len(vfs_objects') = Len(checkpoints)
      /\ vfs_objects'[c] = row
      /\ \A d \in CheckpointIds : d # c => vfs_objects'[d] = vfs_objects[d]
  <2>1. vfs_objects' \in Seq(Rows(Paths)) /\ Len(vfs_objects') = Len(vfs_objects)
    BY <1>1, <1>4, <1>5, ExceptSeq DEF CheckpointIds
  <2>2. /\ vfs_objects'[c] = row
        /\ \A d \in CheckpointIds : d # c => vfs_objects'[d] = vfs_objects[d]
    BY <1>2, <1>5
  <2> QED
    BY <1>1, <2>1, <2>2
<1>7. TypeOK'
  BY <1>6 DEF StoreInv, TreeInv, TypeOK, CheckpointIds, BranchIds, Effects
<1> QED
  BY <1>4, <1>6, <1>7


(* Whatever order the database keeps, the step changes one cell at most,   *)
(* at the upload's own checkpoint.                                         *)
ArrivesLate(u, w) ==
    /\ w = uploads[u] /\ w.pc = "insert" /\ Stored(w.ref)
    /\ vfs_objects[w.checkpoint][w.path] = Tombstone
    /\ vfs_objects'[w.checkpoint][w.path] \in {w.ref, Tombstone}
    /\ ordered => vfs_objects'[w.checkpoint][w.path] = w.ref
    /\ \A d \in CheckpointIds, q \in Paths :
          d # w.checkpoint \/ q # w.path => vfs_objects'[d][q] = vfs_objects[d][q]
    /\ written' = written \cup {[checkpoint |-> w.checkpoint, path |-> w.path, ref |-> w.ref]}
    /\ ordered' = ordered /\ uploads' = [uploads EXCEPT ![u] = Idle]

LEMMA InsertShape ==
  ASSUME FilesInv, NEW u \in Uploaders, InsertBlobRow(u)
  PROVE  /\ \E w \in Inserts : ArrivesLate(u, w)
         /\ StoreInv' /\ lineage' = lineage /\ checkpoints' = checkpoints
         /\ CheckpointIds' = CheckpointIds /\ BranchIds' = BranchIds /\ objects' = objects
<1>1. PICK w : w = uploads[u]
  OBVIOUS
<1>2. w \in Inserts /\ Stored(w.ref) /\ vfs_objects[w.checkpoint][w.path] = Tombstone
  <2>1. UploadOK(w) /\ w.pc = "insert"
    BY <1>1 DEF FilesInv, InsertBlobRow
  <2> QED
    BY <2>1 DEF UploadOK, Idle, Waits
<1>3. w.checkpoint \in CheckpointIds /\ w.path \in Paths /\ w.ref \in Contents /\ w.pc = "insert"
  BY <1>2, BlobsAreContents DEF Inserts
<1>4. /\ UNCHANGED <<runs, branches, checkpoints, state_kv, staged_effects>>
      /\ objects' = objects /\ ordered' = ordered /\ StoreInv /\ Return(u)
  BY DEF InsertBlobRow, FilesInv
<1>5. CASE vfs_objects' = [vfs_objects EXCEPT ![w.checkpoint][w.path] = w.ref]
  <2>1. /\ TypeOK' /\ vfs_objects'[w.checkpoint][w.path] = w.ref
        /\ \A d \in CheckpointIds, q \in Paths :
              d # w.checkpoint \/ q # w.path => vfs_objects'[d][q] = vfs_objects[d][q]
    <3>1. PICK c \in CheckpointIds, p \in Paths, content \in Contents :
             c = w.checkpoint /\ p = w.path /\ content = w.ref
      BY <1>3
    <3>2. vfs_objects' = [vfs_objects EXCEPT ![c][p] = content]
      BY <1>5, <3>1
    <3>3. /\ TypeOK' /\ vfs_objects'[c][p] = content
          /\ \A d \in CheckpointIds, q \in Paths :
                d # c \/ q # p => vfs_objects'[d][q] = vfs_objects[d][q]
      BY <1>4, <3>2, LateRow
    <3> QED
      BY <3>1, <3>3
  <2>2. ArrivesLate(u, w)
    BY <1>1, <1>2, <1>3, <1>4, <2>1 DEF ArrivesLate, Return
  <2> QED
    BY <1>2, <1>4, <2>1, <2>2, SameTree
<1>6. CASE ~ordered /\ UNCHANGED vfs_objects
  <2>1. TypeOK'
    BY <1>4, <1>6 DEF StoreInv, TreeInv, TypeOK, CheckpointIds, BranchIds, Effects
  <2>2. ArrivesLate(u, w)
    BY <1>1, <1>2, <1>3, <1>4, <1>6 DEF ArrivesLate, Return
  <2> QED
    BY <1>2, <1>4, <2>1, <2>2, SameTree
<1> QED
  BY <1>1, <1>5, <1>6 DEF InsertBlobRow

LEMMA InsertBlobRowFiles ==
  ASSUME FilesInv, NEW u \in Uploaders, InsertBlobRow(u)
  PROVE  FilesInv'
<1>1. PICK w \in Inserts : ArrivesLate(u, w)
  BY InsertShape
<1>2. /\ StoreInv' /\ CheckpointIds' = CheckpointIds /\ BranchIds' = BranchIds
      /\ objects' = objects
  BY InsertShape
<1>3. w.checkpoint \in CheckpointIds /\ w.path \in Paths /\ w.ref \in Blobs
  BY DEF Inserts
<1>4. PICK rec : rec = [checkpoint |-> w.checkpoint, path |-> w.path, ref |-> w.ref]
  OBVIOUS
<1>5. /\ w = uploads[u] /\ ordered' = ordered /\ w.pc = "insert" /\ Awaits(u, w.checkpoint)
      /\ written' = written \cup {rec} /\ uploads' = [uploads EXCEPT ![u] = Idle]
  BY <1>1, <1>4 DEF ArrivesLate, Awaits
<1>6. /\ DOMAIN uploads' = Uploaders /\ uploads'[u] = Idle
      /\ \A v \in Uploaders : v # u => uploads'[v] = uploads[v]
  BY <1>5 DEF FilesInv
<1>7. ASSUME NEW v \in Uploaders  PROVE UploadOK(uploads[v])'
  <2>1. CASE v = u
    BY <2>1, <1>6 DEF UploadOK
  <2>2. CASE v # u
    <3>1. PICK x : x = uploads[v] /\ x = uploads'[v]
      BY <1>6, <2>2
    <3>2. UploadOK(x)
      BY <3>1 DEF FilesInv
    <3>3. CASE x = Idle
      BY <3>1, <3>3 DEF UploadOK
    <3>4. CASE x \in Waits /\ Stored(x.ref)
      BY <3>1, <3>4, <1>2 DEF UploadOK, Waits, Stored
    <3>5. CASE /\ x \in Inserts /\ Stored(x.ref)
               /\ vfs_objects[x.checkpoint][x.path] = Tombstone
      <4>1. x.checkpoint \in CheckpointIds /\ x.path \in Paths /\ Awaits(v, x.checkpoint)
        BY <3>1, <3>5 DEF Inserts, Awaits
      <4>2. x.checkpoint # w.checkpoint
        BY <4>1, <1>5, <2>2 DEF FilesInv, OwnCheckpoints
      <4>3. vfs_objects'[x.checkpoint][x.path] = Tombstone
        BY <4>1, <4>2, <3>5, <1>1 DEF ArrivesLate
      <4> QED
        BY <4>3, <3>1, <3>5, <1>2 DEF UploadOK, Inserts, Stored
    <3> QED
      BY <3>2, <3>3, <3>4, <3>5 DEF UploadOK
  <2> QED
    BY <2>1, <2>2
<1>8. ASSUME NEW x \in written'  PROVE WriteOK(x)'
  <2>1. CASE x = rec
    BY <2>1, <1>1, <1>2, <1>3, <1>4 DEF WriteOK, Writes, ArrivesLate
  <2>2. CASE x \in written
    <3>1. WriteOK(x) /\ x.checkpoint \in CheckpointIds /\ x.path \in Paths
      BY <2>2 DEF FilesInv, WriteOK, Writes
    <3>2. x.checkpoint # w.checkpoint
      BY <2>2, <1>5 DEF FilesInv, OwnCheckpoints
    <3>3. vfs_objects'[x.checkpoint][x.path] = vfs_objects[x.checkpoint][x.path]
      BY <3>1, <3>2, <1>1 DEF ArrivesLate
    <3> QED
      BY <3>1, <3>3, <1>2, <1>5 DEF WriteOK, Writes
  <2> QED
    BY <1>5, <2>1, <2>2
<1>9. BlobsStored'
  <2>1. ASSUME NEW c \in CheckpointIds, NEW p \in Paths, vfs_objects'[c][p] \in Blobs
        PROVE  objects[vfs_objects'[c][p]] # NoObject
    <3>1. CASE c = w.checkpoint /\ p = w.path
      BY <2>1, <3>1, <1>1, BlobsAreContents, DistinctMarkers DEF ArrivesLate, Stored
    <3>2. CASE c # w.checkpoint \/ p # w.path
      BY <2>1, <3>2, <1>1 DEF ArrivesLate, FilesInv, BlobsStored, Stored
    <3> QED
      BY <3>1, <3>2
  <2> QED
    BY <2>1, <1>2 DEF BlobsStored, Stored
<1>10. OwnCheckpoints'
  <2>1. ASSUME NEW v \in Uploaders, NEW c, Awaits(v, c)'  PROVE v # u /\ Awaits(v, c)
    BY <2>1, <1>6 DEF Awaits, Idle
  <2>2. ASSUME NEW v \in Uploaders, NEW x \in written'  PROVE ~Awaits(v, x.checkpoint)'
    <3>1. CASE x = rec
      BY <3>1, <2>1, <1>3, <1>4, <1>5 DEF FilesInv, OwnCheckpoints
    <3>2. CASE x \in written
      BY <3>2, <2>1 DEF FilesInv, OwnCheckpoints
    <3> QED
      BY <1>5, <3>1, <3>2
  <2>3. ASSUME NEW v \in Uploaders, NEW x \in Uploaders, NEW c \in CheckpointIds,
               Awaits(v, c)', Awaits(x, c)'
        PROVE  v = x
    BY <2>1, <2>3 DEF FilesInv, OwnCheckpoints
  <2> QED
    BY <2>2, <2>3, <1>2 DEF OwnCheckpoints, Awaits
<1> QED
  BY <1>2, <1>5, <1>6, <1>7, <1>8, <1>9, <1>10 DEF FilesInv


-----------------------------------------------------------------------------
(* The inductive invariant.                                                *)

LEMMA FilesInitially == FilesInit => FilesInv
<1> SUFFICES ASSUME FilesInit  PROVE FilesInv
  OBVIOUS
<1>1. StoreInv /\ CheckpointIds = {}
  BY StoreInit, EmptySeq DEF FilesInit, Init, CheckpointIds
<1>2. \A u \in Uploaders : uploads[u] = Idle
  BY DEF FilesInit
<1>3. OwnCheckpoints
  BY <1>1 DEF OwnCheckpoints, FilesInit
<1> QED
  BY <1>1, <1>2, <1>3 DEF FilesInit, FilesInv, UploadOK, BlobsStored

(* All but the late row of an upload is a step of the store.               *)
LEMMA StoreStepOrLateRow ==
  ASSUME FilesInv, [FilesNext]_fileVars
  PROVE  [Next]_storeVars \/ \E u \in Uploaders : InsertBlobRow(u)
<1>1. CASE UseStore
  BY <1>1, OtherUsesKeepFiles
<1>2. ASSUME NEW u \in Uploaders, NEW b \in BranchIds, NEW p \in Paths, NEW ref \in Blobs,
             NEW body \in Bodies, PutObject(u, b, p, ref, body)
      PROVE  [Next]_storeVars
  BY <1>2 DEF PutObject
<1>3. ASSUME NEW u \in Uploaders, CommitCheckpoint(u)  PROVE [Next]_storeVars
  BY <1>3, CommitCheckpointFiles
<1>4. ASSUME NEW u \in Uploaders, Fail(u)  PROVE [Next]_storeVars
  BY <1>4 DEF Fail
<1>5. CASE UNCHANGED fileVars
  BY <1>5 DEF fileVars
<1> QED
  BY <1>1, <1>2, <1>3, <1>4, <1>5 DEF FilesNext

LEMMA FilesStep == FilesInv /\ [FilesNext]_fileVars => FilesInv'
<1> SUFFICES ASSUME FilesInv, [FilesNext]_fileVars  PROVE FilesInv'
  OBVIOUS
<1>1. CASE UseStore
  BY <1>1, OtherUsesKeepFiles, StoreStillFiles
<1>2. ASSUME NEW u \in Uploaders, NEW b \in BranchIds, NEW p \in Paths, NEW ref \in Blobs,
             NEW body \in Bodies, PutObject(u, b, p, ref, body)
      PROVE  FilesInv'
  BY <1>2, PutObjectFiles
<1>3. ASSUME NEW u \in Uploaders, CommitCheckpoint(u)  PROVE FilesInv'
  BY <1>3, CommitCheckpointFiles
<1>4. ASSUME NEW u \in Uploaders, InsertBlobRow(u)  PROVE FilesInv'
  BY <1>4, InsertBlobRowFiles
<1>5. ASSUME NEW u \in Uploaders, Fail(u)  PROVE FilesInv'
  BY <1>5, FailFiles
<1>6. CASE UNCHANGED fileVars
  <2>1. NoNewBlobs /\ [Next]_storeVars /\ BlobsGrow
    BY <1>6 DEF fileVars, storeVars, NoNewBlobs, CheckpointIds, BlobsGrow, Stored
  <2>2. objects' = objects /\ uploads' = uploads /\ written' = written /\ ordered' = ordered
    BY <1>6 DEF fileVars
  <2> QED
    BY <2>1, <2>2, StoreStillFiles
<1> QED
  BY <1>1, <1>2, <1>3, <1>4, <1>5, <1>6 DEF FilesNext

LEMMA FilesInvariant == FilesSpec => []FilesInv
  BY FilesInitially, FilesStep, PTL DEF FilesSpec

-----------------------------------------------------------------------------
(* The theorems.                                                           *)

(* Every upload is idle, or waits to commit or to insert the row of a      *)
(* checkpoint that exists: vfs.py's write_blob_s3 between its statements.  *)
THEOREM FilesTypeCorrectness == FilesSpec => []FilesTypeOK
<1>1. FilesInv => FilesTypeOK
  <2> SUFFICES ASSUME FilesInv  PROVE FilesTypeOK
    OBVIOUS
  <2>1. TypeOK
    BY DEF FilesInv, StoreInv, TreeInv
  <2>2. \A u \in Uploaders : uploads[u] = Idle \/ uploads[u] \in Waits \/ uploads[u] \in Inserts
    BY DEF FilesInv, UploadOK
  <2>3. written \subseteq Writes
    BY DEF FilesInv, WriteOK
  <2> QED
    BY <2>1, <2>2, <2>3 DEF FilesInv, FilesTypeOK, Waits, Inserts, Writes
<1> QED
  BY <1>1, FilesInvariant, PTL

(* An object is in S3 before any row can name it, and is never removed:    *)
(* no reader of any checkpoint follows a blob_ref to nothing, whatever     *)
(* uploads died half-way.                                                  *)
THEOREM BlobsNeverDangle == FilesSpec => []NoDanglingBlob
<1>1. ASSUME FilesInv, NEW c \in CheckpointIds, NEW p \in Paths  PROVE read(c, p) # NoObject
  <2>1. PICK content : content = resolve_files(c)[p]
    OBVIOUS
  <2>2. CASE content \in Blobs
    <3>1. content # Absent
      BY <2>2, BlobsAreContents, DistinctMarkers
    <3>2. PICK d \in CheckpointIds : content = vfs_objects[d][p]
      BY <1>1, <2>1, <3>1, ResolvedIsWritten DEF FilesInv
    <3>3. objects[content] # NoObject
      BY <1>1, <2>2, <3>2 DEF FilesInv, BlobsStored, Stored
    <3> QED
      BY <2>1, <2>2, <3>3 DEF read
  <2>3. CASE content \notin Blobs
    <3>1. content \in Contents \cup {Absent}
      BY <1>1, <2>1, ResolvedIsWritten DEF FilesInv
    <3> QED
      BY <2>1, <2>3, <3>1, NoObjectIsNoBody DEF read
  <2> QED
    BY <2>2, <2>3
<1>2. FilesInv => NoDanglingBlob
  BY <1>1 DEF NoDanglingBlob
<1> QED
  BY <1>2, FilesInvariant, PTL

(* The checkpoint of a blob write is its own: nobody else adds a row to    *)
(* it, so where rows come back in the order of insertion the blob stays    *)
(* what its path holds there, for good.                                    *)
THEOREM BlobWritesAreKept == FilesSpec => []BlobWritesStay
<1>1. ASSUME FilesInv, ordered, NEW w \in written
      PROVE  resolve_files(w.checkpoint)[w.path] = w.ref
  <2>1. WriteOK(w)
    BY <1>1 DEF FilesInv
  <2>2. /\ w.checkpoint \in CheckpointIds /\ w.path \in Paths /\ w.ref \in Blobs
        /\ vfs_objects[w.checkpoint][w.path] = w.ref
    BY <1>1, <2>1 DEF WriteOK, Writes
  <2>3. w.ref # Unwritten /\ w.ref # Tombstone
    BY <2>2, BlobsAreContents, DistinctMarkers
  <2>4. vfs_objects[w.checkpoint][w.path] # Unwritten /\ StoreInv
    BY <1>1, <2>2, <2>3 DEF FilesInv
  <2> QED
    BY <2>2, <2>3, <2>4, OwnRowDecides
<1>2. FilesInv => BlobWritesStay
  BY <1>1 DEF BlobWritesStay
<1> QED
  BY <1>2, FilesInvariant, PTL

(* What a checkpoint resolves to changes only where it resolved to no file *)
(* at all.                                                                 *)
LEMMA ResolvedStays ==
  ASSUME FilesInv, [FilesNext]_fileVars, NEW c \in CheckpointIds, NEW p \in Paths,
         resolve_files(c)[p] # Absent
  PROVE  resolve_files(c)'[p] = resolve_files(c)[p]
<1>1. StoreInv /\ TreeInv
  BY DEF FilesInv, StoreInv
<1>2. ASSUME [Next]_storeVars  PROVE Replay(vfs_objects, c, p)' = Replay(vfs_objects, c, p)
  BY <1>1, <1>2, ReplayStays, StoreStepGrows DEF StoreInv, StoreGrows
<1>3. ASSUME [Next]_storeVars  PROVE resolve_files(c)'[p] = resolve_files(c)[p]
  BY <1>2, <1>3 DEF resolve_files
<1>4. ASSUME NEW u \in Uploaders, InsertBlobRow(u)
      PROVE  resolve_files(c)'[p] = resolve_files(c)[p]
  <2>1. PICK w \in Inserts : ArrivesLate(u, w)
    BY <1>4, InsertShape
  <2>2. lineage' = lineage /\ checkpoints' = checkpoints
    BY <1>4, InsertShape
  <2>3. PICK L : L = lineage[c]
    OBVIOUS
  <2>4. PICK m : m = checkpoints[c].step
    OBVIOUS
  <2>5. m \in Nat /\ L \subseteq CheckpointIds /\ \A d \in L : checkpoints[d].step \in 0 .. m
    BY <1>1, <2>3, <2>4, StepsOfLineage
  <2>6. PICK t1, t2 : t1 = vfs_objects /\ t2 = vfs_objects'
    OBVIOUS
  <2>7. PICK n : n = w.checkpoint
    OBVIOUS
  <2>8. ReplayOn(L, t1, checkpoints, p) # Absent
    BY <2>3, <2>6, ResolvesTo
  <2>9. CASE p = w.path
    <3>1. \A d \in L : d # n => t2[d][p] = t1[d][p]
      BY <2>1, <2>5, <2>6, <2>7 DEF ArrivesLate
    <3>2. t1[n][p] = Tombstone /\ t2[n][p] # Unwritten
      <4>1. w.ref \in Contents
        BY BlobsAreContents DEF Inserts
      <4> QED
        BY <4>1, <2>1, <2>6, <2>7, <2>9, DistinctMarkers DEF ArrivesLate
    <3>3. ReplayOn(L, t2, checkpoints, p) = ReplayOn(L, t1, checkpoints, p)
      BY <2>5, <2>8, <3>1, <3>2, ReplayOnLateRow
    <3> QED
      BY <3>3, <2>2, <2>3, <2>6, ResolvesTo, ResolvesToPrime
  <2>10. CASE p # w.path
    <3>1. \A d \in L : t2[d][p] = t1[d][p]
      BY <2>1, <2>5, <2>6, <2>10 DEF ArrivesLate
    <3>2. ReplayOn(L, t2, checkpoints, p) = ReplayOn(L, t1, checkpoints, p)
      <4>1. PICK R : R = checkpoints
        OBVIOUS
      <4>2. \A d \in L : t2[d][p] = t1[d][p] /\ R[d] = R[d] /\ R[d].step \in 0 .. m
        BY <4>1, <2>5, <3>1
      <4>3. ReplayOn(L, t2, R, p) = ReplayOn(L, t1, R, p)
        BY <4>2, <2>5, ReplayOnSame, SMTT(60)
      <4> QED
        BY <4>1, <4>3
    <3> QED
      BY <3>2, <2>2, <2>3, <2>6, ResolvesTo, ResolvesToPrime
  <2> QED
    BY <2>9, <2>10
<1> QED
  BY <1>3, <1>4, StoreStepOrLateRow

(* Under a reader of a checkpoint inline contents never change, even while *)
(* the rows of blob writes arrive late.                                    *)
THEOREM InlineFilesAreImmutable == FilesSpec => InlineFilesNeverChange
<1>1. ASSUME FilesInv, [FilesNext]_fileVars, NEW c \in CheckpointIds, NEW p \in Paths,
             read(c, p)' # read(c, p)
      PROVE  resolve_files(c)[p] \in Blobs \cup {Absent}
  <2>1. SUFFICES ASSUME resolve_files(c)[p] \notin Blobs \cup {Absent}  PROVE FALSE
    OBVIOUS
  <2>2. resolve_files(c)'[p] = resolve_files(c)[p]
    BY <2>1, <1>1, ResolvedStays
  <2>3. read(c, p)' = resolve_files(c)'[p] /\ read(c, p) = resolve_files(c)[p]
    BY <2>1, <2>2 DEF read
  <2> QED
    BY <1>1, <2>2, <2>3
<1>2. FilesInv /\ [FilesNext]_fileVars =>
        [\A c \in CheckpointIds, p \in Paths :
            read(c, p)' # read(c, p) => resolve_files(c)[p] \in Blobs \cup {Absent}]_fileVars
  BY <1>1
<1> QED
  BY <1>2, FilesInvariant, PTL DEF FilesSpec, InlineFilesNeverChange

(* The late row of a blob write is no operation of the store, so FilesSpec *)
(* does not run the store's own specification; but the tree beneath stands *)
(* as it does there: chains, commits and active branches.                  *)
THEOREM LateRowsKeepTheTree ==
  FilesSpec => [](LineageIsChain /\ NoLostCommit /\ RunHasActiveBranch)
<1>1. FilesInv => LineageIsChain /\ NoLostCommit /\ RunHasActiveBranch
  BY DEF FilesInv, StoreInv, TreeInv
<1> QED
  BY <1>1, FilesInvariant, PTL
=============================================================================
