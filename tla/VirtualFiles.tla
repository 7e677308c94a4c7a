---------------------------- MODULE VirtualFiles ----------------------------
(***************************************************************************)
(* The virtual file system (src/src/rewind/vfs.py) over the store and S3.  *)
(*                                                                         *)
(* Ordinary writes and deletes are checkpoints of RewindStore.  A blob     *)
(* write is three steps of its caller: upload the object, commit a         *)
(* checkpoint whose row for the path is a tombstone, and add a second row  *)
(* for the path that points to the object.  Between any two of them        *)
(* others commit, rewind and upload, and the caller may die.               *)
(***************************************************************************)
EXTENDS RewindStore

CONSTANTS
    Blobs,          \* blob_refs, the names of S3 objects: a kind of content
    Bodies,         \* what an S3 object can hold
    NoObject,       \* nothing is stored under a name
    Uploaders       \* callers of write_blob_s3

ASSUME BlobsAreContents == Blobs \subseteq Contents
ASSUME NoObjectIsNoBody == NoObject \notin Bodies \cup Contents \cup {Absent}

VARIABLES
    objects,        \* objects[r]: the body stored in S3 under blob_ref r
    uploads,        \* uploads[u]: the blob write u is in the middle of
    written,        \* blob writes that returned
    ordered         \* the database returns the rows of one checkpoint in
                    \* the order of insertion: SQLite, not CockroachDB

fileVars == <<storeVars, objects, uploads, written, ordered>>

Idle == [pc |-> "idle"]

FilesTypeOK ==
    /\ TypeOK
    /\ objects \in [Blobs -> Bodies \cup {NoObject}]
    /\ DOMAIN uploads = Uploaders
    /\ \A u \in Uploaders :
          \/ uploads[u] = Idle
          \/ uploads[u] \in [pc : {"commit"}, branch : BranchIds, path : Paths, ref : Blobs]
          \/ uploads[u] \in [pc : {"insert"}, branch : BranchIds, path : Paths, ref : Blobs,
                             checkpoint : CheckpointIds]
    /\ written \subseteq [checkpoint : CheckpointIds, path : Paths, ref : Blobs]
    /\ ordered \in BOOLEAN

(* read: what a path holds at a checkpoint, fetched from S3 for a blob.    *)
read(c, p) ==
    LET content == resolve_files(c)[p]
    IN  IF content \in Blobs THEN objects[content] ELSE content

-----------------------------------------------------------------------------
(* Mutant: an upload that failed is taken for one that succeeded.          *)
PutObject_ErrorSwallowed(u, b, p, ref, body) ==
    /\ uploads[u] = Idle
    /\ uploads' = [uploads EXCEPT ![u] = [pc |-> "commit", branch |-> b, path |-> p, ref |-> ref]]
    /\ UNCHANGED <<storeVars, objects, written, ordered>>

(* put_object overwrites whatever the key held.                            *)
PutObject(u, b, p, ref, body) ==
    /\ uploads[u] = Idle
    /\ objects' = [objects EXCEPT ![ref] = body]
    /\ uploads' = [uploads EXCEPT ![u] = [pc |-> "commit", branch |-> b, path |-> p, ref |-> ref]]
    /\ UNCHANGED <<storeVars, written, ordered>>

(* The checkpoint of the blob write, committed with files = {path: None}.  *)
CommitCheckpoint(u) ==
    LET w == uploads[u]
    IN  /\ w.pc = "commit"
        /\ create_checkpoint(w.branch, NoRows(Keys),
                             [NoRows(Paths) EXCEPT ![w.path] = Tombstone], NULL)
        /\ uploads' = [uploads EXCEPT ![u] =
               [pc |-> "insert", branch |-> w.branch, path |-> w.path, ref |-> w.ref,
                checkpoint |-> Len(checkpoints) + 1]]
        /\ UNCHANGED <<objects, written, ordered>>

Return(u) ==
    LET w == uploads[u]
    IN  /\ written' = written \cup {[checkpoint |-> w.checkpoint, path |-> w.path, ref |-> w.ref]}
        /\ uploads' = [uploads EXCEPT ![u] = Idle]

(* Mutant: the row goes to the head the branch has by now.                 *)
InsertBlobRow_AtHead(u) ==
    LET w == uploads[u]
    IN  /\ w.pc = "insert"
        /\ vfs_objects' = [vfs_objects EXCEPT ![branches[w.branch].head][w.path] = w.ref]
        /\ Return(u)
        /\ UNCHANGED <<runs, branches, checkpoints, state_kv, staged_effects, objects, ordered>>

(* The second row for the path at that checkpoint.  The reader's query has *)
(* no ORDER BY and the row it returns last decides.  SQLite returns the    *)
(* blob last; CockroachDB orders the two by a random id, and the tombstone *)
(* may hide the blob for good.                                             *)
InsertBlobRow(u) ==
    LET w == uploads[u]
    IN  /\ w.pc = "insert"
        /\ \/ vfs_objects' = [vfs_objects EXCEPT ![w.checkpoint][w.path] = w.ref]
           \/ ~ordered /\ UNCHANGED vfs_objects
        /\ Return(u)
        /\ UNCHANGED <<runs, branches, checkpoints, state_kv, staged_effects, objects, ordered>>

(* The caller dies, or S3 or the database raises: what is done stays done. *)
Fail(u) ==
    /\ uploads[u] # Idle
    /\ uploads' = [uploads EXCEPT ![u] = Idle]
    /\ UNCHANGED <<storeVars, objects, written, ordered>>

(* Everything else the store is used for: write and delete are checkpoints *)
(* with inline contents.                                                   *)
UseStore ==
    /\ \/ create_run
       \/ \E b \in BranchIds, files \in Rows(Paths) :
             /\ \A p \in Paths : files[p] \notin Blobs
             /\ create_checkpoint(b, NoRows(Keys), files, NULL)
       \/ \E b \in BranchIds, target \in CheckpointIds : rewind(b, target)
    /\ UNCHANGED <<objects, uploads, written, ordered>>

FilesInit ==
    /\ Init
    /\ objects = [r \in Blobs |-> NoObject]
    /\ uploads = [u \in Uploaders |-> Idle]
    /\ written = {}
    /\ ordered \in BOOLEAN

FilesNext ==
    \/ UseStore
    \/ \E u \in Uploaders :
          \/ \E b \in BranchIds, p \in Paths, ref \in Blobs, body \in Bodies :
                PutObject(u, b, p, ref, body)
          \/ CommitCheckpoint(u)
          \/ InsertBlobRow(u)
          \/ Fail(u)

FilesSpec == FilesInit /\ [][FilesNext]_fileVars

-----------------------------------------------------------------------------
(* Properties.                                                             *)

(* No reader follows a blob_ref to an object that is not there, whatever   *)
(* uploads failed half-way and whatever branches share the object.         *)
NoDanglingBlob ==
    \A c \in CheckpointIds, p \in Paths : read(c, p) # NoObject

(* A blob write disturbs no other write.  Under a reader of a checkpoint   *)
(* that exists, inline contents never change: only a path that was deleted *)
(* there can appear, when a late row arrives, or an object be overwritten. *)
InlineFilesNeverChange ==
    [][\A c \in CheckpointIds, p \in Paths :
          read(c, p)' # read(c, p) =>
              resolve_files(c)[p] \in Blobs \cup {Absent}]_fileVars

(* Where the database keeps the order of the two rows, a blob write that   *)
(* returned is what its path holds at its checkpoint, whoever commits,     *)
(* rewinds or uploads before the row arrives or after.                     *)
BlobWritesStay ==
    ordered => \A w \in written : resolve_files(w.checkpoint)[w.path] = w.ref
=============================================================================
