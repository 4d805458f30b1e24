------------------------------- MODULE Snapshot -------------------------------
(***************************************************************************)
(* Snapshots of the database (meilisearch-lib index_controller/snapshot.rs)*)
(* taken while document additions keep arriving, crashes, and the restore *)
(* on boot.                                                                *)
(*                                                                         *)
(* The database directory holds the task store (the payloads referenced by *)
(* unfinished tasks), the payload files of updates/updates_files/ and the  *)
(* index environments.  Two procedures copy it into a temporary directory  *)
(* and archive that into `<db_name>.snapshot`: SnapshotJob::run_sync, run  *)
(* by the single writer, copies the task store, then the payload files,    *)
(* then the indexes; SnapshotService::perform_snapshot copies the indexes, *)
(* returns early when there are none, then has the update store copy its  *)
(* state.  Both tar the directory into a NamedTempFile of the snapshot     *)
(* directory and persist (rename) it.  Meanwhile the HTTP handlers persist *)
(* payload files and register tasks; the scheduler finishes tasks and      *)
(* deletes their payloads when no snapshot is running.  load_snapshot      *)
(* decides on boot whether to extract the snapshot into the database path. *)
(***************************************************************************)
EXTENDS Naturals, Sequences, FiniteSets

CONSTANTS
    Payloads,       \* content uuids of payload files
    Indexes,        \* index uuids
    BootOptions,    \* the (ignore_snapshot_if_db_exists, ignore_missing_snapshot) pairs used
    MaxCrashes      \* bound on crashes

VARIABLES
    up,         \* the process is running
    db,         \* the database directory: [exists, complete, content]
    pending,    \* payload files persisted whose task is not registered yet
    used,       \* content uuids ever handed out
    job,        \* the running snapshot: [kind : {"none", "job", "service"}, step]
    tmp,        \* what the temporary directory holds
    tempFile,   \* the NamedTempFile in the snapshot directory
    snapshot,   \* the file `<db_name>.snapshot`: [exists, complete, content]
    restoring,  \* load_snapshot is extracting the snapshot
    crashes

vars == <<up, db, pending, used, job, tmp, tempFile, snapshot, restoring, crashes>>

Content == [refs : SUBSET Payloads, files : SUBSET Payloads, indexes : SUBSET Indexes]
Empty == [refs |-> {}, files |-> {}, indexes |-> {}]
NoJob == [kind |-> "none", step |-> 0]

TypeOK ==
    /\ up \in BOOLEAN /\ restoring \in BOOLEAN
    /\ db \in [exists : BOOLEAN, complete : BOOLEAN, content : Content]
    /\ pending \subseteq Payloads /\ used \subseteq Payloads
    /\ job \in [kind : {"none", "job", "service"}, step : 0..4]
    /\ tmp \in Content
    /\ tempFile \in {"none", "partial", "complete"}
    /\ snapshot \in [exists : BOOLEAN, complete : BOOLEAN, content : Content]
    /\ crashes \in 0..MaxCrashes

Init ==
    /\ up = TRUE
    /\ db = [exists |-> TRUE, complete |-> TRUE, content |-> Empty]
    /\ pending = {} /\ used = {}
    /\ job = NoJob /\ tmp = Empty /\ tempFile = "none"
    /\ snapshot = [exists |-> FALSE, complete |-> FALSE, content |-> Empty]
    /\ restoring = FALSE
    /\ crashes = 0

Live == db.content
SetLive(c) == db' = [db EXCEPT !.content = c]

-----------------------------------------------------------------------------
(* The rest of the system, as far as the database directory is concerned. *)

\* document_addition persists the payload file under a fresh uuid.
PersistPayload(p) ==
    /\ up /\ p \notin used
    /\ used' = used \cup {p}
    /\ pending' = pending \cup {p}
    /\ SetLive([Live EXCEPT !.files = @ \cup {p}])
    /\ UNCHANGED <<job, tmp, tempFile, snapshot, restoring, crashes, up>>

\* The task is registered, or registering fails and the file is deleted.
RegisterTask(p) ==
    /\ up /\ p \in pending
    /\ pending' = pending \ {p}
    /\ \/ SetLive([Live EXCEPT !.refs = @ \cup {p}])
       \/ SetLive([Live EXCEPT !.files = @ \ {p}])
    /\ UNCHANGED <<used, job, tmp, tempFile, snapshot, restoring, crashes, up>>

\* The single writer finishes a task and deletes its payload; it does not
\* run while a snapshot is being taken.
FinishTask(p) ==
    /\ up /\ job = NoJob /\ p \in Live.refs
    /\ SetLive([Live EXCEPT !.refs = @ \ {p}, !.files = @ \ {p}])
    /\ UNCHANGED <<pending, used, job, tmp, tempFile, snapshot, restoring, crashes, up>>

CreateIndex(i) ==
    /\ up /\ job = NoJob /\ i \notin Live.indexes
    /\ SetLive([Live EXCEPT !.indexes = @ \cup {i}])
    /\ UNCHANGED <<pending, used, job, tmp, tempFile, snapshot, restoring, crashes, up>>

-----------------------------------------------------------------------------
(* Taking a snapshot.                                                      *)

\* Mutation of JobSteps: the payload files are copied before the task store.
JobStepsFilesFirst == <<"files", "meta", "indexes">>

\* run_sync: snapshot_meta_env, snapshot_file_store, snapshot_indexes.
JobSteps == <<"meta", "files", "indexes">>

\* perform_snapshot: index_resolver.snapshot, then UpdateMsg::snapshot, which
\* copies the update store's tasks and payload files together.
ServiceSteps == <<"indexes", "updates">>

Steps(kind) == IF kind = "job" THEN JobSteps ELSE ServiceSteps

\* What one copy step takes from the live database into the temporary one.
Copy(what) ==
    tmp' = CASE what = "meta"    -> [tmp EXCEPT !.refs = Live.refs]
             [] what = "files"   -> [tmp EXCEPT !.files = Live.files]
             [] what = "indexes" -> [tmp EXCEPT !.indexes = Live.indexes]
             [] what = "updates" -> [tmp EXCEPT !.refs = Live.refs, !.files = Live.files]

\* The scheduler runs a SnapshotJob, or the timer of SnapshotService fires:
\* create_dir_all and tempdir.
StartSnapshot(kind) ==
    /\ up /\ job = NoJob
    /\ job' = [kind |-> kind, step |-> 1]
    /\ tmp' = Empty
    /\ UNCHANGED <<db, pending, used, tempFile, snapshot, restoring, crashes, up>>

\* perform_snapshot returns Ok(()) without a snapshot when there is no index.
NoIndexToSnapshot ==
    /\ up /\ job.kind = "service" /\ job.step = 2 /\ tmp.indexes = {}
    /\ job' = NoJob /\ tmp' = Empty
    /\ UNCHANGED <<db, pending, used, tempFile, snapshot, restoring, crashes, up>>

CopyStep ==
    /\ up /\ job # NoJob /\ job.step <= Len(Steps(job.kind))
    /\ ~(job.kind = "service" /\ job.step = 2 /\ tmp.indexes = {})
    /\ Copy(Steps(job.kind)[job.step])
    /\ job' = [job EXCEPT !.step = @ + 1]
    /\ UNCHANGED <<db, pending, used, tempFile, snapshot, restoring, crashes, up>>

\* Mutation of ArchiveStart: to_tar_gz writes the snapshot path directly.
ArchiveStartInPlace ==
    /\ up /\ job # NoJob /\ job.step = Len(Steps(job.kind)) + 1 /\ tempFile = "none"
    /\ snapshot' = [exists |-> TRUE, complete |-> FALSE, content |-> tmp]
    /\ tempFile' = "partial"
    /\ UNCHANGED <<db, pending, used, job, tmp, restoring, crashes, up>>

\* NamedTempFile::new_in(snapshot_dir), and to_tar_gz starts writing it.
ArchiveStart ==
    /\ up /\ job # NoJob /\ job.step = Len(Steps(job.kind)) + 1 /\ tempFile = "none"
    /\ tempFile' = "partial"
    /\ UNCHANGED <<db, pending, used, job, tmp, snapshot, restoring, crashes, up>>

ArchiveDone ==
    /\ up /\ job # NoJob /\ tempFile = "partial"
    /\ tempFile' = "complete"
    /\ UNCHANGED <<db, pending, used, job, tmp, snapshot, restoring, crashes, up>>

\* temp_snapshot_file.persist(&snapshot_path): an atomic rename.
PersistSnapshot ==
    /\ up /\ job # NoJob /\ tempFile = "complete"
    /\ snapshot' = [exists |-> TRUE, complete |-> TRUE, content |-> tmp]
    /\ tempFile' = "none" /\ job' = NoJob /\ tmp' = Empty
    /\ UNCHANGED <<db, pending, used, restoring, crashes, up>>

\* Any `?` of the procedure fails: the temporary directory and the
\* NamedTempFile are dropped, which deletes them; the error is returned (and
\* logged by SnapshotService::run).
SnapshotFails ==
    /\ up /\ job # NoJob
    /\ job' = NoJob /\ tmp' = Empty /\ tempFile' = "none"
    /\ UNCHANGED <<db, pending, used, snapshot, restoring, crashes, up>>

-----------------------------------------------------------------------------
(* Crashes, the operator, and load_snapshot on boot.                       *)

\* The process dies: a request between persist and register leaves its file
\* behind, a snapshot in progress leaves a stray temporary file (never named
\* `<db_name>.snapshot`), an extraction in progress leaves a partial database.
Crash ==
    /\ up \/ restoring
    /\ crashes < MaxCrashes
    /\ crashes' = crashes + 1
    /\ up' = FALSE /\ restoring' = FALSE
    /\ pending' = {} /\ job' = NoJob /\ tmp' = Empty /\ tempFile' = "none"
    /\ UNCHANGED <<db, used, snapshot>>

\* The operator deletes the database directory before importing a snapshot.
DeleteDb ==
    /\ ~up /\ ~restoring /\ db.exists
    /\ db' = [exists |-> FALSE, complete |-> FALSE, content |-> Empty]
    /\ UNCHANGED <<pending, used, job, tmp, tempFile, snapshot, restoring, crashes, up>>

\* Mutation of LoadSnapshot: an existing database is used whatever the flag.
LoadSnapshotAnyDb(opt) ==
    /\ ~up /\ ~restoring
    /\ \/ /\ ~db.exists /\ snapshot.exists
          /\ restoring' = TRUE
          /\ db' = [exists |-> TRUE, complete |-> FALSE, content |-> Empty]
          /\ UNCHANGED up
       \/ /\ db.exists \/ ~snapshot.exists
          /\ snapshot.exists \/ opt.ignoreMissing
          /\ up' = TRUE
          /\ db' = IF db.exists THEN db ELSE [exists |-> TRUE, complete |-> TRUE, content |-> Empty]
          /\ UNCHANGED restoring
    /\ UNCHANGED <<pending, used, job, tmp, tempFile, snapshot, crashes>>

(***************************************************************************)
(* load_snapshot, then the start of the process on the database.  A        *)
(* missing database with a snapshot is extracted; an existing database is  *)
(* used only with ignore_snapshot_if_db_exists; a missing snapshot only    *)
(* with ignore_missing_snapshot (a fresh database is then created).  The   *)
(* two `bail!`s stop the process: nothing changes.                          *)
(***************************************************************************)
LoadSnapshot(opt) ==
    /\ ~up /\ ~restoring
    /\ \/ /\ ~db.exists /\ snapshot.exists
          /\ restoring' = TRUE
          /\ db' = [exists |-> TRUE, complete |-> FALSE, content |-> Empty]
          /\ UNCHANGED up
       \/ /\ db.exists \/ ~snapshot.exists
          /\ ~db.exists \/ opt.ignoreDb
          /\ snapshot.exists \/ opt.ignoreMissing
          /\ up' = TRUE
          /\ db' = IF db.exists THEN db ELSE [exists |-> TRUE, complete |-> TRUE, content |-> Empty]
          /\ UNCHANGED restoring
    /\ UNCHANGED <<pending, used, job, tmp, tempFile, snapshot, crashes>>

\* from_tar_gz succeeds: the database is the snapshot's content.
ExtractDone ==
    /\ restoring /\ snapshot.complete
    /\ db' = [exists |-> TRUE, complete |-> TRUE, content |-> snapshot.content]
    /\ restoring' = FALSE /\ up' = TRUE
    /\ UNCHANGED <<pending, used, job, tmp, tempFile, snapshot, crashes>>

\* from_tar_gz fails: remove_dir_all cleans the database path, or fails too
\* and its error is returned instead, leaving the partial database.
ExtractFails ==
    /\ restoring
    /\ restoring' = FALSE
    /\ \/ db' = [exists |-> FALSE, complete |-> FALSE, content |-> Empty]
       \/ UNCHANGED db
    /\ UNCHANGED <<pending, used, job, tmp, tempFile, snapshot, crashes, up>>

Next ==
    \/ \E p \in Payloads : PersistPayload(p) \/ RegisterTask(p) \/ FinishTask(p)
    \/ \E i \in Indexes : CreateIndex(i)
    \/ \E kind \in {"job", "service"} : StartSnapshot(kind)
    \/ NoIndexToSnapshot \/ CopyStep \/ ArchiveStart \/ ArchiveDone
    \/ PersistSnapshot \/ SnapshotFails
    \/ Crash \/ DeleteDb \/ ExtractDone \/ ExtractFails
    \/ \E opt \in BootOptions : LoadSnapshot(opt)

Spec == Init /\ [][Next]_vars

-----------------------------------------------------------------------------
(***************************************************************************)
(* Crash safety of the snapshot file (spec 8): a file named               *)
(* `<db_name>.snapshot` is always a whole archive, whatever crash or error *)
(* interrupted the tar, because it only appears by the rename of persist.  *)
(***************************************************************************)
SnapshotFileComplete == snapshot.exists => snapshot.complete

(***************************************************************************)
(* A running database never holds a task whose payload file is missing:   *)
(* neither the live one, while files and tasks come and go, nor one        *)
(* restored from a snapshot taken while document additions kept arriving  *)
(* between the copy of the task store and the copy of the payload files.  *)
(***************************************************************************)
TasksHavePayloads == up => Live.refs \subseteq Live.files

(***************************************************************************)
(* The process only ever serves a whole database: never the partial one    *)
(* an interrupted from_tar_gz leaves in the database path.                 *)
(***************************************************************************)
StartsOnCompleteDb == up => db.complete

=============================================================================
