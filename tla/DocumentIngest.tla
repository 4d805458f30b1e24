---------------------------- MODULE DocumentIngest ----------------------------
(***************************************************************************)
(* The document routes of meilisearch/src/routes/indexes/documents.rs that *)
(* enqueue tasks, composed with the task queue and the payload-file store  *)
(* they share, and with process crashes.                                   *)
(*                                                                         *)
(* A document addition (replace_documents / update_documents, both calling *)
(* document_addition) checks the content type, reserves an update file     *)
(* (none in dry-run mode), copies the body into a temp file, parses it     *)
(* into the update file and persists it under its uuid in a blocking task, *)
(* then registers the task in another blocking task.  A deletion route     *)
(* (delete_document, delete_documents_batch, delete_documents_by_filter,   *)
(* clear_all_documents) validates its input and registers a task.          *)
(*                                                                         *)
(* The scheduler is modelled from the spec (4.F, 4.G): it processes tasks  *)
(* from the lowest id, commits the result, then deletes the payload file   *)
(* of a finished addition.  A crash loses every request in flight and the  *)
(* processing state; persisted files and committed tasks survive.         *)
(***************************************************************************)
EXTENDS Naturals, Sequences, FiniteSets

CONSTANTS
    Requests,         \* HTTP requests; a request's update-file uuid is its name
    RegisterFailures, \* failures of register: "error", "panic_before_commit",
                      \* "panic_after_commit" (the closure panics: JoinError)
    MaxCrashes,       \* bound on process crashes
    DeleteErrors      \* delete_update_file may fail with an I/O error
                      \* other than NotFound (permissions, a failing disk)

ASSUME RegisterFailures \subseteq {"error", "panic_before_commit", "panic_after_commit"}
ASSUME MaxCrashes \in Nat
ASSUME DeleteErrors \in BOOLEAN

VARIABLES
    pc,        \* the step each request handler is at
    kind,      \* "addition" | "deletion"
    dryRun,    \* is_dry_run(&req, &opt)
    result,    \* what the handler answered
    tmpFiles,  \* reserved, not yet persisted update files (NamedTempFile)
    files,     \* persisted update files: updates/updates_files/<uuid>
    tasks,     \* the task store: Seq of tasks, the id of a task is its index
    up,        \* the process is running
    crashes    \* number of crashes so far

vars == <<pc, kind, dryRun, result, tmpFiles, files, tasks, up, crashes>>

PC == {"idle", "receiving", "parsing", "registering", "done"}
Result == {"none", "accepted", "rejected", "payload_error", "parse_error",
           "register_error", "file_error", "join_error", "lost"}
Status == {"enqueued", "processing", "succeeded", "failed"}
Task == [content : Requests \cup {"none"}, status : Status, cleaned : BOOLEAN]

TypeOK ==
    /\ pc \in [Requests -> PC]
    /\ kind \in [Requests -> {"addition", "deletion"}]
    /\ dryRun \in [Requests -> BOOLEAN]
    /\ result \in [Requests -> Result]
    /\ tmpFiles \subseteq Requests
    /\ files \subseteq Requests
    /\ tasks \in Seq(Task)
    /\ up \in BOOLEAN
    /\ crashes \in 0..MaxCrashes

Finished == {"succeeded", "failed"}

Init ==
    /\ pc = [r \in Requests |-> "idle"]
    /\ kind \in [Requests -> {"addition", "deletion"}]
    /\ dryRun \in [Requests -> BOOLEAN]
    /\ result = [r \in Requests |-> "none"]
    /\ tmpFiles = {}
    /\ files = {}
    /\ tasks = <<>>
    /\ up = TRUE
    /\ crashes = 0

Return(r, res) ==
    /\ pc' = [pc EXCEPT ![r] = "done"]
    /\ result' = [result EXCEPT ![r] = res]

(***************************************************************************)
(* Handlers                                                                *)
(***************************************************************************)

\* document_addition up to create_update_file: a content type that is
\* missing, unknown, or not csv with a csv delimiter is rejected; otherwise
\* an update file is reserved (none in dry-run mode).
StartAddition(r) ==
    /\ up
    /\ pc[r] = "idle"
    /\ kind[r] = "addition"
    /\ \/ Return(r, "rejected") /\ UNCHANGED tmpFiles
       \/ /\ pc' = [pc EXCEPT ![r] = "receiving"]
          /\ tmpFiles' = IF dryRun[r] THEN tmpFiles ELSE tmpFiles \cup {r}
          /\ UNCHANGED result
    /\ UNCHANGED <<kind, dryRun, files, tasks, up, crashes>>

\* A deletion route validates its input (an index uid, a filter that must
\* parse and not be empty) and goes on to register its task.
StartDeletion(r) ==
    /\ up
    /\ pc[r] = "idle"
    /\ kind[r] = "deletion"
    /\ \/ Return(r, "rejected")
       \/ pc' = [pc EXCEPT ![r] = "registering"] /\ UNCHANGED result
    /\ UNCHANGED <<kind, dryRun, tmpFiles, files, tasks, up, crashes>>

\* The body is copied into a temp file.  An empty first chunk or no chunk
\* at all is MissingPayload, a failed write, flush or seek is a payload
\* error; the reserved update file is dropped unpersisted.
Receive(r) ==
    /\ up
    /\ pc[r] = "receiving"
    /\ \/ pc' = [pc EXCEPT ![r] = "parsing"] /\ UNCHANGED <<result, tmpFiles>>
       \/ Return(r, "payload_error") /\ tmpFiles' = tmpFiles \ {r}
    /\ UNCHANGED <<kind, dryRun, files, tasks, up, crashes>>

\* Mutation of Parse: the update file is never persisted.
ParseWithoutPersist(r) ==
    /\ up
    /\ pc[r] = "parsing"
    /\ pc' = [pc EXCEPT ![r] = "registering"]
    /\ tmpFiles' = tmpFiles \ {r}
    /\ UNCHANGED <<result, files, kind, dryRun, tasks, up, crashes>>

\* The blocking task parses the payload into the update file and persists
\* it (nothing is written in dry-run mode).  A parse error drops the
\* unpersisted file.  A panic (JoinError) may come before or after the
\* persist: the handler then deletes the file, ignores NotFound, and only
\* logs any other error of the deletion, which leaves a persisted file on
\* disk.  Either error is returned.
Parse(r) ==
    /\ up
    /\ pc[r] = "parsing"
    /\ tmpFiles' = tmpFiles \ {r}
    /\ \/ /\ pc' = [pc EXCEPT ![r] = "registering"]
          /\ files' = IF dryRun[r] THEN files ELSE files \cup {r}
          /\ UNCHANGED result
       \/ Return(r, "parse_error") /\ UNCHANGED files
       \/ Return(r, "join_error") /\ UNCHANGED files
       \/ /\ DeleteErrors /\ ~dryRun[r]
          /\ Return(r, "join_error") /\ files' = files \cup {r}
    /\ UNCHANGED <<kind, dryRun, tasks, up, crashes>>

NewTask(r) ==
    [content |-> IF kind[r] = "addition" THEN r ELSE "none",
     status |-> "enqueued",
     cleaned |-> kind[r] = "deletion"]

\* register() commits the task in one write transaction; in dry-run mode it
\* writes nothing.
Commit(r) == tasks' = IF dryRun[r] THEN tasks ELSE Append(tasks, NewTask(r))

\* The blocking register.  On an error an addition deletes its update file
\* with `?`: when the deletion fails (NotFound in dry-run mode, where no
\* file was written, or another I/O error) its error is what the handler
\* returns and the file stays.  A panic is a JoinError returned by
\* `.await?` before any cleanup.
Register(r) ==
    /\ up
    /\ pc[r] = "registering"
    /\ \/ Commit(r) /\ Return(r, "accepted") /\ UNCHANGED files
       \/ /\ "error" \in RegisterFailures
          /\ UNCHANGED tasks
          /\ \/ kind[r] = "deletion" /\ Return(r, "register_error") /\ UNCHANGED files
             \/ /\ kind[r] = "addition" /\ r \in files
                /\ Return(r, "register_error") /\ files' = files \ {r}
             \/ /\ kind[r] = "addition" /\ (r \notin files \/ DeleteErrors)
                /\ Return(r, "file_error") /\ UNCHANGED files
       \/ /\ "panic_before_commit" \in RegisterFailures
          /\ Return(r, "join_error") /\ UNCHANGED <<tasks, files>>
       \/ /\ "panic_after_commit" \in RegisterFailures
          /\ Commit(r) /\ Return(r, "join_error") /\ UNCHANGED files
    /\ UNCHANGED <<kind, dryRun, tmpFiles, up, crashes>>

(***************************************************************************)
(* Scheduler (spec 4.F, 4.G)                                               *)
(***************************************************************************)

Processing == {i \in DOMAIN tasks : tasks[i].status = "processing"}
Enqueued == {i \in DOMAIN tasks : tasks[i].status = "enqueued"}

\* The single writer takes the lowest enqueued task when idle.
StartProcessing ==
    /\ up
    /\ Processing = {}
    /\ Enqueued # {}
    /\ LET i == CHOOSE j \in Enqueued : \A l \in Enqueued : j <= l
       IN tasks' = [tasks EXCEPT ![i].status = "processing"]
    /\ UNCHANGED <<pc, kind, dryRun, result, tmpFiles, files, up, crashes>>

\* The batch commits: the task succeeds or fails; an addition whose payload
\* file is missing can only fail.
FinishProcessing(i) ==
    /\ up
    /\ i \in Processing
    /\ \E s \in Finished :
          /\ s = "succeeded" => tasks[i].content \in files \cup {"none"}
          /\ tasks' = [tasks EXCEPT ![i].status = s]
    /\ UNCHANGED <<pc, kind, dryRun, result, tmpFiles, files, up, crashes>>

\* After the commit, the payload file of a finished addition is deleted.
DeleteContent(i) ==
    /\ up
    /\ i \in DOMAIN tasks
    /\ tasks[i].status \in Finished
    /\ ~tasks[i].cleaned
    /\ files' = files \ {tasks[i].content}
    /\ tasks' = [tasks EXCEPT ![i].cleaned = TRUE]
    /\ UNCHANGED <<pc, kind, dryRun, result, tmpFiles, up, crashes>>

(***************************************************************************)
(* Crash and restart                                                       *)
(***************************************************************************)

\* Requests in flight are lost, an uncommitted batch is aborted (its tasks
\* are enqueued again), unpersisted temp files are not update files.
Crash ==
    /\ up
    /\ crashes < MaxCrashes
    /\ up' = FALSE
    /\ crashes' = crashes + 1
    /\ pc' = [r \in Requests |-> IF pc[r] \in {"idle", "done"} THEN pc[r] ELSE "done"]
    /\ result' = [r \in Requests |->
                    IF pc[r] \in {"idle", "done"} THEN result[r] ELSE "lost"]
    /\ tasks' = [i \in DOMAIN tasks |->
                   IF tasks[i].status = "processing"
                     THEN [tasks[i] EXCEPT !.status = "enqueued"] ELSE tasks[i]]
    /\ tmpFiles' = {}
    /\ UNCHANGED <<kind, dryRun, files>>

Restart ==
    /\ ~up
    /\ up' = TRUE
    /\ UNCHANGED <<pc, kind, dryRun, result, tmpFiles, files, tasks, crashes>>

Next ==
    \/ \E r \in Requests : StartAddition(r) \/ StartDeletion(r) \/ Receive(r) \/ Parse(r) \/ Register(r)
    \/ StartProcessing
    \/ \E i \in DOMAIN tasks : FinishProcessing(i) \/ DeleteContent(i)
    \/ Crash
    \/ Restart

Spec == Init /\ [][Next]_vars

-----------------------------------------------------------------------------
(***************************************************************************)
(* No dangling payload: a document addition that is enqueued or being      *)
(* processed always finds its update file on disk, across crashes.  This   *)
(* relies on document_addition persisting the file (line 454) before it    *)
(* registers the task (line 492), and on the scheduler deleting it only    *)
(* after the task is finished.                                             *)
(***************************************************************************)
NoDanglingContent ==
    \A i \in DOMAIN tasks :
        tasks[i].status \in {"enqueued", "processing"} /\ tasks[i].content # "none"
            => tasks[i].content \in files

(***************************************************************************)
(* No orphan payload: every persisted update file belongs to a handler     *)
(* that is about to register it, to a task whose file has not yet been     *)
(* cleaned up, or to a handler a crash interrupted (whose answer was lost  *)
(* between the persist at line 454 and the register at 492, a file nothing *)
(* sweeps); every error path of document_addition after the persist is    *)
(* meant to delete the file (lines 459-500, spec 3: a payload file lives   *)
(* only as long as its task).                                              *)
(***************************************************************************)
Owned(f) ==
    \/ pc[f] = "registering"
    \/ \E i \in DOMAIN tasks : tasks[i].content = f /\ ~tasks[i].cleaned
    \/ result[f] = "lost"

NoOrphanPayload == \A f \in files : Owned(f)

(***************************************************************************)
(* A failed register is answered with its own error: when register()      *)
(* fails, the client is told why, as the handler intends for the parse    *)
(* path ("We still want to return the original error to the end user",    *)
(* line 473), not the error of the cleanup delete_update_file at line 497. *)
(***************************************************************************)
RegisterErrorAnswered == \A r \in Requests : result[r] # "file_error"

=============================================================================
