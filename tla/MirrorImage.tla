----------------------------- MODULE MirrorImage -----------------------------
(***************************************************************************)
(* A task that fetches a system image from the public mirror or brings one *)
(* there (src/image/script/mirror_image_task.py and its interface,         *)
(* src/api/views/mirror_image_task_view.py).                               *)
(*                                                                         *)
(* A request to start a task starts a script, a process of its own on the  *)
(* node that serves the request.  The script loads the row of the task     *)
(* once, works on a file of its node, the mirror and ceph, and saves what  *)
(* came of each step.  It never reads the row again: the tests for a task  *)
(* that was stopped look at its own copy, which no longer says so.         *)
(***************************************************************************)
EXTENDS Integers

CONSTANTS
    Scripts,      \* processes
    Nodes,        \* the nodes that serve requests
    RemoteSizes,  \* the sizes of the object on the mirror, see remote_size
    ReadChunk,    \* read_chunk_size, in the same unit
    MirrorWorks,  \* what a behaviour is made of, see MirrorWork
    NoNode

MirrorOps == {"pull", "push", "start", "stop", "force_start", "delete"}

MirrorCalls == {"space", "ceph", "delete_local", "download", "import", "create_os",
                "export", "read_local", "upload", "crash"}

\* The requests, the calls that may fail, and whether a script is started while
\* another is at work.
MirrorWork == [ops : SUBSET MirrorOps, failing : SUBSET MirrorCalls, meet : BOOLEAN]

ASSUME MirrorAssumption ==
    /\ RemoteSizes \subseteq Nat \ {0}
    /\ ReadChunk \in Nat \ {0}
    /\ MirrorWorks \subseteq MirrorWork
    /\ NoNode \notin Nodes

VARIABLES
    mirrorwork,   \* of MirrorWorks
    remote_size,  \* the size of the whole image, of RemoteSizes
    task,         \* the row of the task
    script,       \* the processes
    local_file,   \* the file of the image, by node
    remote,       \* how much of the object the mirror has
    base_image,   \* the rbd image
    os_image,     \* whether there is an Image row
    died          \* a process was killed

mirrorVars == <<mirrorwork, remote_size, task, script, local_file, remote, base_image, os_image, died>>

\* MirrorImageTask.
OPERATE_PULL == 1
OPERATE_PUSH == 2
DOWNLOADING == 1
DOWNLOADCOMPLATE == 2
UPLOADING == 3
UPLOADCOMPLATE == 4
UPLOADFAILURE == 5
DOWNLOADFAILURE == 6
NONESTATUS == 7

\* import_date is set where download_or_upload_status is.
TaskRow == [live : BOOLEAN, operate : {OPERATE_PULL, OPERATE_PUSH}, status : 1 .. 7,
            local_hostname : Nodes \cup {NoNode}, download_or_upload_status : BOOLEAN,
            import_date_complate : BOOLEAN, create_os_image : BOOLEAN]

NoTask == [live |-> FALSE, operate |-> OPERATE_PULL, status |-> NONESTATUS,
           local_hostname |-> NoNode, download_or_upload_status |-> FALSE,
           import_date_complate |-> FALSE, create_os_image |-> FALSE]

\* A file has n units, at most twice as many as the image: the first n of it,
\* which is good, or they are mixed, or have lost the head the format needs.
LocalFile == [n : Nat, is : {"good", "mixed", "headless"}]

NoFile == [n |-> 0, is |-> "good"]

Whole(file) == file = [n |-> remote_size, is |-> "good"]

ScriptPcs == {"idle", "load", "begin", "exists", "del_local", "download", "mark_downloaded",
              "import", "importing", "mark_imported", "create_os", "mark_created", "clean",
              "recreate_os", "del_push", "export", "upload", "mark_uploaded"}

ScriptState == [pc : ScriptPcs, op : {"pull", "push", "none"}, node : Nodes \cup {NoNode},
                row : TaskRow, offset : Nat, chunk : Nat,
                opened : LocalFile]   \* the file an import reads

NoScript == [pc |-> "idle", op |-> "none", node |-> NoNode, row |-> NoTask, offset |-> 0, chunk |-> 0,
             opened |-> NoFile]

MirrorTypeOK ==
    /\ mirrorwork \in MirrorWorks
    /\ remote_size \in RemoteSizes
    /\ task \in TaskRow
    /\ script \in [Scripts -> ScriptState]
    /\ local_file \in [Nodes -> LocalFile]
    /\ remote \in 0 .. remote_size
    /\ base_image \in {"none", "partial", "whole", "broken"}
    /\ os_image \in BOOLEAN
    /\ died \in BOOLEAN

MirrorInit ==
    /\ mirrorwork \in MirrorWorks
    /\ remote_size \in RemoteSizes
    /\ task = NoTask
    /\ script = [s \in Scripts |-> NoScript]
    /\ local_file = [n \in Nodes |-> NoFile]
    /\ remote = 0
    /\ base_image = "none"
    /\ os_image = FALSE
    /\ died = FALSE

-----------------------------------------------------------------------------
(* The interface: add a task, start, stop, force_start, delete.            *)

OnlyTask == UNCHANGED <<remote_size, script, local_file, remote, base_image, os_image, died>>

\* A task is made while no script of the one before is at work.
NewTask(n, operate) ==
    /\ ~task.live /\ \A s \in Scripts : script[s].pc = "idle"
    /\ task' = [NoTask EXCEPT !.live = TRUE, !.operate = operate, !.local_hostname = n]
    /\ UNCHANGED <<remote_size, script, local_file, os_image, died>>

\* A task to pull is of an image that the mirror has.
AddPull(n) ==
    /\ "pull" \in mirrorwork.ops /\ NewTask(n, OPERATE_PULL)
    /\ remote' = remote_size /\ UNCHANGED base_image

\* A task to push is of an image of this service.
AddPush(n) ==
    /\ "push" \in mirrorwork.ops /\ NewTask(n, OPERATE_PUSH)
    /\ base_image \in {"none", "whole"}
    /\ base_image' = "whole" /\ remote' = 0

\* execute_task: Popen, which waits for nothing and asks for no other script.
execute_task(n, operate_type) ==
    /\ mirrorwork.meet \/ \A x \in Scripts : script[x].pc = "idle"
    /\ \E s \in Scripts :
          /\ script[s].pc = "idle"
          /\ script' = [script EXCEPT ![s] = [NoScript EXCEPT !.pc = "load", !.op = operate_type,
                                                             !.node = n]]
    /\ UNCHANGED <<remote_size, task, local_file, remote, base_image, os_image, died>>

\* What `start` takes for the type of the task: its status, and where that says
\* nothing, its operate; nothing for one at work.
StartedAs ==
    CASE task.status \in {UPLOADFAILURE, UPLOADCOMPLATE} -> {"push"}
      [] task.status \in {DOWNLOADFAILURE, DOWNLOADCOMPLATE} -> {"pull"}
      [] task.status = NONESTATUS -> {IF task.operate = OPERATE_PULL THEN "pull" ELSE "push"}
      [] OTHER -> {}

StartTask(n) ==
    /\ "start" \in mirrorwork.ops /\ task.live
    /\ \E operate_type \in StartedAs : execute_task(n, operate_type)

\* force_start compares the operate of a push, and the status of a pull.
ForceStart(n) ==
    /\ "force_start" \in mirrorwork.ops /\ task.live
    /\ \/ task.operate = OPERATE_PUSH /\ execute_task(n, "push")
       \/ task.operate # OPERATE_PUSH /\ task.status = OPERATE_PULL /\ execute_task(n, "pull")

StopTask ==
    /\ "stop" \in mirrorwork.ops /\ task.live
    /\ task.status \in {DOWNLOADING, UPLOADING}
    /\ task' = [task EXCEPT !.status = NONESTATUS]
    /\ OnlyTask

DeleteTask ==
    /\ "delete" \in mirrorwork.ops /\ task.live
    /\ task' = NoTask
    /\ OnlyTask

-----------------------------------------------------------------------------
(* The script: what its steps have in common.                              *)

ScriptAt(s, pc) == script[s].pc = pc

Fails(call) == call \in mirrorwork.failing

ScriptTo(s, pc) ==
    script' = [script EXCEPT ![s] = IF pc = "idle" THEN NoScript ELSE [@ EXCEPT !.pc = pc]]

\* save(update_fields=[...]): an error that ends the script when the row is gone.
Save(s, row, pc) ==
    IF task.live
    THEN task' = row /\ ScriptTo(s, pc)
    ELSE UNCHANGED task /\ ScriptTo(s, "idle")

\* A fault of Fail that a run has to find: the message alone is saved.
Fail_unsaved(s, status) == Save(s, task, "idle")

\* The message and the status are saved and the script ends.
Fail(s, status) ==
    Save(s, [task EXCEPT !.status = status], "idle")

OnlyScript == UNCHANGED <<remote_size, local_file, remote, base_image, os_image, died>>

Killed(s) ==
    /\ Fails("crash") /\ script[s].pc # "idle"
    /\ ScriptTo(s, "idle")
    /\ died' = TRUE
    /\ UNCHANGED <<remote_size, task, local_file, remote, base_image, os_image>>

\* main: the row is loaded once.
LoadTask(s) ==
    /\ ScriptAt(s, "load")
    /\ script' = [script EXCEPT ![s] = IF task.live THEN [@ EXCEPT !.row = task, !.pc = "begin"]
                                       ELSE NoScript]
    /\ UNCHANGED task /\ OnlyScript

\* loacl_node_run_server: a row that says one thing and another.
Contradicts(row) ==
    \/ row.operate = OPERATE_PULL /\ row.status = UPLOADING
    \/ row.operate = OPERATE_PUSH /\ row.status = DOWNLOADING

RefuseTask(s) ==
    LET row == script[s].row IN
    /\ ScriptAt(s, "begin")
    /\ \/ Contradicts(row) /\ Fail(s, DOWNLOADFAILURE)
       \/ /\ Fails("space")
          /\ Fail(s, IF row.operate = OPERATE_PULL THEN DOWNLOADFAILURE ELSE UPLOADFAILURE)
    /\ OnlyScript

Accepted(s) == ScriptAt(s, "begin") /\ ~Contradicts(script[s].row)

\* A download that failed is taken up where the columns say it was; on another
\* node it begins anew and the row goes on saying that it failed.  One that has
\* nothing left to do is marked as downloading and left.
RetryPull(s) ==
    LET row == script[s].row
        here == script[s].node = row.local_hostname
        done == row.download_or_upload_status /\ row.import_date_complate
    IN
    /\ Accepted(s) /\ row.status = DOWNLOADFAILURE
    /\ IF ~here THEN Save(s, [task EXCEPT !.local_hostname = script[s].node], "exists")
       ELSE IF ~done THEN Save(s, [task EXCEPT !.status = DOWNLOADING], "exists")
       ELSE IF ~row.create_os_image THEN Save(s, [task EXCEPT !.status = DOWNLOADING], "recreate_os")
       ELSE IF script[s].op = "pull" THEN Save(s, [task EXCEPT !.status = DOWNLOADING], "idle")
       ELSE Save(s, [task EXCEPT !.status = UPLOADING], "del_push")
    /\ OnlyScript

\* An upload that failed begins anew; its row says meanwhile that a download is
\* complete.
RetryPush(s) ==
    LET row == script[s].row IN
    /\ Accepted(s) /\ row.status = UPLOADFAILURE
    /\ IF script[s].node = row.local_hostname
       THEN Save(s, [task EXCEPT !.status = DOWNLOADCOMPLATE], "del_push")
       ELSE Save(s, [task EXCEPT !.local_hostname = script[s].node], "del_push")
    /\ OnlyScript

BeginTask(s) ==
    LET row == script[s].row
        busy == IF script[s].op = "pull" THEN DOWNLOADING ELSE UPLOADING
    IN
    /\ Accepted(s) /\ row.status \notin {DOWNLOADFAILURE, UPLOADFAILURE}
    /\ IF row.status = busy
       THEN ScriptTo(s, "idle") /\ UNCHANGED task
       ELSE Save(s, [task EXCEPT !.status = busy], IF script[s].op = "pull" THEN "exists" ELSE "del_push")
    /\ OnlyScript

-----------------------------------------------------------------------------
(* pull_image                                                              *)

\* An rbd image of that name is left for an administrator to look at.
PullExists(s) ==
    /\ ScriptAt(s, "exists")
    /\ \/ base_image = "none" /\ ScriptTo(s, "del_local") /\ UNCHANGED task
       \/ base_image # "none" /\ Fail(s, DOWNLOADFAILURE)
       \/ Fails("ceph") /\ Fail(s, DOWNLOADFAILURE)
    /\ OnlyScript

\* A fault of DeleteLocalFile that a run has to find: a file that is there is
\* left, for the download to append to.
DeleteLocalFile_keeps(s) ==
    /\ ScriptAt(s, "del_local")
    /\ script' = [script EXCEPT ![s].pc = "download", ![s].offset = 0, ![s].chunk = ReadChunk]
    /\ UNCHANGED task /\ OnlyScript

\* delete_local_image, and the start of request_download_image.
DeleteLocalFile(s) ==
    /\ ScriptAt(s, "del_local")
    /\ \/ /\ local_file' = [local_file EXCEPT ![script[s].node] = NoFile]
          /\ script' = [script EXCEPT ![s].pc = "download", ![s].offset = 0, ![s].chunk = ReadChunk]
          /\ UNCHANGED task
       \/ Fails("delete_local") /\ Fail(s, DOWNLOADFAILURE) /\ UNCHANGED local_file
    /\ UNCHANGED <<remote_size, remote, base_image, os_image, died>>

Least(a, b) == IF a < b THEN a ELSE b

\* write_local_image_path: opened to append for every chunk.
Appended(file, offset, size) ==
    IF size = 0 THEN file
    ELSE [n |-> Least(file.n + size, 2 * remote_size),
          is |-> IF file.n = offset THEN file.is
                 ELSE IF file.n = 0 THEN "headless"
                 ELSE IF file.is = "headless" THEN "headless" ELSE "mixed"]

\* One turn of the loop of request_download_image.  It ends when less than a
\* chunk was left, so that an object of whole chunks is asked for once more than
\* it has.
DownloadChunk(s) ==
    LET n == script[s].node
        offset == script[s].offset
        chunk == Least(script[s].chunk, remote_size)
        left == remote_size - offset
        next == IF left < chunk THEN left ELSE chunk
    IN
    /\ ScriptAt(s, "download")
    /\ \/ /\ local_file' = [local_file EXCEPT ![n] = Appended(@, offset, Least(chunk, left))]
          /\ script' = [script EXCEPT ![s] =
                          IF left < chunk THEN [@ EXCEPT !.pc = "mark_downloaded"]
                          ELSE [@ EXCEPT !.chunk = next, !.offset = offset + next]]
          /\ UNCHANGED task
       \/ Fails("download") /\ Fail(s, DOWNLOADFAILURE) /\ UNCHANGED local_file
    /\ UNCHANGED <<remote_size, remote, base_image, os_image, died>>

MarkDownloaded(s) ==
    /\ ScriptAt(s, "mark_downloaded")
    /\ Save(s, [task EXCEPT !.download_or_upload_status = TRUE], "import")
    /\ OnlyScript

\* import_rbd_image: qemu-img opens the file, which it then has whatever becomes
\* of its name, and makes the rbd image.
StartImport(s) ==
    LET file == local_file[script[s].node] IN
    /\ ScriptAt(s, "import")
    /\ IF base_image = "none" /\ file.n > 0 /\ file.is # "headless"
       THEN /\ base_image' = "partial"
            /\ script' = [script EXCEPT ![s].pc = "importing", ![s].opened = file]
            /\ UNCHANGED task
       ELSE UNCHANGED base_image /\ Fail(s, DOWNLOADFAILURE)
    /\ UNCHANGED <<remote_size, local_file, remote, os_image, died>>

\* It needs the head of the file, and may or may not notice that the rest is
\* not what it was; it leaves the rbd image when it fails.
EndImport(s) ==
    LET file == script[s].opened IN
    /\ ScriptAt(s, "importing")
    /\ \/ /\ base_image' = IF Whole(file) THEN "whole" ELSE "broken"
          /\ ScriptTo(s, "mark_imported")
          /\ UNCHANGED task
       \/ /\ Fails("import") \/ ~Whole(file)
          /\ UNCHANGED base_image /\ Fail(s, DOWNLOADFAILURE)
    /\ UNCHANGED <<remote_size, local_file, remote, os_image, died>>

MarkImported(s) ==
    /\ ScriptAt(s, "mark_imported")
    /\ Save(s, [task EXCEPT !.import_date_complate = TRUE, !.status = DOWNLOADCOMPLATE], "create_os")
    /\ OnlyScript

\* create_os_image: an Image of that name is taken for it.  Also at the end of
\* a download that had got as far as this.
CreateOsImage(s) ==
    /\ script[s].pc \in {"create_os", "recreate_os"}
    /\ \/ os_image' = TRUE /\ ScriptTo(s, "mark_created") /\ UNCHANGED task
       \/ (Fails("create_os") /\ ~os_image) /\ Fail(s, DOWNLOADFAILURE) /\ UNCHANGED os_image
    /\ UNCHANGED <<remote_size, local_file, remote, base_image, died>>

\* The status is saved with it where it was 6 before.
MarkCreated(s) ==
    /\ ScriptAt(s, "mark_created")
    /\ Save(s, [task EXCEPT !.create_os_image = TRUE,
                            !.status = IF script[s].row.status = DOWNLOADFAILURE
                                       THEN DOWNLOADCOMPLATE ELSE @], "clean")
    /\ OnlyScript

\* The file is removed; that it could not be is noted in the row.
CleanLocalFile(s) ==
    /\ ScriptAt(s, "clean")
    /\ \/ local_file' = [local_file EXCEPT ![script[s].node] = NoFile]
       \/ Fails("delete_local") /\ UNCHANGED local_file
    /\ ScriptTo(s, "idle")
    /\ UNCHANGED <<remote_size, task, remote, base_image, os_image, died>>

-----------------------------------------------------------------------------
(* push_image                                                              *)

DeletePushFile(s) ==
    /\ ScriptAt(s, "del_push")
    /\ \/ /\ local_file' = [local_file EXCEPT ![script[s].node] = NoFile]
          /\ ScriptTo(s, "export") /\ UNCHANGED task
       \/ Fails("delete_local") /\ Fail(s, UPLOADFAILURE) /\ UNCHANGED local_file
    /\ UNCHANGED <<remote_size, remote, base_image, os_image, died>>

\* export_rbd_image writes the file whole, or fails.
ExportImage(s) ==
    /\ ScriptAt(s, "export")
    /\ \/ /\ base_image # "none"
          /\ local_file' = [local_file EXCEPT ![script[s].node] = [n |-> remote_size, is |-> "good"]]
          /\ script' = [script EXCEPT ![s].pc = "upload", ![s].offset = 0]
          /\ UNCHANGED task
       \/ (base_image = "none" \/ Fails("export")) /\ Fail(s, UPLOADFAILURE) /\ UNCHANGED local_file
    /\ UNCHANGED <<remote_size, remote, base_image, os_image, died>>

\* A fault of UploadChunk that a run has to find: the loop ends before a chunk
\* that is not a whole one.
UploadChunk_wholeOnly(s) ==
    LET offset == script[s].offset
        left == local_file[script[s].node].n - offset
    IN
    /\ ScriptAt(s, "upload")
    /\ IF left < ReadChunk
       THEN ScriptTo(s, "mark_uploaded") /\ UNCHANGED remote
       ELSE /\ remote' = offset + ReadChunk
            /\ script' = [script EXCEPT ![s].offset = offset + ReadChunk]
    /\ UNCHANGED <<remote_size, task, local_file, base_image, os_image, died>>

\* upload_image with read_in_chunks and request_upload_chunk: a chunk of the
\* file is put where it belongs, until there is none; a file that cannot be read
\* on is taken for one that is at its end.
UploadChunk(s) ==
    LET offset == script[s].offset
        size == Least(ReadChunk, local_file[script[s].node].n - offset)
    IN
    /\ ScriptAt(s, "upload")
    /\ \/ /\ size <= 0 \/ Fails("read_local")
          /\ ScriptTo(s, "mark_uploaded") /\ UNCHANGED <<task, remote>>
       \/ /\ size > 0
          /\ remote' = IF offset + size > remote THEN offset + size ELSE remote
          /\ script' = [script EXCEPT ![s].offset = offset + size]
          /\ UNCHANGED task
       \/ size > 0 /\ Fails("upload") /\ Fail(s, UPLOADFAILURE) /\ UNCHANGED remote
    /\ UNCHANGED <<remote_size, local_file, base_image, os_image, died>>

MarkUploaded(s) ==
    /\ ScriptAt(s, "mark_uploaded")
    /\ Save(s, [task EXCEPT !.status = UPLOADCOMPLATE, !.download_or_upload_status = TRUE], "clean")
    /\ OnlyScript

-----------------------------------------------------------------------------

ScriptStep(s) ==
    \/ Killed(s) \/ LoadTask(s) \/ RefuseTask(s) \/ RetryPull(s) \/ RetryPush(s) \/ BeginTask(s)
    \/ PullExists(s) \/ DeleteLocalFile(s) \/ DownloadChunk(s) \/ MarkDownloaded(s)
    \/ StartImport(s) \/ EndImport(s) \/ MarkImported(s)
    \/ CreateOsImage(s) \/ MarkCreated(s) \/ CleanLocalFile(s)
    \/ DeletePushFile(s) \/ ExportImage(s) \/ UploadChunk(s) \/ MarkUploaded(s)

MirrorNext ==
    /\ UNCHANGED mirrorwork
    /\ \/ \E s \in Scripts : ScriptStep(s)
       \/ StopTask \/ DeleteTask
       \/ \E n \in Nodes : StartTask(n) \/ ForceStart(n)
       \/ \E n \in Nodes : AddPull(n) \/ AddPush(n)

MirrorSpec == MirrorInit /\ [][MirrorNext]_mirrorVars
=============================================================================
