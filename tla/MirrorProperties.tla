-------------------------- MODULE MirrorProperties --------------------------
(***************************************************************************)
(* What has to hold of the tasks of the public mirror.                     *)
(***************************************************************************)
EXTENDS MirrorImage

\* A system image that was fetched is offered only when all of it has been
\* imported, in order: "镜像导入成功后，会启用镜像，否则不会启用" (image/models.py,
\* mirror_image_enable), whatever failed before, wherever a script was killed.
ImageIsWhole == os_image => base_image = "whole"

\* The mirror has all of an image whose task says that the upload is complete,
\* where the file that is sent can be read to its end (upload_image,
\* request_upload_chunk, push_image); where it cannot, see UploadedIsThere.
PushedWhole ==
    task.live /\ task.status = UPLOADCOMPLATE => remote = remote_size \/ Fails("read_local")

AllIdle == \A s \in Scripts : script[s].pc = "idle"

\* While no script is at work the row does not say that one is, unless one was
\* killed, or the task had nothing left to do when it was started again: `start`
\* would not take it up (loacl_node_run_server, pull_image, push_image,
\* mirror_image_task_operate).
IdleIsSaid ==
    task.live /\ ~died /\ AllIdle /\ task.status \in {DOWNLOADING, UPLOADING}
    => /\ task.status = DOWNLOADING
       /\ task.download_or_upload_status /\ task.import_date_complate /\ task.create_os_image

-----------------------------------------------------------------------------
(* What the documentation says, and the code does not keep.                *)

\* "上传完成" (image/models.py, UPLOADCOMPLATE): the mirror has the whole image.
UploadedIsThere == task.live /\ task.status = UPLOADCOMPLATE => remote = remote_size

\* "下载中" (image/models.py, DOWNLOADING): somebody is at it, if nothing was killed.
DownloadingIsAtWork == task.live /\ ~died /\ AllIdle => task.status # DOWNLOADING
=============================================================================
