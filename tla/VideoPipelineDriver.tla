--------------------------- MODULE VideoPipelineDriver ---------------------------
(* Who keeps a QUEUED or PROCESSING video moving: the proof that only the death *)
(* of a request or of a job can leave it with nobody.                           *)
EXTENDS VideoPipelineSafety

\* A live job that may drive a QUEUED, respectively a PROCESSING video.
DrivesQueued(t) ==
    Live(t) /\ (task[t].kind = "metadata" \/ task[t].pc \in {"queued", "claim"})

DrivesProcessing(t) == Live(t) /\ task[t].kind = "transcode"

\* The job t is the only one whose record the step changes.
OnlyTaskMoves(t) ==
    /\ UNCHANGED call
    /\ \A u \in TaskIds \ {t} : task'[u] = task[u]

\* A job drives on what it drove: the video keeps a driver.
LEMMA KeepsDriving ==
    ASSUME Driven, NEW t \in TaskIds, OnlyTaskMoves(t), video'.status = video.status,
           video.status = "QUEUED" /\ DrivesQueued(t) => DrivesQueued(t)',
           video.status = "PROCESSING" /\ DrivesProcessing(t) => DrivesProcessing(t)'
    PROVE  Driven'
<1>1. CASE video.status = "QUEUED"
  <2>1. QueuedDriven
    BY <1>1 DEF Driven
  <2>2. CASE \E c \in Calls : call[c].pc = "enqueue"
    BY <1>1, <2>2 DEF OnlyTaskMoves, Driven, QueuedDriven
  <2>3. CASE \E u \in TaskIds : DrivesQueued(u)
    BY <1>1, <2>3 DEF OnlyTaskMoves, Driven, QueuedDriven, DrivesQueued, Live
  <2> QED
    BY <2>1, <2>2, <2>3 DEF QueuedDriven, DrivesQueued
<1>2. CASE video.status = "PROCESSING"
  BY <1>2 DEF OnlyTaskMoves, Driven, ProcessingDriven, DrivesProcessing, Live
<1> QED
  BY <1>1, <1>2 DEF Driven

\* A request that is not about to enqueue, and leaves jobs and status alone.
LEMMA CallKeepsDriving ==
    ASSUME Driven, NEW c \in Calls, UNCHANGED task, video'.status = video.status,
           \A d \in Calls : call[d].pc = "enqueue" => call'[d].pc = "enqueue"
    PROVE  Driven'
  BY DEF Driven, QueuedDriven, ProcessingDriven, Live

LEMMA ApiDrives ==
    ASSUME TypeOK, NothingMissing, Driven, ApiNext, ~ \E c \in Calls : AbandonCall(c)
    PROVE  Driven'
<1>1. PICK c \in Calls :
        \/ CallProgress(c)
        \/ BeginRequestUpload(c)
        \/ BeginCompleteUpload(c)
        \/ BeginRetranscode(c)
  BY DEF ApiNext
<1> USE DEF TypeOK, rows
<1>2. CASE SaveFirstUpload(c)
  BY <1>2, CallKeepsDriving
     DEF SaveFirstUpload, CallStep, Return, InsertVideo, SetStatus, Driven, Video
<1>3. CASE SaveReupload(c)
  BY <1>3 DEF SaveReupload, UpdateVideoForReupload, SetStatus, Driven, Video
<1>4. CASE IssueTicket(c)
  BY <1>4, CallKeepsDriving DEF IssueTicket, Return
<1>5. CASE HeadRawObject(c)
  BY <1>5, CallKeepsDriving DEF HeadRawObject, Return, CallStep
<1>6. CASE RejectTooLarge(c)
  BY <1>6, CallKeepsDriving
     DEF RejectTooLarge, Return, SetVideoFailed, SetStatus, Driven, Video
<1>7. ASSUME NEW step \in CallSteps \ {"enqueue"}, NEW from, EnterQueue(c, step, from)
      PROVE  Driven'
  <2>1. CASE CallStep(c, step, "enqueue") /\ TransitionVideoStatus(from, "QUEUED")
    <3>1. video'.status = "QUEUED"
      BY <2>1 DEF TransitionVideoStatus, SetStatus, Video
    <3>2. call'[c].pc = "enqueue"
      BY <2>1 DEF CallStep, Call
    <3> QED
      BY <3>1, <3>2 DEF Driven, QueuedDriven
  <2>2. CASE Return(c, step) /\ TransitionMissed(from)
    BY <1>7, <2>2, CallKeepsDriving DEF Return, TransitionMissed, EnterQueue
  <2> QED
    BY <1>7, <2>1, <2>2 DEF EnterQueue
<1>8. CASE CommitCompleteUpload(c) \/ CommitRetranscode(c)
  BY <1>7, <1>8 DEF CommitCompleteUpload, CommitRetranscode, CallSteps
<1>9. CASE EnqueueMetadataExtract(c)
  <2>1. PICK t \in TaskIds :
          ~Live(t) /\ task' = [task EXCEPT ![t] = Job("metadata", call[c].key, None, MaxRetry)]
    BY <1>9 DEF EnqueueMetadataExtract
  <2>2. DrivesQueued(t)'
    BY <2>1 DEF DrivesQueued, Live, Job
  <2>3. \A u \in TaskIds : DrivesProcessing(u) => DrivesProcessing(u)'
    BY <2>1 DEF DrivesProcessing, Live
  <2> QED
    BY <1>9, <2>2, <2>3 DEF EnqueueMetadataExtract, Driven, QueuedDriven,
                            ProcessingDriven, DrivesQueued, DrivesProcessing
<1>10. CASE BeginRequestUpload(c) \/ BeginCompleteUpload(c) \/ BeginRetranscode(c)
  BY <1>10, CallKeepsDriving
     DEF BeginRequestUpload, BeginCompleteUpload, BeginRetranscode, Begin, IdleCall
<1> QED
  BY <1>1, <1>2, <1>3, <1>4, <1>5, <1>6, <1>8, <1>9, <1>10 DEF CallProgress

LEMMA WorkerDrives ==
    ASSUME TypeOK, NothingMissing, Driven, NEW t \in TaskIds,
           TaskProgress(t) \/ EnqueueTranscodeTwice(t)
    PROVE  Driven'
<1>1. ASSUME NEW to, Goto(t, to)
      PROVE  /\ task'[t].pc = to /\ task'[t].kind = task[t].kind
             /\ \A u \in TaskIds \ {t} : task'[u] = task[u]
  BY <1>1, GotoMoves
<1>2. ASSUME NEW job, task' = [task EXCEPT ![t] = job]
      PROVE  task'[t] = job /\ \A u \in TaskIds \ {t} : task'[u] = task[u]
  BY <1>2 DEF TypeOK
<1>3. video \in Video
  BY DEF TypeOK
<1> USE DEF TaskAt, Live, OnlyTaskMoves, DrivesQueued, DrivesProcessing, rows
<1>4. CASE StartMetadataExtract(t)
  BY <1>1, <1>2, <1>4, KeepsDriving DEF StartMetadataExtract, Ack
<1>6. CASE ProbeRaw(t)
  <2>1. Download(t, "metadata", "extract", "metadata")
    BY <1>6 DEF ProbeRaw
  <2>2. /\ task[t].kind = "metadata" /\ task[t].pc = "extract"
        /\ task'[t].kind = "metadata" /\ task'[t].pc = "metadata"
        /\ OnlyTaskMoves(t)
    BY <2>1, DownloadMoves DEF Download
  <2> QED
    BY <2>1, <2>2, KeepsDriving DEF Download
<1>7. CASE SaveMetadata(t)
  BY <1>1, <1>3, <1>7, KeepsDriving DEF SaveMetadata, UpdateVideoMetadata, Video
<1>8. CASE SaveDuration(t)
  BY <1>1, <1>8, KeepsDriving DEF SaveDuration, UpdateLessonDuration
<1>9. CASE EnqueueTranscode(t)
  BY <1>2, <1>9, KeepsDriving DEF EnqueueTranscode, TranscodeJob, Job
<1>10. CASE EnqueueTranscodeTwice(t)
  <2>1. PICK u \in TaskIds :
          /\ ~Live(u)
          /\ task' = [task EXCEPT ![u] = TranscodeJob(t), ![t] = Retried(t)]
    BY <1>10 DEF EnqueueTranscodeTwice
  <2>2. u # t
    BY <1>10, <2>1 DEF EnqueueTranscodeTwice
  <2>3. DrivesQueued(u)' /\ DrivesProcessing(u)'
    BY <2>1, <2>2 DEF TranscodeJob, Job, TypeOK
  <2> QED
    BY <1>10, <2>3 DEF Driven, QueuedDriven, ProcessingDriven, EnqueueTranscodeTwice
<1>11. CASE StartTranscode(t)
  BY <1>1, <1>2, <1>11, KeepsDriving DEF StartTranscode, Ack
<1>12. CASE ClaimVideo(t)
  <2>1. DrivesProcessing(t)'
    BY <1>1, <1>12 DEF ClaimVideo
  <2>2. video'.status # "QUEUED"
    BY <1>3, <1>12 DEF ClaimVideo, TransitionVideoStatus, TransitionMissed, SetStatus, Video
  <2> QED
    BY <2>1, <2>2 DEF Driven, ProcessingDriven
<1>13. CASE TranscodeRaw(t)
  <2>1. Download(t, "transcode", "download", "put")
    BY <1>13 DEF TranscodeRaw
  <2>2. /\ task[t].kind = "transcode" /\ task[t].pc = "download"
        /\ task'[t].kind = "transcode" /\ task'[t].pc = "put"
        /\ OnlyTaskMoves(t)
    BY <2>1, DownloadMoves DEF Download
  <2> QED
    BY <2>1, <2>2, KeepsDriving DEF Download
<1>14. CASE PutFile(t)
  <2>1. task[t] \in TaskOf("transcode", TranscodeSteps) /\ task[t].pc = "put"
    BY <1>14 DEF PutFile, TypeOK, Task, TaskOf, FreeTask
  <2>2. PICK f \in Left(t) : task' = [task EXCEPT ![t].done = @ \cup {f}]
    BY <1>14 DEF PutFile
  <2>3. task'[t].pc = "put" /\ task'[t].kind = "transcode"
    BY <2>1, <2>2 DEF TaskOf, TypeOK
  <2>4. \A u \in TaskIds \ {t} : task'[u] = task[u]
    BY <2>2 DEF TypeOK
  <2> QED
    BY <1>14, <2>1, <2>3, <2>4, KeepsDriving DEF PutFile
<1>18. CASE PutMaster(t)
  BY <1>1, <1>18, KeepsDriving DEF PutMaster
<1>15. CASE SaveHLSMasterKey(t)
  BY <1>1, <1>3, <1>15, KeepsDriving DEF SaveHLSMasterKey, UpdateVideoHLSMasterKey, Video, store
<1>16. CASE MarkReady(t)
  <2>1. CASE TransitionVideoStatus("PROCESSING", "READY")
    BY <1>3, <2>1 DEF TransitionVideoStatus, SetStatus, Video, Driven
  <2>2. CASE TransitionMissed("PROCESSING")
    BY <1>2, <1>16, <2>2, KeepsDriving DEF MarkReady, Ack, TransitionMissed
  <2> QED
    BY <1>16, <2>1, <2>2 DEF MarkReady
<1>17. CASE FailTask(t)
  BY <1>3, <1>17 DEF FailTask, SetVideoFailed, SetStatus, Video, Driven
<1> QED
  BY <1>4, <1>6, <1>7, <1>8, <1>9, <1>10, <1>11, <1>12, <1>13, <1>14, <1>15, <1>16, <1>17, <1>18
     DEF TaskProgress

\* A job that goes back to the queue drives on.
LEMMA ShutdownDrives ==
    ASSUME TypeOK, Driven, NEW t \in TaskIds, RequeueTask(t)
    PROVE  Driven'
<1>1. task' = [task EXCEPT ![t] = Requeued(t)] /\ Live(t) /\ UNCHANGED <<rows, call>>
  BY DEF RequeueTask
<1>2. task'[t] = Requeued(t) /\ \A u \in TaskIds \ {t} : task'[u] = task[u]
  BY <1>1 DEF TypeOK
<1>3. /\ Live(t)' /\ task'[t].pc = "queued" /\ task'[t].kind = task[t].kind
  BY <1>2 DEF Requeued, Job, Live
<1> QED
  BY <1>1, <1>2, <1>3, KeepsDriving
     DEF OnlyTaskMoves, DrivesQueued, DrivesProcessing, rows

\* Whatever the interleaving, a video in processing loses its last request or
\* job only in the step in which a request or a job dies without a mark.
THEOREM OnlyDeathLeavesNobody == Spec => OnlyDeathStrands
<1>1. ASSUME TypeOK, NothingMissing, [Next]_vars, Driven, ~Driven',
             ~ \E c \in Calls : AbandonCall(c)
      PROVE  \E t \in TaskIds : AbortTask(t)
  <2>1. CASE ApiNext
    BY <1>1, <2>1, ApiDrives
  <2>2. CASE WorkerNext
    BY <1>1, <2>2, WorkerDrives DEF WorkerNext
  <2>5. CASE ShutdownNext
    BY <1>1, <2>5, ShutdownDrives DEF ShutdownNext
  <2>3. CASE StorageNext \/ UNCHANGED vars
    BY <1>1, <2>3 DEF StorageNext, ExpireURL, ClientPut, vars, rows, Driven,
                      QueuedDriven, ProcessingDriven, Live
  <2>4. CASE Publish \/ Reap
    BY <1>1, <2>4 DEF Publish, Reap, ResetStaleUploads, TransitionVideoStatus, SetStatus,
                      Driven, TypeOK, Video
  <2> QED
    BY <1>1, <2>1, <2>2, <2>3, <2>4, <2>5 DEF Next
<1>2. TypeOK /\ NothingMissing /\ [Next]_vars
          => [Driven => \/ Driven'
                        \/ \E c \in Calls : AbandonCall(c)
                        \/ \E t \in TaskIds : AbortTask(t)]_vars
  BY <1>1
<1> QED
  BY <1>2, TypesKept, PTL DEF Spec, OnlyDeathStrands

================================================================================
