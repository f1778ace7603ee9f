--------------------------- MODULE VideoPipelineProofs ---------------------------
(* Theorems about VideoPipeline for every number of requests, jobs, keys,       *)
(* contents, heights and retries, and every combination of faults.             *)
EXTENDS VideoPipeline, TLAPS

\* Every write to the two rows keeps their types: the rows module taken alone.
LEMMA RowsType ==
    ASSUME video \in Video, lesson \in Lesson,
           video.status # "ABSENT" => video.rawKey \in RawKeys,
           \/ \E key \in RawKeys : InsertVideo(key) \/ UpdateVideoForReupload(key)
           \/ \E from \in Statuses, to \in Statuses :
                TransitionVideoStatus(from, to) \/ TransitionMissed(from)
           \/ SetVideoFailed
           \/ \E content \in Contents :
                UpdateVideoMetadata(content) \/ UpdateLessonDuration(content)
           \/ UpdateVideoHLSMasterKey
    PROVE  /\ video' \in Video /\ lesson' \in Lesson
           /\ video'.status # "ABSENT" => video'.rawKey \in RawKeys
<1> USE DEF Video, Lesson, Statuses, SetStatus, rows
<1>1. CASE \E key \in RawKeys : InsertVideo(key) \/ UpdateVideoForReupload(key)
  BY <1>1 DEF InsertVideo, UpdateVideoForReupload
<1>2. CASE \E from \in Statuses, to \in Statuses :
             TransitionVideoStatus(from, to) \/ TransitionMissed(from)
  BY <1>2 DEF TransitionVideoStatus, TransitionMissed
<1>3. CASE SetVideoFailed
  BY <1>3 DEF SetVideoFailed
<1>4. CASE \E content \in Contents :
             UpdateVideoMetadata(content) \/ UpdateLessonDuration(content)
  BY <1>4 DEF UpdateVideoMetadata, UpdateLessonDuration
<1>5. CASE UpdateVideoHLSMasterKey
  BY <1>5 DEF UpdateVideoHLSMasterKey
<1> QED
  BY <1>1, <1>2, <1>3, <1>4, <1>5

\* A request that takes a step keeps its record, and the key it holds.
LEMMA CallType ==
    ASSUME TypeOK, NothingMissing, NEW c \in Calls,
           \/ \E from \in CallSteps \ {"idle"}, to \in CallSteps : CallStep(c, from, to)
           \/ \E from \in CallSteps : Return(c, from)
    PROVE  /\ call' \in [Calls -> Call]
           /\ \A d \in Calls : call'[d] # IdleCall => call'[d].key \in RawKeys
  BY DEF TypeOK, NothingMissing, Call, CallSteps, IdleCall, CallStep, Return

\* A new job and a job asynq runs again are job records.
LEMMA JobType ==
    ASSUME NEW kind \in {"metadata", "transcode"}, NEW key \in RawKeys,
           NEW resolution \in Contents \cup {None}, NEW tries \in 0..MaxRetry
    PROVE  Job(kind, key, resolution, tries) \in Task
  BY PipelineAssumption DEF Job, Task, TaskOf, MetadataSteps, TranscodeSteps


\* Every step of a request keeps the types and the keys.
LEMMA ApiTypeStep ==
    ASSUME TypeOK, NothingMissing, NEW c \in Calls,
           \/ CallProgress(c)
           \/ BeginRequestUpload(c)
           \/ BeginCompleteUpload(c)
           \/ BeginRetranscode(c)
           \/ AbandonCall(c)
    PROVE  TypeOK' /\ NothingMissing'
<1> USE DEF TypeOK, NothingMissing, Call, CallSteps, IdleCall, Video, Lesson,
            Statuses, SetStatus, Live, rows, store
<1>1. CASE SaveFirstUpload(c)
  <2>1. call[c].key \in RawKeys
    BY <1>1 DEF SaveFirstUpload, CallStep, Return
  <2>2. InsertVideo(call[c].key) \/ UNCHANGED rows
    BY <1>1 DEF SaveFirstUpload
  <2>3. CASE InsertVideo(call[c].key)
    BY <1>1, <2>1, <2>3, RowsType, CallType DEF SaveFirstUpload
  <2>4. CASE UNCHANGED rows
    BY <1>1, <2>4, CallType DEF SaveFirstUpload
  <2> QED
    BY <2>2, <2>3, <2>4
<1>2. CASE SaveReupload(c)
  <2>1. call[c].key \in RawKeys
    BY <1>2 DEF SaveReupload, CallStep
  <2> QED
    BY <1>2, <2>1, RowsType, CallType DEF SaveReupload
<1>3. CASE IssueTicket(c)
  BY <1>3 DEF IssueTicket, Return
<1>4. CASE HeadRawObject(c)
  BY <1>4 DEF HeadRawObject, Return, CallStep
<1>5. CASE RejectTooLarge(c)
  BY <1>5 DEF RejectTooLarge, Return, SetVideoFailed
<1>6. CASE CommitCompleteUpload(c)
  BY <1>6, RowsType, CallType DEF CommitCompleteUpload, EnterQueue
<1>7. CASE CommitRetranscode(c)
  BY <1>7, RowsType, CallType DEF CommitRetranscode, EnterQueue
<1>8. CASE EnqueueMetadataExtract(c)
  <2>1. call[c].key \in RawKeys
    BY <1>8 DEF EnqueueMetadataExtract, Return
  <2>2. PICK t \in TaskIds :
          task' = [task EXCEPT ![t] = Job("metadata", call[c].key, None, MaxRetry)]
    BY <1>8 DEF EnqueueMetadataExtract
  <2>3. Job("metadata", call[c].key, None, MaxRetry) \in Task
    <3>1. MaxRetry \in 0..MaxRetry /\ None \in Contents \cup {None}
      BY PipelineAssumption
    <3> HIDE DEF TypeOK, NothingMissing
    <3> QED
      BY <2>1, <3>1, JobType
  <2> QED
    BY <1>8, <2>1, <2>2, <2>3 DEF EnqueueMetadataExtract, Return, Job
<1>9. CASE BeginRequestUpload(c)
  BY <1>9 DEF BeginRequestUpload, Begin
<1>10. CASE BeginCompleteUpload(c)
  BY <1>10 DEF BeginCompleteUpload, Begin
<1>11. CASE BeginRetranscode(c)
  BY <1>11 DEF BeginRetranscode, Begin
<1>12. CASE AbandonCall(c)
  BY <1>12 DEF AbandonCall, Return
<1> QED
  BY <1>1, <1>2, <1>3, <1>4, <1>5, <1>6, <1>7, <1>8, <1>9, <1>10, <1>11, <1>12
     DEF CallProgress

-------------------------------------------------------------------------------

\* The part of TypeOK and NothingMissing that speaks of the jobs.
JobOK(job) ==
    /\ job \in Task
    /\ job.pc # "free" => job.key \in RawKeys
    /\ job.pc \in {"metadata", "duration", "chain", "put"} => job.src \in Contents
    /\ job.kind = "transcode" => job.resolution \in Contents

JobsOK ==
    /\ task \in [TaskIds -> Task]
    /\ \A t \in TaskIds : JobOK(task[t])

LEMMA SlotUpdate ==
    ASSUME JobsOK, NEW t \in TaskIds, NEW job, JobOK(job),
           task' = [task EXCEPT ![t] = job]
    PROVE  JobsOK'
  BY DEF JobsOK, JobOK

\* A job that moves to another step of its handler.
LEMMA GotoOK ==
    ASSUME JobsOK, NEW t \in TaskIds, NEW to, Goto(t, to),
           \/ task[t].kind = "metadata" /\ to \in MetadataSteps
           \/ task[t].kind = "transcode" /\ to \in TranscodeSteps,
           to \in {"metadata", "duration", "chain", "put"} => task[t].src \in Contents
    PROVE  JobsOK'
<1> DEFINE job == [task[t] EXCEPT !.pc = to]
<1>1. task' = [task EXCEPT ![t] = job]
  BY DEF Goto, JobsOK
<1>2. task[t] \in Task /\ task[t].key \in RawKeys
  BY DEF JobsOK, JobOK, Task, FreeTask, TaskOf, MetadataSteps, TranscodeSteps, ClaimedSteps
<1>3. CASE task[t].kind = "metadata"
  <2>1. task[t] \in TaskOf("metadata", MetadataSteps) /\ to \in MetadataSteps
    BY <1>2, <1>3 DEF Task, TaskOf, FreeTask
  <2>2. job \in TaskOf("metadata", MetadataSteps) /\ job.pc = to
                 /\ job.key = task[t].key /\ job.src = task[t].src
                 /\ job.kind = task[t].kind /\ job.resolution = task[t].resolution
    BY <2>1 DEF TaskOf
  <2>3. JobOK(job)
    BY <1>2, <2>2 DEF JobOK, Task, JobsOK
  <2> QED
    BY <1>1, <2>3, SlotUpdate
<1>4. CASE task[t].kind = "transcode"
  <2>1. task[t] \in TaskOf("transcode", TranscodeSteps) /\ to \in TranscodeSteps
    BY <1>2, <1>4 DEF Task, TaskOf, FreeTask
  <2>2. job \in TaskOf("transcode", TranscodeSteps) /\ job.pc = to
                 /\ job.key = task[t].key /\ job.src = task[t].src
                 /\ job.kind = task[t].kind /\ job.resolution = task[t].resolution
    BY <2>1 DEF TaskOf
  <2>3. JobOK(job)
    BY <1>2, <2>2 DEF JobOK, Task, JobsOK
  <2> QED
    BY <1>1, <2>3, SlotUpdate
<1> QED
  BY <1>3, <1>4

LEMMA AckOK ==
    ASSUME JobsOK, NEW t \in TaskIds, Ack(t)
    PROVE  JobsOK'
<1>1. JobOK(FreeTask)
  BY DEF JobOK, FreeTask, Task
<1> QED
  BY <1>1, SlotUpdate DEF Ack

\* The record a retry leaves in the slot.
LEMMA RetriedOK ==
    ASSUME JobsOK, NEW t \in TaskIds, task[t].pc # "free"
    PROVE  /\ JobOK(Retried(t))
           /\ \/ Retried(t) = FreeTask
              \/ /\ Retried(t).pc = "queued"
                 /\ Retried(t).kind = task[t].kind
<1>1. task[t] \in TaskOf("metadata", MetadataSteps) \/ task[t] \in TaskOf("transcode", TranscodeSteps)
  BY DEF JobsOK, Task, FreeTask
<1>2. /\ task[t].kind \in {"metadata", "transcode"}
      /\ task[t].tries \in 0..MaxRetry
      /\ task[t].key \in RawKeys
      /\ task[t].resolution \in Contents \cup {None}
      /\ task[t].kind = "transcode" => task[t].resolution \in Contents
  BY <1>1 DEF TaskOf, JobsOK, JobOK
<1>3. CASE task[t].tries > 0
  <2>1. task[t].tries - 1 \in 0..MaxRetry
    BY <1>2, <1>3, PipelineAssumption
  <2>2. Job(task[t].kind, task[t].key, task[t].resolution, task[t].tries - 1) \in Task
    BY <1>2, <2>1, JobType
  <2> QED
    BY <1>2, <1>3, <2>2 DEF Retried, Job, JobOK
<1>4. CASE ~(task[t].tries > 0)
  BY <1>4 DEF Retried, Task, JobOK, FreeTask
<1> QED
  BY <1>3, <1>4

\* The record of a job that is handed back.
LEMMA RequeuedOK ==
    ASSUME JobsOK, NEW t \in TaskIds, task[t].pc # "free"
    PROVE  JobOK(Requeued(t))
<1>1. task[t] \in TaskOf("metadata", MetadataSteps) \/ task[t] \in TaskOf("transcode", TranscodeSteps)
  BY DEF JobsOK, Task, FreeTask
<1>2. /\ task[t].kind \in {"metadata", "transcode"}
      /\ task[t].tries \in 0..MaxRetry
      /\ task[t].key \in RawKeys
      /\ task[t].resolution \in Contents \cup {None}
      /\ task[t].kind = "transcode" => task[t].resolution \in Contents
  BY <1>1 DEF TaskOf, JobsOK, JobOK
<1>3. Requeued(t) \in Task
  BY <1>2, JobType DEF Requeued
<1> QED
  BY <1>2, <1>3 DEF Requeued, Job, JobOK

LEMMA DownloadOK ==
    ASSUME TypeOK, JobsOK, NEW t \in TaskIds,
           \/ Download(t, "metadata", "extract", "metadata")
           \/ Download(t, "transcode", "download", "put")
    PROVE  JobsOK'
<1> DEFINE content == raw[task[t].key]
           to == IF task[t].kind = "metadata" THEN "metadata" ELSE "put"
           job == [task[t] EXCEPT !.pc = to, !.src = content]
<1>1. task[t].key \in RawKeys /\ task[t] \in Task /\ task[t].pc # "free"
  BY DEF JobsOK, JobOK, Download, TaskAt
<1>2. content \in Contents
  BY <1>1 DEF TypeOK, Download
<1>3. task' = [task EXCEPT ![t] = job]
  BY DEF Download, JobsOK, TaskAt
<1>4. CASE task[t].kind = "metadata"
  <2>1. task[t] \in TaskOf("metadata", MetadataSteps)
    BY <1>1, <1>4 DEF Task, TaskOf, FreeTask
  <2>2. /\ job \in TaskOf("metadata", MetadataSteps)
        /\ job.key \in RawKeys /\ job.src \in Contents /\ job.kind = "metadata"
    BY <1>1, <1>2, <1>4, <2>1 DEF TaskOf, MetadataSteps
  <2>3. JobOK(job)
    BY <2>2 DEF JobOK, Task
  <2> QED
    BY <1>3, <2>3, SlotUpdate
<1>5. CASE task[t].kind = "transcode"
  <2>1. task[t] \in TaskOf("transcode", TranscodeSteps)
    BY <1>1, <1>5 DEF Task, TaskOf, FreeTask
  <2>2. /\ job \in TaskOf("transcode", TranscodeSteps)
        /\ job.key \in RawKeys /\ job.src \in Contents
        /\ job.resolution = task[t].resolution
    BY <1>1, <1>2, <1>5, <2>1 DEF TaskOf, TranscodeSteps, ClaimedSteps
  <2>3. job.resolution \in Contents
    BY <1>5, <2>2 DEF JobsOK, JobOK
  <2>4. JobOK(job)
    BY <2>2, <2>3 DEF JobOK, Task
  <2> QED
    BY <1>3, <2>4, SlotUpdate
<1> QED
  BY <1>4, <1>5 DEF Download, TaskAt

\* The rungs of a job are rungs of the full ladder, its files are files of it.
LEMMA RungsInLadder ==
    ASSUME NEW h \in Nat, NEW n \in 1..MaxSegments
    PROVE  /\ RenditionsForSourceHeight(h) \subseteq Rungs
           /\ RenditionsForSourceHeight(h) # {}
           /\ Transcode(RenditionsForSourceHeight(h), n) \subseteq Files
<1>1. RenditionsForSourceHeight(h) \subseteq Rungs /\ RenditionsForSourceHeight(h) # {}
  BY DEF RenditionsForSourceHeight, Rungs
<1>2. Playlist..n \subseteq Playlist..MaxSegments
  BY MaxSegmentsAssumption DEF Playlist
<1> QED
  BY <1>1, <1>2 DEF Transcode, Files

LEMMA PutFileOK ==
    ASSUME JobsOK, NEW t \in TaskIds, PutFile(t)
    PROVE  JobsOK'
<1>1. /\ task[t] \in TaskOf("transcode", TranscodeSteps)
      /\ task[t].key \in RawKeys /\ task[t].src \in Contents
      /\ task[t].resolution \in Contents
  BY DEF JobsOK, JobOK, PutFile, TaskAt, Task, TaskOf, FreeTask
<1>2. PICK f \in Left(t) : task' = [task EXCEPT ![t].done = @ \cup {f}]
  BY DEF PutFile
<1>3. f \in Files
  <2>1. Height[task[t].resolution] \in Nat /\ Segments[task[t].src] \in 1..MaxSegments
    BY <1>1, PipelineAssumption
  <2> QED
    BY <2>1, RungsInLadder DEF Left, Output, RungsOf
<1> DEFINE job == [task[t] EXCEPT !.done = task[t].done \cup {f}]
<1>4. job \in TaskOf("transcode", TranscodeSteps)
  BY <1>1, <1>3 DEF TaskOf
<1>5. job.key \in RawKeys /\ job.src \in Contents /\ job.resolution \in Contents
  BY <1>1 DEF TaskOf
<1>6. task' = [task EXCEPT ![t] = job]
  BY <1>2 DEF JobsOK
<1> QED
  <2>1. JobOK(job)
    BY <1>4, <1>5 DEF JobOK, Task
  <2> QED
    BY <1>6, <2>1, SlotUpdate

\* Every step of a job keeps the records of all jobs well formed.
LEMMA WorkerJobsStep ==
    ASSUME TypeOK, JobsOK, NEW t \in TaskIds,
           \/ TaskProgress(t)
           \/ EnqueueTranscodeTwice(t)
           \/ AbortTask(t)
           \/ RequeueTask(t)
    PROVE  JobsOK'
<1>1. CASE StartMetadataExtract(t)
  BY <1>1, GotoOK, AckOK DEF StartMetadataExtract, TaskAt, MetadataSteps
<1>2. CASE ProbeRaw(t)
  BY <1>2, DownloadOK DEF ProbeRaw
<1>3. CASE SaveMetadata(t)
  BY <1>3, GotoOK DEF SaveMetadata, TaskAt, MetadataSteps, JobsOK, JobOK
<1>4. CASE SaveDuration(t)
  BY <1>4, GotoOK DEF SaveDuration, TaskAt, MetadataSteps, JobsOK, JobOK
<1>5. CASE EnqueueTranscode(t)
  <2>1. task[t].key \in RawKeys /\ task[t].src \in Contents
    BY <1>5 DEF EnqueueTranscode, TaskAt, JobsOK, JobOK
  <2>2. JobOK(TranscodeJob(t))
    BY <2>1, JobType, PipelineAssumption DEF JobOK, Job, TranscodeJob
  <2> QED
    BY <1>5, <2>2, SlotUpdate DEF EnqueueTranscode
<1>6. CASE EnqueueTranscodeTwice(t)
  <2>1. task[t].key \in RawKeys /\ task[t].pc # "free" /\ task[t].src \in Contents
    BY <1>6 DEF EnqueueTranscodeTwice, TaskAt, JobsOK, JobOK
  <2>2. JobOK(TranscodeJob(t)) /\ JobOK(Retried(t))
    BY <2>1, JobType, RetriedOK, PipelineAssumption DEF JobOK, Job, TranscodeJob
  <2>3. PICK u \in TaskIds :
          task' = [task EXCEPT ![u] = TranscodeJob(t), ![t] = Retried(t)]
    BY <1>6 DEF EnqueueTranscodeTwice
  <2> QED
    BY <2>2, <2>3 DEF JobsOK, JobOK
<1>7. CASE StartTranscode(t)
  BY <1>7, GotoOK, AckOK DEF StartTranscode, TaskAt, TranscodeSteps, ClaimedSteps
<1>8. CASE ClaimVideo(t)
  BY <1>8, GotoOK DEF ClaimVideo, TaskAt, TranscodeSteps, ClaimedSteps
<1>9. CASE TranscodeRaw(t)
  BY <1>9, DownloadOK DEF TranscodeRaw
<1>10. CASE PutFile(t)
  BY <1>10, PutFileOK
<1>15. CASE PutMaster(t)
  BY <1>15, GotoOK DEF PutMaster, TaskAt, TranscodeSteps, ClaimedSteps
<1>11. CASE SaveHLSMasterKey(t)
  BY <1>11, GotoOK DEF SaveHLSMasterKey, TaskAt, TranscodeSteps, ClaimedSteps
<1>12. CASE MarkReady(t)
  BY <1>12, AckOK DEF MarkReady
<1>13. CASE FailTask(t)
  BY <1>13, RetriedOK, SlotUpdate DEF FailTask
<1>14. CASE AbortTask(t)
  BY <1>14, RetriedOK, SlotUpdate DEF AbortTask, Live
<1>16. CASE RequeueTask(t)
  BY <1>16, RequeuedOK, SlotUpdate DEF RequeueTask, Live
<1> QED
  BY <1>1, <1>2, <1>3, <1>4, <1>5, <1>6, <1>7, <1>8, <1>9, <1>10, <1>11, <1>12, <1>13, <1>14,
     <1>15, <1>16
     DEF TaskProgress

\* Every step of a job keeps the types and the keys.
LEMMA WorkerTypeStep ==
    ASSUME TypeOK, NothingMissing, NEW t \in TaskIds,
           \/ TaskProgress(t)
           \/ EnqueueTranscodeTwice(t)
           \/ AbortTask(t)
           \/ RequeueTask(t)
    PROVE  TypeOK' /\ NothingMissing'
<1>1. JobsOK
  BY DEF JobsOK, JobOK, TypeOK, NothingMissing, Live
<1>2. JobsOK'
  BY <1>1, WorkerJobsStep
<1>3. call' = call /\ urls' = urls /\ raw' = raw
  BY DEF TaskProgress, StartMetadataExtract, ProbeRaw, Download, SaveMetadata, SaveDuration,
         EnqueueTranscode, EnqueueTranscodeTwice, StartTranscode, ClaimVideo, TranscodeRaw,
         PutFile, PutMaster, SaveHLSMasterKey, MarkReady, FailTask, AbortTask, RequeueTask, store
<1>4. /\ video' \in Video /\ lesson' \in Lesson
      /\ video'.status # "ABSENT" => video'.rawKey \in RawKeys
  <2> USE DEF TypeOK, NothingMissing
  <2>1. CASE UNCHANGED rows
    BY <2>1 DEF rows
  <2>2. CASE SaveMetadata(t)
    BY <2>2, RowsType DEF SaveMetadata, TaskAt
  <2>3. CASE SaveDuration(t)
    BY <2>3, RowsType DEF SaveDuration, TaskAt
  <2>4. CASE ClaimVideo(t)
    BY <2>4, RowsType DEF ClaimVideo, Statuses
  <2>5. CASE SaveHLSMasterKey(t)
    BY <2>5, RowsType DEF SaveHLSMasterKey
  <2>6. CASE MarkReady(t)
    BY <2>6, RowsType DEF MarkReady, Statuses
  <2>7. CASE FailTask(t)
    BY <2>7, RowsType DEF FailTask
  <2> QED
    BY <2>1, <2>2, <2>3, <2>4, <2>5, <2>6, <2>7
    DEF TaskProgress, StartMetadataExtract, ProbeRaw, Download, EnqueueTranscode,
        EnqueueTranscodeTwice, StartTranscode, TranscodeRaw, PutFile, PutMaster,
        AbortTask, RequeueTask
<1>5. /\ hls' \in [Files -> Contents \cup {None}]
      /\ master' \subseteq Rungs
  <2>1. CASE UNCHANGED <<hls, master>>
    BY <2>1 DEF TypeOK
  <2>2. CASE PutFile(t)
    <3>1. task[t].src \in Contents
      BY <2>2 DEF PutFile, TaskAt, NothingMissing
    <3> QED
      BY <2>2, <3>1 DEF PutFile, TypeOK
  <2>3. CASE PutMaster(t)
    <3>1. task[t].resolution \in Contents
      BY <2>3 DEF PutMaster, TaskAt, NothingMissing
    <3>2. Height[task[t].resolution] \in Nat /\ 1 \in 1..MaxSegments
      BY <3>1, PipelineAssumption, MaxSegmentsAssumption
    <3> QED
      BY <2>3, <3>1, <3>2, RungsInLadder DEF PutMaster, RungsOf, TypeOK
  <2> QED
    BY <2>1, <2>2, <2>3 DEF TaskProgress, StartMetadataExtract, ProbeRaw, Download,
         SaveMetadata, SaveDuration, EnqueueTranscode, EnqueueTranscodeTwice,
         StartTranscode, ClaimVideo, TranscodeRaw, SaveHLSMasterKey, MarkReady, FailTask,
         AbortTask, RequeueTask, store
<1> QED
  BY <1>2, <1>3, <1>4, <1>5 DEF TypeOK, NothingMissing, JobsOK, JobOK, Live

\* The types and the keys are an invariant of every step of the specification.
LEMMA TypeStep ==
    ASSUME TypeOK, NothingMissing, [Next]_vars
    PROVE  TypeOK' /\ NothingMissing'
<1>1. CASE ApiNext
  BY <1>1, ApiTypeStep DEF ApiNext
<1>2. CASE WorkerNext
  BY <1>2, WorkerTypeStep DEF WorkerNext
<1>7. CASE ShutdownNext
  BY <1>7, WorkerTypeStep DEF ShutdownNext
<1>3. CASE StorageNext
  BY <1>3 DEF StorageNext, ExpireURL, ClientPut, TypeOK, NothingMissing, Live, IdleCall, rows
<1>4. CASE Publish
  BY <1>4, RowsType DEF Publish, TypeOK, NothingMissing, Live, store, Statuses
<1>5. CASE Reap
  BY <1>5, RowsType DEF Reap, ResetStaleUploads, TypeOK, NothingMissing, Live, store, Statuses
<1>6. CASE UNCHANGED vars
  BY <1>6 DEF vars, TypeOK, NothingMissing, Live
<1> QED
  BY <1>1, <1>2, <1>3, <1>4, <1>5, <1>6, <1>7 DEF Next

LEMMA TypeInit ==
    ASSUME Init
    PROVE  TypeOK /\ NothingMissing
  BY PipelineAssumption
     DEF Init, RepoInit, TypeOK, NothingMissing, Video, Lesson, Statuses, Call, CallSteps,
         IdleCall, Task, FreeTask, Live

\* Types and keys are inductive together: a job has a key because the request
\* that made it had one.
LEMMA TypesKept == Spec => []TypeOK /\ []NothingMissing
<1>1. Init => TypeOK /\ NothingMissing
  BY TypeInit
<1>2. TypeOK /\ NothingMissing /\ [Next]_vars => TypeOK' /\ NothingMissing'
  BY TypeStep
<1> QED
  BY <1>1, <1>2, PTL DEF Spec

\* For every value of the constants, all variables keep their types: retries are
\* never overdrawn and a job is at a step of its own kind.
THEOREM TypeCorrect == Spec => []TypeOK
  BY TypesKept, PTL

\* No request or job of upload.go, transcode.go and worker.go is ever without
\* the key, or the content, it is about to use.
THEOREM KeysAreKnown == Spec => []NothingMissing
  BY TypesKept, PTL

================================================================================
