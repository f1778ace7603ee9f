--------------------------- MODULE VideoPipelineSafety ---------------------------
(* The safety properties of VideoPipeline, proved from its type invariant.      *)
EXTENDS VideoPipelineProofs

\* Both rows move together from one of the statuses "from" to the status "to".
StatusMove(from, to) ==
    /\ video.status \in from
    /\ video'.status = to
    /\ lesson'.status = to

StatusKept ==
    /\ video'.status = video.status
    /\ lesson'.status = lesson.status

\* What the writes of repo.go do to the two statuses.
LEMMA RepoMoves ==
    ASSUME TypeOK
    PROVE  /\ \A key \in RawKeys : InsertVideo(key) => StatusMove({"ABSENT"}, "UPLOADING")
           /\ \A key : UpdateVideoForReupload(key) =>
                          StatusMove(Statuses \cup {"ABSENT"}, "UPLOADING")
           /\ \A from, to : TransitionVideoStatus(from, to) => StatusMove({from}, to)
           /\ SetVideoFailed => StatusMove({"QUEUED", "PROCESSING"}, "FAILED") \/ StatusKept
           /\ UNCHANGED rows => StatusKept
           /\ \A content :
                UpdateVideoMetadata(content) \/ UpdateLessonDuration(content) => StatusKept
           /\ UpdateVideoHLSMasterKey => StatusKept
<1> USE DEF TypeOK, Video, Lesson, SetStatus, StatusMove, StatusKept
<1>1. \A key \in RawKeys : InsertVideo(key) => StatusMove({"ABSENT"}, "UPLOADING")
  BY DEF InsertVideo
<1>2. \A key : UpdateVideoForReupload(key) =>
                  StatusMove(Statuses \cup {"ABSENT"}, "UPLOADING")
  BY DEF UpdateVideoForReupload
<1>3. \A from, to : TransitionVideoStatus(from, to) => StatusMove({from}, to)
  BY DEF TransitionVideoStatus
<1>4. SetVideoFailed => StatusMove({"QUEUED", "PROCESSING"}, "FAILED") \/ StatusKept
  BY DEF SetVideoFailed, rows
<1>5. UNCHANGED rows => StatusKept
  BY DEF rows
<1>6. \A content :
        UpdateVideoMetadata(content) \/ UpdateLessonDuration(content) => StatusKept
  BY DEF UpdateVideoMetadata, UpdateLessonDuration
<1>7. UpdateVideoHLSMasterKey => StatusKept
  BY DEF UpdateVideoHLSMasterKey
<1> QED
  BY <1>1, <1>2, <1>3, <1>4, <1>5, <1>6, <1>7

\* A request moves the two statuses by an upload, a completion, a retry, or
\* the failure of an oversized upload.
LEMMA ApiMoves ==
    ASSUME TypeOK, NothingMissing, ApiNext
    PROVE  \/ StatusKept
           \/ StatusMove({"ABSENT"}, "UPLOADING")
           \/ StatusMove(Statuses \cup {"ABSENT"}, "UPLOADING")
           \/ StatusMove({"UPLOADING"}, "QUEUED")
           \/ StatusMove({"FAILED"}, "QUEUED")
           \/ StatusMove({"QUEUED", "PROCESSING"}, "FAILED")
<1>1. PICK c \in Calls :
        \/ CallProgress(c)
        \/ BeginRequestUpload(c)
        \/ BeginCompleteUpload(c)
        \/ BeginRetranscode(c)
        \/ AbandonCall(c)
  BY DEF ApiNext
<1>2. CASE UNCHANGED rows
  BY <1>2, RepoMoves
<1>3. CASE SaveFirstUpload(c)
  <2>1. call[c].key \in RawKeys
    BY <1>3 DEF SaveFirstUpload, CallStep, Return, NothingMissing, IdleCall
  <2> QED
    BY <1>3, <2>1, RepoMoves DEF SaveFirstUpload
<1>4. CASE SaveReupload(c)
  BY <1>4, RepoMoves DEF SaveReupload
<1>5. CASE RejectTooLarge(c)
  BY <1>5, RepoMoves DEF RejectTooLarge
<1>6. CASE CommitCompleteUpload(c)
  BY <1>6, RepoMoves DEF CommitCompleteUpload, EnterQueue, TransitionMissed
<1>7. CASE CommitRetranscode(c)
  BY <1>7, RepoMoves DEF CommitRetranscode, EnterQueue, TransitionMissed
<1> QED
  BY <1>1, <1>2, <1>3, <1>4, <1>5, <1>6, <1>7
     DEF CallProgress, IssueTicket, HeadRawObject, EnqueueMetadataExtract,
         BeginRequestUpload, BeginCompleteUpload, BeginRetranscode, Begin, AbandonCall

\* A job moves them out of QUEUED or PROCESSING only.
LEMMA WorkerMoves ==
    ASSUME TypeOK, WorkerNext
    PROVE  \/ StatusKept
           \/ StatusMove({"QUEUED"}, "PROCESSING")
           \/ /\ StatusMove({"PROCESSING"}, "READY")
              /\ \E t \in TaskIds : MarkReady(t)
           \/ StatusMove({"QUEUED", "PROCESSING"}, "FAILED")
<1>1. PICK t \in TaskIds : TaskProgress(t) \/ EnqueueTranscodeTwice(t) \/ AbortTask(t)
  BY DEF WorkerNext
<1>2. CASE UNCHANGED rows
  BY <1>2, RepoMoves
<1>3. CASE SaveMetadata(t)
  BY <1>3, RepoMoves DEF SaveMetadata
<1>4. CASE SaveDuration(t)
  BY <1>4, RepoMoves DEF SaveDuration
<1>5. CASE ClaimVideo(t)
  BY <1>5, RepoMoves DEF ClaimVideo, TransitionMissed
<1>6. CASE SaveHLSMasterKey(t)
  BY <1>6, RepoMoves DEF SaveHLSMasterKey
<1>7. CASE MarkReady(t)
  BY <1>7, RepoMoves DEF MarkReady, TransitionMissed
<1>8. CASE FailTask(t)
  BY <1>8, RepoMoves DEF FailTask
<1> QED
  BY <1>1, <1>2, <1>3, <1>4, <1>5, <1>6, <1>7, <1>8
     DEF TaskProgress, StartMetadataExtract, ProbeRaw, Download, EnqueueTranscode,
         EnqueueTranscodeTwice, StartTranscode, TranscodeRaw, PutFile, PutMaster,
         AbortTask

\* The remaining steps: the transfers, a shutdown, the publication and the reaper.
LEMMA OtherMoves ==
    ASSUME TypeOK, StorageNext \/ ShutdownNext \/ Publish \/ Reap \/ UNCHANGED vars
    PROVE  \/ StatusKept
           \/ StatusMove({"READY"}, "PUBLISHED")
           \/ StatusMove({"UPLOADING"}, "DRAFT")
<1>1. CASE StorageNext
  BY <1>1, RepoMoves DEF StorageNext, ExpireURL, ClientPut
<1>2. CASE Publish
  BY <1>2, RepoMoves DEF Publish
<1>3. CASE Reap
  BY <1>3, RepoMoves DEF Reap, ResetStaleUploads
<1>4. CASE UNCHANGED vars
  BY <1>4 DEF vars, StatusKept
<1>5. CASE ShutdownNext
  BY <1>5, RepoMoves DEF ShutdownNext, RequeueTask
<1> QED
  BY <1>1, <1>2, <1>3, <1>4, <1>5

-------------------------------------------------------------------------------

LEMMA MirrorStep ==
    ASSUME TypeOK, NothingMissing, LessonMirrorsVideo, [Next]_vars
    PROVE  LessonMirrorsVideo'
<1> USE DEF LessonMirrorsVideo, StatusMove, StatusKept
<1>1. CASE ApiNext
  BY <1>1, ApiMoves
<1>2. CASE WorkerNext
  BY <1>2, WorkerMoves
<1>3. CASE StorageNext \/ ShutdownNext \/ Publish \/ Reap \/ UNCHANGED vars
  BY <1>3, OtherMoves
<1> QED
  BY <1>1, <1>2, <1>3 DEF Next

\* The lesson row always shows the status of its video, whatever interleaves.
THEOREM LessonMirrors == Spec => []LessonMirrorsVideo
<1>1. Init => TypeOK /\ NothingMissing /\ LessonMirrorsVideo
  BY TypeInit DEF Init, RepoInit, LessonMirrorsVideo
<1>2. TypeOK /\ NothingMissing /\ LessonMirrorsVideo /\ [Next]_vars
          => TypeOK' /\ NothingMissing' /\ LessonMirrorsVideo'
  BY TypeStep, MirrorStep
<1> QED
  BY <1>1, <1>2, PTL DEF Spec

\* A step of the detailed specification, seen through the lesson row, is a step
\* of the lifecycle or leaves it alone.
LEMMA LifecycleStep ==
    ASSUME TypeOK, NothingMissing, LessonMirrorsVideo, [Next]_vars
    PROVE  [Lifecycle!Next]_(lesson.status)
<1> USE DEF LessonMirrorsVideo, StatusMove, StatusKept, Lifecycle!Next, Lifecycle!Move,
            Lifecycle!Upload, Lifecycle!Complete, Lifecycle!Claim, Lifecycle!Finish,
            Lifecycle!Fail, Lifecycle!Retry, Lifecycle!Publish, Lifecycle!Reset
<1>1. lesson.status \in Statuses
  BY DEF TypeOK, Lesson
<1>2. CASE ApiNext
  BY <1>1, <1>2, ApiMoves DEF Statuses
<1>3. CASE WorkerNext
  BY <1>3, WorkerMoves
<1>4. CASE StorageNext \/ ShutdownNext \/ Publish \/ Reap \/ UNCHANGED vars
  BY <1>4, OtherMoves
<1> QED
  BY <1>2, <1>3, <1>4 DEF Next

\* The pipeline implements the lifecycle, with any number of stale requests,
\* retried jobs and redeliveries.
THEOREM ImplementsLifecycle == Spec => LifecycleSpec
<1>1. Init => TypeOK /\ NothingMissing /\ LessonMirrorsVideo /\ Lifecycle!Init
  BY TypeInit DEF Init, RepoInit, LessonMirrorsVideo, Lifecycle!Init
<1>2. TypeOK /\ NothingMissing /\ LessonMirrorsVideo /\ [Next]_vars
          => TypeOK' /\ NothingMissing' /\ LessonMirrorsVideo'
  BY TypeStep, MirrorStep
<1>3. TypeOK /\ NothingMissing /\ LessonMirrorsVideo /\ [Next]_vars
          => [Lifecycle!Next]_(lesson.status)
  BY LifecycleStep
<1> QED
  BY <1>1, <1>2, <1>3, PTL DEF Spec, LifecycleSpec, Lifecycle!Spec

\* Whatever a job last read, its writes move the status of a video only while
\* the video is QUEUED or PROCESSING.
THEOREM WorkerMovesInProcessing == Spec => WorkerOnlyMovesInProcessing
<1>1. ASSUME TypeOK, NothingMissing, [Next]_vars, task' # task,
             video'.status # video.status
      PROVE  InProcessing
  <2>1. CASE ApiNext
    <3>1. PICK c \in Calls :
            \/ CallProgress(c)
            \/ BeginRequestUpload(c)
            \/ BeginCompleteUpload(c)
            \/ BeginRetranscode(c)
            \/ AbandonCall(c)
      BY <2>1 DEF ApiNext
    <3>2. EnqueueMetadataExtract(c)
      BY <1>1, <3>1 DEF CallProgress, SaveFirstUpload, SaveReupload, IssueTicket,
           HeadRawObject, RejectTooLarge, CommitCompleteUpload, CommitRetranscode,
           EnterQueue, BeginRequestUpload, BeginCompleteUpload, BeginRetranscode,
           Begin, AbandonCall
    <3> QED
      BY <1>1, <3>2 DEF EnqueueMetadataExtract, rows
  <2>2. CASE WorkerNext
    BY <1>1, <2>2, WorkerMoves DEF StatusMove, StatusKept, InProcessing
  <2>3. CASE StorageNext \/ ShutdownNext \/ Publish \/ Reap \/ UNCHANGED vars
    BY <1>1, <2>3, OtherMoves DEF StorageNext, ExpireURL, ClientPut, ShutdownNext,
         RequeueTask, Publish, Reap, vars, rows
  <2> QED
    BY <1>1, <2>1, <2>2, <2>3 DEF Next
<1>2. TypeOK /\ NothingMissing /\ [Next]_vars
          => [task' # task /\ video'.status # video.status => InProcessing]_vars
  BY <1>1
<1> QED
  BY <1>2, TypesKept, PTL DEF Spec, WorkerOnlyMovesInProcessing

-------------------------------------------------------------------------------

\* How far the ladder in storage has come when a job is at a step: the files
\* it has put are there, and a master playlist once it is past the uploads.
Uploaded(job) ==
    /\ \A f \in job.done : hls[f] # None
    /\ job.pc \in {"key", "ready"} => master # {}

\* The rungs master.m3u8 lists have the whole ladder of some upload.
MasterIsBacked == master # {} => \E content \in Contents : Backed(master, content)

LadderInv == MasterIsBacked /\ \A t \in TaskIds : Uploaded(task[t])

\* A file that is in storage is never removed: jobs only put files.
LEMMA FilesStay ==
    ASSUME TypeOK, NothingMissing, [Next]_vars, NEW f \in Files, hls[f] # None
    PROVE  hls'[f] # None
<1>1. CASE \E t \in TaskIds : PutFile(t)
  <2>1. PICK t \in TaskIds : PutFile(t)
    BY <1>1
  <2>2. task[t].src # None
    BY <2>1, NoneAssumption DEF PutFile, TaskAt, NothingMissing
  <2> QED
    BY <2>1, <2>2 DEF PutFile, TypeOK
<1>2. CASE ~(\E t \in TaskIds : PutFile(t))
  <2>1. UNCHANGED hls
    BY <1>2 DEF Next, vars, store, ApiNext, CallProgress, SaveFirstUpload, SaveReupload,
         IssueTicket, HeadRawObject, RejectTooLarge, CommitCompleteUpload,
         CommitRetranscode, EnterQueue, EnqueueMetadataExtract, BeginRequestUpload,
         BeginCompleteUpload, BeginRetranscode, Begin, AbandonCall, WorkerNext,
         TaskProgress, StartMetadataExtract, ProbeRaw, Download, SaveMetadata,
         SaveDuration, EnqueueTranscode, EnqueueTranscodeTwice, StartTranscode,
         ClaimVideo, TranscodeRaw, PutMaster, SaveHLSMasterKey, MarkReady, FailTask,
         AbortTask, ShutdownNext, RequeueTask, StorageNext, ExpireURL, ClientPut,
         Publish, Reap
  <2> QED
    BY <2>1
<1> QED
  BY <1>1, <1>2

\* The rungs of a job, which are known once it is about to put files.
LEMMA RungsOK ==
    ASSUME TypeOK, NothingMissing, NEW t \in TaskIds, task[t].kind = "transcode"
    PROVE  /\ RungsOf(t) \subseteq Rungs /\ RungsOf(t) # {}
           /\ task[t].pc = "put" => Output(t) \subseteq Files
<1>1. Height[task[t].resolution] \in Nat /\ 1 \in 1..MaxSegments
  BY PipelineAssumption, MaxSegmentsAssumption DEF NothingMissing
<1>2. RungsOf(t) \subseteq Rungs /\ RungsOf(t) # {}
  BY <1>1, RungsInLadder DEF RungsOf
<1>3. ASSUME task[t].pc = "put"
      PROVE  Output(t) \subseteq Files
  <2>1. Segments[task[t].src] \in 1..MaxSegments
    BY <1>3, PipelineAssumption DEF NothingMissing
  <2> QED
    BY <1>1, <2>1, RungsInLadder DEF RungsOf, Output
<1> QED
  BY <1>2, <1>3

\* master.m3u8 is replaced by that of a job that has put all its files.
LEMMA MasterMoves ==
    ASSUME TypeOK, NothingMissing, [Next]_vars, master' # master
    PROVE  \E t \in TaskIds :
              /\ PutMaster(t)
              /\ master' = RungsOf(t) /\ master' # {}
              /\ task[t].src \in Contents
              /\ Transcode(master', Segments[task[t].src]) \subseteq task[t].done
<1>1. PICK t \in TaskIds : PutMaster(t)
  BY DEF Next, vars, store, ApiNext, CallProgress, SaveFirstUpload, SaveReupload,
         IssueTicket, HeadRawObject, RejectTooLarge, CommitCompleteUpload,
         CommitRetranscode, EnterQueue, EnqueueMetadataExtract, BeginRequestUpload,
         BeginCompleteUpload, BeginRetranscode, Begin, AbandonCall, WorkerNext,
         TaskProgress, StartMetadataExtract, ProbeRaw, Download, SaveMetadata,
         SaveDuration, EnqueueTranscode, EnqueueTranscodeTwice, StartTranscode,
         ClaimVideo, TranscodeRaw, PutFile, SaveHLSMasterKey, MarkReady, FailTask,
         AbortTask, ShutdownNext, RequeueTask, StorageNext, ExpireURL, ClientPut,
         Publish, Reap
<1>2. /\ master' = RungsOf(t) /\ Left(t) = {} /\ task[t].kind = "transcode"
      /\ task[t].src \in Contents
  BY <1>1 DEF PutMaster, TaskAt, NothingMissing
<1> QED
  BY <1>1, <1>2, RungsOK DEF Left, Output

\* The ladder of a content is part of the files there can be.
LEMMA LadderFiles ==
    ASSUME NEW rungs \in SUBSET Rungs, NEW content \in Contents
    PROVE  Transcode(rungs, Segments[content]) \subseteq Files
<1>1. Segments[content] \in 1..MaxSegments
  BY PipelineAssumption
<1>2. Playlist..Segments[content] \subseteq Playlist..MaxSegments
  BY <1>1, MaxSegmentsAssumption DEF Playlist
<1> QED
  BY <1>2 DEF Transcode, Files

LEMMA MasterBackedStep ==
    ASSUME TypeOK, NothingMissing, LadderInv, [Next]_vars
    PROVE  MasterIsBacked'
<1>1. \A content \in Contents : Transcode(master, Segments[content]) \subseteq Files
  BY LadderFiles DEF TypeOK
<1>2. CASE master' = master
  <2>1. SUFFICES ASSUME master # {}
                 PROVE  \E content \in Contents : Backed(master, content)'
    BY <1>2 DEF MasterIsBacked
  <2>2. PICK content \in Contents : Backed(master, content)
    BY <2>1 DEF LadderInv, MasterIsBacked
  <2>3. \A f \in Transcode(master, Segments[content]) : hls'[f] # None
    BY <1>1, <2>2, FilesStay DEF Backed
  <2> QED
    BY <1>2, <2>3 DEF Backed
<1>3. CASE master' # master
  <2>1. PICK t \in TaskIds :
          /\ PutMaster(t) /\ task[t].src \in Contents
          /\ Transcode(master', Segments[task[t].src]) \subseteq task[t].done
    BY <1>3, MasterMoves
  <2>2. hls' = hls /\ \A f \in task[t].done : hls[f] # None
    BY <2>1 DEF PutMaster, LadderInv, Uploaded
  <2>3. \A f \in Transcode(master', Segments[task[t].src]) : hls'[f] # None
    BY <2>1, <2>2
  <2> QED
    BY <2>1, <2>3 DEF MasterIsBacked, Backed
<1> QED
  BY <1>2, <1>3

\* A move within a handler changes the step and nothing else.
LEMMA GotoMoves ==
    ASSUME TypeOK, NEW t \in TaskIds, NEW to, Goto(t, to)
    PROVE  /\ task'[t].pc = to
           /\ task'[t].kind = task[t].kind
           /\ task'[t].done = task[t].done
           /\ \A u \in TaskIds \ {t} : task'[u] = task[u]
<1>1. task[t] \in Task /\ task'[t] = [task[t] EXCEPT !.pc = to]
  BY DEF TypeOK, Goto
<1> QED
  BY <1>1 DEF Task, TaskOf, FreeTask, Goto, TypeOK

\* A download changes the step and the content of its job and nothing else.
LEMMA DownloadMoves ==
    ASSUME TypeOK, NEW t \in TaskIds, NEW kind, NEW from, NEW to,
           Download(t, kind, from, to)
    PROVE  /\ task[t].kind = kind /\ task[t].pc = from
           /\ task'[t].kind = kind /\ task'[t].pc = to
           /\ task'[t].done = task[t].done
           /\ \A u \in TaskIds \ {t} : task'[u] = task[u]
<1>1. task[t] \in Task /\ task'[t] = [task[t] EXCEPT !.pc = to, !.src = raw[task[t].key]]
  BY DEF Download, TypeOK
<1>2. task'[t].kind = task[t].kind /\ task'[t].pc = to /\ task'[t].done = task[t].done
  BY <1>1 DEF Task, TaskOf, FreeTask
<1> QED
  BY <1>2 DEF Download, TaskAt, TypeOK

\* The step of one job keeps what its own record promises.
LEMMA ActorLadder ==
    ASSUME TypeOK, NothingMissing, LadderInv, NEW t \in TaskIds,
           TaskProgress(t) \/ AbortTask(t) \/ RequeueTask(t)
    PROVE  Uploaded(task[t])'
<1> USE DEF TaskAt
<1>1. /\ Retried(t).pc \in {"free", "queued"} /\ Retried(t).done = {}
      /\ Requeued(t).pc = "queued" /\ Requeued(t).done = {}
  BY DEF Retried, Requeued, Job, FreeTask
<1>0. ASSUME UNCHANGED <<hls, master>>, task'[t].done \in {task[t].done, {}},
             task'[t].pc \in {"key", "ready"} => task[t].pc \in {"key", "ready"}
      PROVE  Uploaded(task[t])'
  BY <1>0 DEF LadderInv, Uploaded
<1>16. ASSUME NEW job, task' = [task EXCEPT ![t] = job]
       PROVE  task'[t] = job
  BY <1>16 DEF TypeOK
<1>2. CASE StartMetadataExtract(t)
  BY <1>0, <1>2, <1>16, GotoMoves DEF StartMetadataExtract, Ack, FreeTask, store
<1>3. CASE ProbeRaw(t)
  <2>1. Download(t, "metadata", "extract", "metadata")
    BY <1>3 DEF ProbeRaw
  <2> QED
    BY <1>0, <2>1, DownloadMoves DEF Download, store
<1>4. CASE SaveMetadata(t)
  BY <1>0, <1>4, GotoMoves DEF SaveMetadata, store
<1>5. CASE SaveDuration(t)
  BY <1>0, <1>5, GotoMoves DEF SaveDuration, store
<1>6. CASE EnqueueTranscode(t)
  BY <1>0, <1>6, <1>16 DEF EnqueueTranscode, TranscodeJob, Job, store
<1>7. CASE StartTranscode(t)
  BY <1>0, <1>7, <1>16, GotoMoves DEF StartTranscode, Ack, FreeTask, store
<1>8. CASE ClaimVideo(t)
  BY <1>0, <1>8, GotoMoves DEF ClaimVideo, store
<1>9. CASE TranscodeRaw(t)
  <2>1. Download(t, "transcode", "download", "put")
    BY <1>9 DEF TranscodeRaw
  <2>2. task'[t].pc = "put" /\ task'[t].done = task[t].done
    BY <2>1, DownloadMoves
  <2>3. UNCHANGED <<hls, master>>
    BY <2>1 DEF Download, store
  <2> QED
    BY <1>0, <2>2, <2>3
<1> USE DEF LadderInv, Uploaded, TypeOK
<1>10. CASE PutFile(t)
  <2>1. task[t].src # None /\ task[t].kind = "transcode" /\ task[t].pc = "put"
    BY <1>10, NoneAssumption DEF PutFile, NothingMissing
  <2>2. PICK f \in Left(t) : /\ hls' = [hls EXCEPT ![f] = task[t].src]
                             /\ task' = [task EXCEPT ![t].done = @ \cup {f}]
    BY <1>10 DEF PutFile
  <2>3. f \in Files
    BY <2>1, RungsOK DEF Left
  <2>4. task[t] \in TaskOf("transcode", TranscodeSteps)
    BY <2>1 DEF Task, TaskOf, FreeTask
  <2>5. task'[t].done = task[t].done \cup {f} /\ task'[t].pc = "put"
    BY <2>1, <2>2, <2>4 DEF TaskOf
  <2>6. hls'[f] # None /\ \A g \in task[t].done : hls'[g] # None
    <3>1. hls' \in [Files -> Contents \cup {None, task[t].src}] /\ task[t].done \subseteq Files
      BY <2>2, <2>4 DEF TaskOf
    <3>2. \A g \in Files : hls'[g] = IF g = f THEN task[t].src ELSE hls[g]
      BY <2>2, <2>3
    <3>3. \A g \in task[t].done : hls[g] # None
      OBVIOUS
    <3> QED
      BY <2>1, <2>3, <3>1, <3>2, <3>3
  <2> QED
    BY <2>5, <2>6
<1>15. CASE PutMaster(t)
  <2>1. master' # {}
    BY <1>15, RungsOK DEF PutMaster
  <2>2. task'[t].done = task[t].done
    BY <1>15, GotoMoves DEF PutMaster
  <2> QED
    BY <1>15, <2>1, <2>2 DEF PutMaster
<1>11. CASE SaveHLSMasterKey(t)
  BY <1>11 DEF SaveHLSMasterKey, Goto, store
<1>12. CASE MarkReady(t)
  BY <1>12 DEF MarkReady, Ack, FreeTask
<1>13. CASE FailTask(t)
  BY <1>1, <1>13 DEF FailTask
<1>14. CASE AbortTask(t)
  BY <1>1, <1>14 DEF AbortTask
<1>17. CASE RequeueTask(t)
  BY <1>1, <1>17 DEF RequeueTask
<1> QED
  BY <1>17, <1>2, <1>3, <1>4, <1>5, <1>6, <1>7, <1>8, <1>9, <1>10, <1>11, <1>12, <1>13, <1>14, <1>15
     DEF TaskProgress

\* A job that does not take the step is as it was, and so are its files.
LEMMA OtherLadder ==
    ASSUME TypeOK, NothingMissing, LadderInv, [Next]_vars,
           NEW u \in TaskIds, task'[u] = task[u]
    PROVE  Uploaded(task[u])'
<1>1. \A f \in task[u].done : f \in Files
  BY DEF TypeOK, Task, TaskOf, FreeTask
<1>2. \A f \in task[u].done : hls'[f] # None
  BY <1>1, FilesStay DEF LadderInv, Uploaded
<1>3. master # {} => master' # {}
  BY MasterMoves
<1> QED
  BY <1>2, <1>3 DEF LadderInv, Uploaded

LEMMA LadderStep ==
    ASSUME TypeOK, NothingMissing, LadderInv, [Next]_vars
    PROVE  LadderInv'
<1>1. ASSUME NEW u \in TaskIds, task'[u] # task[u]
      PROVE  Uploaded(task[u])'
  <2>1. CASE \E c \in Calls : EnqueueMetadataExtract(c)
    BY <1>1, <2>1 DEF EnqueueMetadataExtract, Uploaded, Job, TypeOK
  <2>2. CASE \E t \in TaskIds : TaskProgress(t) \/ AbortTask(t) \/ RequeueTask(t)
    <3>1. PICK t \in TaskIds : TaskProgress(t) \/ AbortTask(t) \/ RequeueTask(t)
      BY <2>2
    <3>2. \A x \in TaskIds \ {t} : task'[x] = task[x]
      BY <3>1 DEF TypeOK, TaskProgress, StartMetadataExtract, ProbeRaw, Download,
           SaveMetadata, SaveDuration, EnqueueTranscode, StartTranscode, ClaimVideo,
           TranscodeRaw, PutFile, PutMaster, SaveHLSMasterKey, MarkReady, FailTask,
           AbortTask, RequeueTask, Goto, Ack
    <3> QED
      BY <1>1, <3>1, <3>2, ActorLadder
  <2>3. CASE \E t \in TaskIds : EnqueueTranscodeTwice(t)
    BY <1>1, <2>3 DEF EnqueueTranscodeTwice, TranscodeJob, Uploaded, Job, Retried, FreeTask, TypeOK
  <2> QED
    BY <1>1, <2>1, <2>2, <2>3
       DEF Next, vars, ApiNext, CallProgress, SaveFirstUpload, SaveReupload,
           IssueTicket, HeadRawObject, RejectTooLarge, CommitCompleteUpload,
           CommitRetranscode, EnterQueue, BeginRequestUpload, BeginCompleteUpload,
           BeginRetranscode, Begin, AbandonCall, WorkerNext, ShutdownNext,
           StorageNext, ExpireURL, ClientPut, Publish, Reap
<1> QED
  BY <1>1, OtherLadder, MasterBackedStep DEF LadderInv

\* A video becomes playable by MarkReady, whose job has put every file, and
\* stays so by Publish; the files stay.
LEMMA CompleteStep ==
    ASSUME TypeOK, NothingMissing, LadderInv, ReadyIsComplete, [Next]_vars
    PROVE  ReadyIsComplete'
<1>1. SUFFICES ASSUME Playable'
               PROVE  master # {} /\ (master # {} => master' # {}) /\ MasterIsBacked'
  BY DEF ReadyIsComplete, MasterIsBacked
<1>2. (master # {} => master' # {}) /\ MasterIsBacked'
  BY MasterMoves, MasterBackedStep
<1>3. CASE Playable
  BY <1>2, <1>3 DEF ReadyIsComplete
<1>4. CASE ~Playable
  <2>1. \E t \in TaskIds : MarkReady(t)
    <3> USE DEF Playable, StatusMove, StatusKept
    <3>1. CASE ApiNext
      BY <1>1, <1>4, <3>1, ApiMoves
    <3>2. CASE WorkerNext
      BY <1>1, <1>4, <3>2, WorkerMoves
    <3>3. CASE StorageNext \/ ShutdownNext \/ Publish \/ Reap \/ UNCHANGED vars
      BY <1>1, <1>4, <3>3, OtherMoves
    <3> QED
      BY <3>1, <3>2, <3>3 DEF Next
  <2> QED
    BY <1>2, <2>1 DEF MarkReady, TaskAt, LadderInv, Uploaded
<1> QED
  BY <1>3, <1>4

\* The ladder invariant holds, whoever else uses the pipeline.
LEMMA LadderKept == Spec => [](TypeOK /\ NothingMissing /\ LadderInv)
<1>1. Init => TypeOK /\ NothingMissing /\ LadderInv
  BY TypeInit DEF Init, RepoInit, LadderInv, MasterIsBacked, Uploaded, FreeTask
<1>2. TypeOK /\ NothingMissing /\ LadderInv /\ [Next]_vars
          => TypeOK' /\ NothingMissing' /\ LadderInv'
  BY TypeStep, LadderStep
<1> QED
  BY <1>1, <1>2, PTL DEF Spec

\* A READY or PUBLISHED video has a master playlist, and the whole ladder of some
\* upload at its rungs, with any number of stale, failed, repeated and concurrent
\* jobs, of longer, shorter, taller and lower uploads, writing the same files.
THEOREM ReadyComplete == Spec => []ReadyIsComplete
<1>1. Init => ReadyIsComplete
  BY DEF Init, RepoInit, ReadyIsComplete, Playable
<1>2. TypeOK /\ NothingMissing /\ LadderInv /\ ReadyIsComplete /\ [Next]_vars
          => ReadyIsComplete'
  BY CompleteStep
<1> QED
  BY <1>1, <1>2, LadderKept, PTL DEF Spec

-------------------------------------------------------------------------------
(* Jobs come to an end *)

\* Among the jobs asynq holds "closer to the end" is a strict order: no job
\* comes back to where it was.
LEMMA CloserIsOrder ==
    ASSUME NEW i \in Task \ {FreeTask}, NEW j \in Task \ {FreeTask},
           NEW k \in Task \ {FreeTask}
    PROVE  /\ ~CloserToEnd(i, i)
           /\ CloserToEnd(i, j) /\ CloserToEnd(j, k) => CloserToEnd(i, k)
<1>1. ASSUME NEW job \in Task \ {FreeTask}
      PROVE  /\ job.kind \in {"metadata", "transcode"}
             /\ job.tries \in Nat
             /\ StepNumber[job.pc] \in Nat
  <2>1. job \in TaskOf("metadata", MetadataSteps) \/ job \in TaskOf("transcode", TranscodeSteps)
    BY DEF Task
  <2> QED
    BY <2>1, PipelineAssumption
       DEF TaskOf, StepNumber, MetadataSteps, TranscodeSteps, ClaimedSteps
<1>2. ~CloserToEnd(i, i)
  BY <1>1 DEF CloserToEnd
<1>3. ASSUME CloserToEnd(i, j), CloserToEnd(j, k)
      PROVE  CloserToEnd(i, k)
  <2>1. /\ i.tries \in Nat /\ j.tries \in Nat /\ k.tries \in Nat
        /\ StepNumber[i.pc] \in Nat /\ StepNumber[j.pc] \in Nat /\ StepNumber[k.pc] \in Nat
        /\ i.kind \in {"metadata", "transcode"} /\ j.kind \in {"metadata", "transcode"}
        /\ k.kind \in {"metadata", "transcode"}
    BY <1>1
  <2>2. CASE i.kind # j.kind \/ j.kind # k.kind
    BY <1>3, <2>1, <2>2 DEF CloserToEnd
  <2>3. CASE i.kind = j.kind /\ j.kind = k.kind /\ i.tries # k.tries
    BY <1>3, <2>1, <2>3 DEF CloserToEnd
  <2>4. CASE i.kind = j.kind /\ j.kind = k.kind /\ i.tries = k.tries
    BY <1>3, <2>1, <2>4 DEF CloserToEnd
  <2> QED
    BY <2>2, <2>3, <2>4
<1> QED
  BY <1>2, <1>3

\* How the record of a job changes: the field pc by a move within its handler,
\* pc and src by a download, everything by a repetition.
LEMMA RecordMoves ==
    ASSUME TypeOK, NEW t \in TaskIds, Live(t)
    PROVE  /\ \A to : Goto(t, to) =>
                task'[t].pc = to /\ task'[t].kind = task[t].kind
                /\ task'[t].key = task[t].key /\ task'[t].tries = task[t].tries
           /\ \A kind, from, to : Download(t, kind, from, to) =>
                task'[t].pc = to /\ task'[t].kind = task[t].kind
                /\ task'[t].key = task[t].key /\ task'[t].tries = task[t].tries
           /\ Retried(t) = FreeTask
              \/ /\ Retried(t).kind = task[t].kind /\ Retried(t).key = task[t].key
                 /\ Retried(t).tries < task[t].tries
           /\ task[t].kind \in {"metadata", "transcode"}
<1>1. task[t] \in TaskOf("metadata", MetadataSteps) \/ task[t] \in TaskOf("transcode", TranscodeSteps)
  BY DEF TypeOK, Live, Task, FreeTask
<1>2. Retried(t) = FreeTask
      \/ /\ Retried(t).kind = task[t].kind /\ Retried(t).key = task[t].key
         /\ Retried(t).tries < task[t].tries
  <2>1. task[t].tries \in Nat
    BY <1>1, PipelineAssumption DEF TaskOf
  <2> QED
    BY <2>1 DEF Retried, Job
<1>3. ASSUME NEW to, Goto(t, to)
      PROVE  /\ task'[t].pc = to /\ task'[t].kind = task[t].kind
             /\ task'[t].key = task[t].key /\ task'[t].tries = task[t].tries
  <2>1. task'[t] = [task[t] EXCEPT !.pc = to]
    BY <1>3 DEF Goto, TypeOK
  <2> QED
    BY <1>1, <2>1 DEF TaskOf
<1>4. ASSUME NEW kind, NEW from, NEW to, Download(t, kind, from, to)
      PROVE  /\ task'[t].pc = to /\ task'[t].kind = task[t].kind
             /\ task'[t].key = task[t].key /\ task'[t].tries = task[t].tries
  <2>1. task'[t] = [task[t] EXCEPT !.pc = to, !.src = raw[task[t].key]]
    BY <1>4 DEF Download, TypeOK
  <2> QED
    BY <1>1, <2>1 DEF TaskOf
<1>5. task[t].kind \in {"metadata", "transcode"}
  BY <1>1 DEF TaskOf
<1> QED
  BY <1>2, <1>3, <1>4, <1>5

\* A job that takes a step gets closer to its end, keeps the key it was enqueued
\* with, and is the only one to move.
LEMMA JobStep ==
    ASSUME TypeOK, NothingMissing, NEW t \in TaskIds, TaskProgress(t) \/ AbortTask(t)
    PROVE  /\ Live(t)
           /\ UNCHANGED call
           /\ \A u \in TaskIds \ {t} : task'[u] = task[u]
           /\ CloserToEnd(task'[t], task[t])
           /\ Live(t)' => task'[t].key = task[t].key
<1> USE DEF TaskProgress, StartMetadataExtract, ProbeRaw, Download, SaveMetadata,
       SaveDuration, EnqueueTranscode, StartTranscode, ClaimVideo, TranscodeRaw, PutFile,
       PutMaster, SaveHLSMasterKey, MarkReady, FailTask, AbortTask, TaskAt
<1>1. Live(t)
  BY DEF Live
<1>2. PICK job : task' = [task EXCEPT ![t] = job]
  <2>1. CASE PutFile(t)
    BY <2>1 DEF PutFile, TypeOK
  <2>2. CASE ~PutFile(t)
    BY <2>2 DEF TaskProgress, StartMetadataExtract, ProbeRaw, Download, SaveMetadata,
         SaveDuration, EnqueueTranscode, StartTranscode, ClaimVideo, TranscodeRaw,
         PutMaster, SaveHLSMasterKey, MarkReady, FailTask, AbortTask, Goto, Ack, TypeOK
  <2> QED
    BY <2>1, <2>2
<1>3. /\ \A u \in TaskIds \ {t} : task'[u] = task[u]
      /\ task'[t] = job
  BY <1>2 DEF TypeOK
<1>4. SUFFICES CloserToEnd(task'[t], task[t]) /\ (Live(t)' => task'[t].key = task[t].key)
  BY <1>1, <1>3
<1> USE DEF CloserToEnd, StepNumber, TaskAt
<1>5. task[t].kind \in {"metadata", "transcode"}
  BY <1>1, RecordMoves
<1>6. CASE Ack(t)
  <2>1. task'[t] = FreeTask
    BY <1>6 DEF Ack, TypeOK
  <2> QED
    BY <1>5, <2>1 DEF FreeTask, Live
<1>7. ASSUME NEW to, Goto(t, to), StepNumber[to] > StepNumber[task[t].pc]
      PROVE  CloserToEnd(task'[t], task[t]) /\ (Live(t)' => task'[t].key = task[t].key)
  BY <1>1, <1>7, RecordMoves
<1>8. CASE StartMetadataExtract(t) \/ StartTranscode(t)
  BY <1>6, <1>7, <1>8 DEF StartMetadataExtract, StartTranscode
<1>9. CASE ProbeRaw(t) \/ TranscodeRaw(t)
  BY <1>1, <1>9, RecordMoves DEF ProbeRaw, TranscodeRaw, Download
<1>10. CASE SaveMetadata(t) \/ SaveDuration(t) \/ ClaimVideo(t) \/ PutMaster(t) \/ SaveHLSMasterKey(t)
  BY <1>7, <1>10 DEF SaveMetadata, SaveDuration, ClaimVideo, PutMaster, SaveHLSMasterKey
<1>11. CASE EnqueueTranscode(t)
  <2>1. task[t].kind = "metadata" /\ task'[t] = Job("transcode", task[t].key, task[t].src, MaxRetry)
    BY <1>11 DEF EnqueueTranscode, TranscodeJob, TypeOK
  <2> QED
    BY <2>1 DEF Job
<1>12. CASE PutFile(t)
  <2>1. PICK f : f \notin task[t].done /\ task' = [task EXCEPT ![t].done = @ \cup {f}]
    BY <1>12 DEF PutFile, Left
  <2>2. task[t] \in TaskOf("transcode", TranscodeSteps)
    BY <1>1, <1>12 DEF PutFile, TypeOK, Task, TaskOf, FreeTask
  <2>3. task'[t] = [task[t] EXCEPT !.done = task[t].done \cup {f}]
    BY <2>1 DEF TypeOK
  <2>4. /\ task'[t].kind = task[t].kind /\ task'[t].key = task[t].key
        /\ task'[t].tries = task[t].tries /\ task'[t].pc = task[t].pc
        /\ task'[t].done = task[t].done \cup {f}
    BY <2>2, <2>3 DEF TaskOf
  <2> QED
    BY <2>1, <2>4
<1>13. CASE MarkReady(t)
  BY <1>6, <1>13 DEF MarkReady
<1>14. CASE FailTask(t) \/ AbortTask(t)
  <2>1. task'[t] = Retried(t)
    BY <1>14 DEF FailTask, AbortTask, TypeOK
  <2> QED
    BY <1>1, <1>5, <2>1, RecordMoves DEF FreeTask, Live
<1> QED
  BY <1>8, <1>9, <1>10, <1>11, <1>12, <1>13, <1>14 DEF TaskProgress

\* Whatever fails, dies or is delivered twice, and for any number of jobs,
\* retries and files: every step of the worker brings a job closer to its end.
THEOREM JobsComeToAnEnd == Spec => JobsAdvance
<1>1. ASSUME TypeOK, NothingMissing, WorkerNext
      PROVE  \E t \in TaskIds :
                /\ Live(t)
                /\ CloserToEnd(task'[t], task[t])
                /\ \A u \in TaskIds \ {t} :
                     \/ task'[u] = task[u]
                     \/ ~Live(u) /\ CloserToEnd(task'[u], task[t])
  <2>1. PICK t \in TaskIds : TaskProgress(t) \/ EnqueueTranscodeTwice(t) \/ AbortTask(t)
    BY <1>1 DEF WorkerNext
  <2>2. CASE TaskProgress(t) \/ AbortTask(t)
    BY <1>1, <2>2, JobStep
  <2>3. CASE EnqueueTranscodeTwice(t)
    <3>1. PICK u \in TaskIds :
            /\ ~Live(u)
            /\ task' = [task EXCEPT ![u] = TranscodeJob(t), ![t] = Retried(t)]
      BY <2>3 DEF EnqueueTranscodeTwice
    <3>2. Live(t) /\ task[t].kind = "metadata"
      BY <2>3 DEF EnqueueTranscodeTwice, TaskAt, Live
    <3>3. /\ task'[t] = Retried(t) /\ task'[u] = TranscodeJob(t)
          /\ \A w \in TaskIds \ {t, u} : task'[w] = task[w]
      BY <1>1, <3>1, <3>2 DEF TypeOK
    <3>4. CloserToEnd(task'[t], task[t])
      BY <1>1, <3>2, <3>3, RecordMoves DEF CloserToEnd, FreeTask
    <3>5. CloserToEnd(task'[u], task[t])
      BY <3>2, <3>3 DEF CloserToEnd, TranscodeJob, Job
    <3> QED
      BY <3>1, <3>2, <3>3, <3>4, <3>5
  <2> QED
    BY <2>1, <2>2, <2>3
<1> QED
  BY <1>1, TypesKept, PTL DEF Spec, JobsAdvance

================================================================================
