-------------------------- MODULE CurrentUploadProofs --------------------------
(* If a video is replaced only when nothing of its earlier upload is pending,  *)
(* and the object is not overwritten while it is in use (UploadHeld), whatever *)
(* jobs there are work on the upload that was completed and write the same     *)
(* things: failures, deaths, retries of a FAILED video beside the attempts     *)
(* asynq still has, duplicated jobs and PUTs before completion are allowed.    *)
EXTENDS ReadsHoldProofs

Upload == raw[video.rawKey]

Timed == Upload \in Untimed \/ lesson.duration = Upload

\* The ladder in storage is that of the upload, in its rungs and its files.
Encoded ==
    /\ Upload \in Contents
    /\ master = RenditionsForSourceHeight(Height[Upload])
    /\ \A f \in Transcode(master, Segments[Upload]) : hls[f] = Upload

Finished == video.hls /\ video.meta = Upload /\ Timed /\ Encoded

\* How far a job has come: what it carries, and what has been written by then.
JobIsCurrent(t) ==
    /\ task[t].key = video.rawKey
    /\ task[t].pc \in {"metadata", "duration", "chain", "put"} => task[t].src = Upload
    /\ task[t].pc \in {"duration", "chain"} \/ task[t].kind = "transcode" => video.meta = Upload
    /\ task[t].pc = "chain" \/ task[t].kind = "transcode" => Timed
    /\ task[t].kind = "transcode" => task[t].resolution = Upload
    /\ \A f \in task[t].done : hls[f] = Upload
    /\ task[t].pc \in {"key", "ready"} => Encoded
    /\ task[t].pc = "ready" => video.hls

\* A completion has happened since the last upload began.
Begun == video.status \notin {"ABSENT", "UPLOADING", "DRAFT"}

\* The steps of a request that has read the key.
KeySteps == {"head", "toolarge", "complete", "retry", "enqueue"}

CallIsCurrent(c) ==
    /\ call[c].pc \in KeySteps => video.status # "ABSENT" /\ call[c].key = video.rawKey
    /\ call[c].pc = "enqueue" => Begun

CurrentUpload ==
    /\ \A c \in Calls : CallIsCurrent(c)
    /\ \A t \in TaskIds : Live(t) => Begun /\ JobIsCurrent(t)
    /\ Playable => Finished

\* Everything that is known when a step begins.
Known == TypeOK /\ NothingMissing /\ CurrentUpload

-------------------------------------------------------------------------------
(* Facts that hold of the stream go on holding *)

\* What no step does while the upload is in use: take back what is written of it.
StreamHolds ==
    /\ video'.rawKey = video.rawKey
    /\ Upload' = Upload
    /\ video.meta = Upload => video'.meta = Upload
    /\ Timed => Timed'
    /\ \A f \in Files : hls[f] = Upload => hls'[f] = Upload
    /\ Encoded => Encoded'
    /\ video.hls => video'.hls

\* What the stream of the lesson is made of.
stream == <<raw, hls, master, video.rawKey, video.hls, video.meta, lesson.duration>>

LEMMA StreamStays == UNCHANGED stream => StreamHolds
  BY DEF stream, StreamHolds, Upload, Timed, Encoded

LEMMA FinishedHolds == Finished /\ StreamHolds => Finished'
  BY DEF Finished, StreamHolds

\* A job that does not move stays current.
LEMMA JobHolds ==
    ASSUME TypeOK, StreamHolds, NEW t \in TaskIds, JobIsCurrent(t), task'[t] = task[t]
    PROVE  JobIsCurrent(t)'
<1>1. task[t].done \subseteq Files
  BY DEF TypeOK, Task, TaskOf, FreeTask
<1>2. \A f \in task[t].done : hls'[f] = Upload
  BY <1>1 DEF JobIsCurrent, StreamHolds
<1> QED
  BY <1>2 DEF JobIsCurrent, StreamHolds

\* So does one that begins again, or moves on within its handler as far as
\* nothing new is claimed of it.
LEMMA AgainHolds ==
    ASSUME TypeOK, StreamHolds, NEW t \in TaskIds, JobIsCurrent(t), Live(t),
           task'[t] \in {FreeTask} \cup
               {Job(task[t].kind, task[t].key, task[t].resolution, tries) : tries \in Int}
    PROVE  Live(t)' => JobIsCurrent(t)'
<1>1. CASE task'[t] = FreeTask
  BY <1>1 DEF Live, FreeTask
<1>2. CASE \E tries \in Int :
             task'[t] = Job(task[t].kind, task[t].key, task[t].resolution, tries)
  <2>1. /\ task'[t].pc = "queued" /\ task'[t].kind = task[t].kind
        /\ task'[t].key = task[t].key /\ task'[t].resolution = task[t].resolution
        /\ task'[t].done = {}
    BY <1>2 DEF Job
  <2> QED
    BY <2>1 DEF JobIsCurrent, StreamHolds
<1> QED
  BY <1>1, <1>2

\* A move within a handler changes the step and nothing else.
LEMMA GotoFields ==
    ASSUME TypeOK, NEW t \in TaskIds, NEW pc, Goto(t, pc), Live(t)
    PROVE  /\ task'[t].pc = pc /\ task'[t].kind = task[t].kind
           /\ task'[t].key = task[t].key /\ task'[t].src = task[t].src
           /\ task'[t].resolution = task[t].resolution /\ task'[t].done = task[t].done
           /\ \A u \in TaskIds \ {t} : task'[u] = task[u]
<1>1. task[t] \in TaskOf("metadata", MetadataSteps) \/ task[t] \in TaskOf("transcode", TranscodeSteps)
  BY DEF TypeOK, Live, Task, FreeTask
<1>2. task'[t] = [task[t] EXCEPT !.pc = pc] /\ \A u \in TaskIds \ {t} : task'[u] = task[u]
  BY DEF Goto, TypeOK
<1> QED
  BY <1>1, <1>2 DEF TaskOf

\* A download, which reads the upload.
LEMMA DownloadFields ==
    ASSUME TypeOK, NEW t \in TaskIds, Live(t), NEW kind, NEW from, NEW to,
           Download(t, kind, from, to)
    PROVE  /\ task'[t].pc = to /\ task'[t].kind = task[t].kind
           /\ task'[t].key = task[t].key /\ task'[t].src = raw[task[t].key]
           /\ task'[t].resolution = task[t].resolution /\ task'[t].done = task[t].done
           /\ \A u \in TaskIds \ {t} : task'[u] = task[u]
<1>1. task[t] \in TaskOf("metadata", MetadataSteps) \/ task[t] \in TaskOf("transcode", TranscodeSteps)
  BY DEF TypeOK, Live, Task, FreeTask
<1>2. task'[t] = [task[t] EXCEPT !.pc = to, !.src = raw[task[t].key]]
      /\ \A u \in TaskIds \ {t} : task'[u] = task[u]
  BY DEF Download, TypeOK
<1> QED
  BY <1>1, <1>2 DEF TaskOf

-------------------------------------------------------------------------------
(* The jobs *)

\* What a step of a job must leave behind.
LeavesCurrent(t) ==
    /\ UNCHANGED call
    /\ \A u \in TaskIds \ {t} : task'[u] = task[u]
    /\ StreamHolds
    /\ Live(t)' => JobIsCurrent(t)'
    /\ Playable' => Playable \/ Finished'

LEMMA JobFacts ==
    ASSUME Known, NEW t \in TaskIds, Live(t)
    PROVE  /\ TypeOK /\ NothingMissing /\ JobIsCurrent(t) /\ task[t].key = video.rawKey
           /\ video \in Video /\ lesson \in Lesson /\ task \in [TaskIds -> Task]
           /\ task[t].kind = "transcode" =>
                /\ task[t] \in TaskOf("transcode", TranscodeSteps)
                /\ video.meta = Upload /\ Timed /\ Upload \in Contents
                /\ task[t].resolution = Upload
<1>1. /\ TypeOK /\ NothingMissing /\ JobIsCurrent(t)
      /\ video \in Video /\ lesson \in Lesson /\ task \in [TaskIds -> Task]
  BY DEF Known, CurrentUpload, TypeOK
<1>2. ASSUME task[t].kind = "transcode"
      PROVE  task[t] \in TaskOf("transcode", TranscodeSteps)
  BY <1>1, <1>2 DEF Task, TaskOf, FreeTask
<1>3. task[t].kind = "transcode" => task[t].resolution \in Contents
  BY <1>1 DEF NothingMissing
<1> QED
  BY <1>1, <1>2, <1>3 DEF JobIsCurrent

\* The video does not become playable by a step that leaves its status alone or
\* moves it elsewhere.
LEMMA MetadataStep ==
    ASSUME Known, NEW t \in TaskIds,
           StartMetadataExtract(t) \/ ProbeRaw(t) \/ EnqueueTranscode(t)
    PROVE  LeavesCurrent(t)
<1>1. Live(t) /\ task[t].kind = "metadata" /\ UNCHANGED <<rows, store, call>>
  BY DEF StartMetadataExtract, ProbeRaw, Download, EnqueueTranscode, TaskAt, Live
<1>2. /\ TypeOK /\ JobIsCurrent(t) /\ task[t].key = video.rawKey /\ task \in [TaskIds -> Task]
  BY <1>1, JobFacts
<1>3. UNCHANGED stream /\ Playable' = Playable /\ UNCHANGED video
  BY <1>1 DEF stream, rows, store, Playable
<1>4. StreamHolds
  BY <1>3, StreamStays
<1>5. SUFFICES /\ \A u \in TaskIds \ {t} : task'[u] = task[u]
               /\ Live(t)' => JobIsCurrent(t)'
  BY <1>1, <1>3, <1>4 DEF LeavesCurrent
<1>6. CASE StartMetadataExtract(t) /\ Goto(t, "extract")
  <2>1. /\ task'[t].pc = "extract" /\ task'[t].kind = "metadata"
        /\ task'[t].key = task[t].key /\ task'[t].done = task[t].done
        /\ \A u \in TaskIds \ {t} : task'[u] = task[u]
    BY <1>1, <1>2, <1>6, GotoFields
  <2> QED
    BY <1>2, <1>3, <2>1 DEF JobIsCurrent, Upload, stream
<1>7. CASE StartMetadataExtract(t) /\ Ack(t)
  BY <1>2, <1>7 DEF Ack, FreeTask, Live
<1>8. CASE ProbeRaw(t)
  <2>1. Download(t, "metadata", "extract", "metadata")
    BY <1>8 DEF ProbeRaw
  <2>2. /\ task'[t].pc = "metadata" /\ task'[t].kind = "metadata"
        /\ task'[t].key = task[t].key /\ task'[t].src = Upload /\ task'[t].done = task[t].done
        /\ \A u \in TaskIds \ {t} : task'[u] = task[u]
    BY <1>1, <1>2, <2>1, DownloadFields DEF Upload
  <2> QED
    BY <1>2, <1>3, <2>2 DEF JobIsCurrent, Upload, stream
<1>9. CASE EnqueueTranscode(t)
  <2>1. task[t].src = Upload /\ video.meta = Upload /\ Timed
    BY <1>2, <1>9 DEF EnqueueTranscode, TaskAt, JobIsCurrent
  <2>2. task' = [task EXCEPT ![t] = Job("transcode", task[t].key, task[t].src, MaxRetry)]
    BY <1>9 DEF EnqueueTranscode, TranscodeJob
  <2>3. /\ task'[t].pc = "queued" /\ task'[t].kind = "transcode" /\ task'[t].key = task[t].key
        /\ task'[t].resolution = task[t].src /\ task'[t].done = {}
        /\ \A u \in TaskIds \ {t} : task'[u] = task[u]
    BY <1>2, <2>2 DEF Job
  <2> QED
    BY <1>2, <1>4, <2>1, <2>3 DEF JobIsCurrent, StreamHolds
<1> QED
  BY <1>6, <1>7, <1>8, <1>9 DEF StartMetadataExtract

\* The metadata and the duration are those of what the job downloaded: the upload.
LEMMA MeasureStep ==
    ASSUME Known, NEW t \in TaskIds, SaveMetadata(t) \/ SaveDuration(t)
    PROVE  LeavesCurrent(t)
<1>1. Live(t) /\ task[t].kind = "metadata" /\ UNCHANGED <<store, call>>
  BY DEF SaveMetadata, SaveDuration, TaskAt, Live
<1>2. /\ TypeOK /\ JobIsCurrent(t) /\ task[t].key = video.rawKey
      /\ video \in Video /\ lesson \in Lesson
  BY <1>1, JobFacts
<1>3. task[t].src = Upload
  BY <1>2 DEF SaveMetadata, SaveDuration, TaskAt, JobIsCurrent
<1>4. CASE SaveMetadata(t)
  <2>1. /\ video' = [video EXCEPT !.meta = Upload] /\ UNCHANGED lesson
    BY <1>3, <1>4 DEF SaveMetadata, UpdateVideoMetadata
  <2>2. /\ video'.meta = Upload /\ video'.rawKey = video.rawKey /\ video'.hls = video.hls
        /\ video'.status = video.status
    BY <1>2, <2>1 DEF Video
  <2>3. StreamHolds /\ Upload' = Upload
    BY <1>1, <2>1, <2>2 DEF StreamHolds, Upload, Timed, Encoded, store
  <2>4. PICK pc \in {"chain", "duration"} :
          Goto(t, pc) /\ (pc = "chain" => Upload \in Untimed)
    BY <1>3, <1>4 DEF SaveMetadata
  <2>5. /\ task'[t].pc = pc /\ task'[t].kind = "metadata" /\ task'[t].key = task[t].key
        /\ task'[t].src = task[t].src /\ task'[t].done = task[t].done
        /\ \A u \in TaskIds \ {t} : task'[u] = task[u]
    BY <1>1, <1>2, <2>4, GotoFields
  <2>6. JobIsCurrent(t)'
    BY <1>1, <1>2, <1>3, <2>2, <2>3, <2>4, <2>5 DEF JobIsCurrent, Timed, store
  <2> QED
    BY <1>1, <2>2, <2>3, <2>5, <2>6 DEF LeavesCurrent, Playable
<1>5. CASE SaveDuration(t)
  <2>1. /\ lesson' = [lesson EXCEPT !.duration = Upload] /\ UNCHANGED video
    BY <1>3, <1>5 DEF SaveDuration, UpdateLessonDuration
  <2>2. lesson'.duration = Upload
    BY <1>2, <2>1 DEF Lesson
  <2>3. StreamHolds /\ Upload' = Upload /\ Timed'
    BY <1>1, <2>1, <2>2 DEF StreamHolds, Upload, Timed, Encoded, store
  <2>4. Goto(t, "chain") /\ video.meta = Upload
    BY <1>2, <1>5 DEF SaveDuration, TaskAt, JobIsCurrent
  <2>5. /\ task'[t].pc = "chain" /\ task'[t].kind = "metadata" /\ task'[t].key = task[t].key
        /\ task'[t].src = task[t].src /\ task'[t].done = task[t].done
        /\ \A u \in TaskIds \ {t} : task'[u] = task[u]
    BY <1>1, <1>2, <2>4, GotoFields
  <2>6. JobIsCurrent(t)'
    BY <1>1, <1>2, <1>3, <2>1, <2>3, <2>4, <2>5 DEF JobIsCurrent, store
  <2> QED
    BY <1>1, <2>1, <2>3, <2>5, <2>6 DEF LeavesCurrent, Playable
<1> QED
  BY <1>4, <1>5

\* Up to the download nothing of the stream is written.
LEMMA ClaimStep ==
    ASSUME Known, NEW t \in TaskIds,
           StartTranscode(t) \/ ClaimVideo(t) \/ TranscodeRaw(t)
    PROVE  LeavesCurrent(t)
<1>1. Live(t) /\ task[t].kind = "transcode" /\ UNCHANGED <<store, call>>
  BY DEF StartTranscode, ClaimVideo, TranscodeRaw, Download, TaskAt, Live
<1>2. /\ TypeOK /\ JobIsCurrent(t) /\ task[t].key = video.rawKey
      /\ video \in Video /\ lesson \in Lesson /\ task \in [TaskIds -> Task]
  BY <1>1, JobFacts
<1>3. /\ video'.rawKey = video.rawKey /\ video'.hls = video.hls /\ video'.meta = video.meta
      /\ lesson'.duration = lesson.duration
      /\ video'.status = video.status \/ video'.status = "PROCESSING"
  BY <1>2 DEF StartTranscode, ClaimVideo, TranscodeRaw, Download, TransitionVideoStatus,
         TransitionMissed, SetStatus, rows, Video, Lesson
<1>4. UNCHANGED stream /\ (Playable' => Playable)
  BY <1>1, <1>3 DEF stream, store, Playable
<1>5. StreamHolds
  BY <1>4, StreamStays
<1>6. CASE Ack(t)
  BY <1>1, <1>2, <1>4, <1>5, <1>6 DEF LeavesCurrent, Ack, FreeTask, Live
<1>7. CASE ~Ack(t)
  <2>1. /\ task'[t].kind = "transcode" /\ task'[t].key = task[t].key
        /\ task'[t].resolution = task[t].resolution /\ task'[t].done = task[t].done
        /\ \A u \in TaskIds \ {t} : task'[u] = task[u]
        /\ \/ task'[t].pc \in {"claim", "download"}
           \/ task'[t].pc = "put" /\ task'[t].src = raw[task[t].key]
    <3>1. CASE StartTranscode(t) \/ ClaimVideo(t)
      <4>1. PICK pc \in {"claim", "download"} : Goto(t, pc)
        BY <1>7, <3>1 DEF StartTranscode, ClaimVideo
      <4> QED
        BY <1>1, <1>2, <4>1, GotoFields
    <3>2. CASE TranscodeRaw(t)
      <4>1. Download(t, "transcode", "download", "put")
        BY <3>2 DEF TranscodeRaw
      <4> QED
        BY <1>1, <1>2, <4>1, DownloadFields
    <3> QED
      BY <3>1, <3>2
  <2>2. JobIsCurrent(t)'
    BY <1>1, <1>2, <1>3, <1>4, <1>5, <2>1 DEF JobIsCurrent, StreamHolds, Upload, stream
  <2> QED
    BY <1>1, <1>4, <1>5, <2>1, <2>2 DEF LeavesCurrent
<1> QED
  BY <1>6, <1>7

LEMMA PutFileStep ==
    ASSUME Known, NEW t \in TaskIds, PutFile(t)
    PROVE  LeavesCurrent(t)
<1>1. Live(t) /\ task[t].kind = "transcode" /\ task[t].pc = "put" /\ UNCHANGED <<rows, raw, master, call>>
  BY DEF PutFile, TaskAt, Live
<1>2. /\ TypeOK /\ NothingMissing /\ JobIsCurrent(t) /\ task[t].key = video.rawKey
      /\ task \in [TaskIds -> Task] /\ task[t] \in TaskOf("transcode", TranscodeSteps)
  BY <1>1, JobFacts
<1>3. task[t].src = Upload /\ \A g \in task[t].done : hls[g] = Upload
  BY <1>1, <1>2 DEF JobIsCurrent
<1>4. PICK f \in Left(t) : /\ hls' = [hls EXCEPT ![f] = Upload]
                           /\ task' = [task EXCEPT ![t].done = @ \cup {f}]
  BY <1>3 DEF PutFile
<1>5. /\ task'[t].kind = "transcode" /\ task'[t].key = task[t].key /\ task'[t].pc = "put"
      /\ task'[t].src = task[t].src /\ task'[t].resolution = task[t].resolution
      /\ task'[t].done = task[t].done \cup {f}
      /\ \A u \in TaskIds \ {t} : task'[u] = task[u]
  BY <1>1, <1>2, <1>4 DEF TaskOf
<1>6. f \in Files /\ task[t].done \subseteq Files
  <2>1. Output(t) \subseteq Files
    BY <1>1, <1>2, RungsOK
  <2> QED
    BY <1>2, <2>1 DEF Left, TaskOf
<1>7. /\ hls'[f] = Upload
      /\ \A g \in Files : hls[g] = Upload => hls'[g] = Upload
  BY <1>2, <1>4, <1>6 DEF TypeOK
<1>8. UNCHANGED <<video, lesson>> /\ Upload' = Upload
  BY <1>1 DEF rows, Upload
<1>9. Encoded => Encoded'
  <2>1. SUFFICES ASSUME Encoded
                 PROVE  \A g \in Transcode(master, Segments[Upload]) : hls'[g] = Upload
    BY <1>1, <1>8 DEF Encoded
  <2>2. Transcode(master, Segments[Upload]) \subseteq Files
    BY <1>2, <2>1, LadderFiles DEF Encoded, TypeOK
  <2> QED
    BY <1>7, <2>1, <2>2 DEF Encoded
<1>10. StreamHolds
  BY <1>7, <1>8, <1>9 DEF StreamHolds, Timed
<1>11. JobIsCurrent(t)'
  <2>1. \A g \in task[t].done \cup {f} : hls'[g] = Upload
    BY <1>3, <1>6, <1>7
  <2> QED
    BY <1>1, <1>2, <1>3, <1>5, <1>8, <1>10, <2>1 DEF JobIsCurrent, StreamHolds
<1> QED
  BY <1>1, <1>5, <1>8, <1>10, <1>11 DEF LeavesCurrent, Playable

\* The master playlist lists the rungs of the upload, and all its files are
\* there, because the job has put them all.
LEMMA PutMasterStep ==
    ASSUME Known, NEW t \in TaskIds, PutMaster(t)
    PROVE  LeavesCurrent(t)
<1>1. /\ Live(t) /\ task[t].kind = "transcode" /\ task[t].pc = "put"
      /\ master' = RungsOf(t) /\ Left(t) = {} /\ Goto(t, "key")
      /\ UNCHANGED <<rows, raw, hls, call>>
  BY DEF PutMaster, TaskAt, Live
<1>2. /\ TypeOK /\ JobIsCurrent(t) /\ task[t].key = video.rawKey
      /\ video.meta = Upload /\ Timed /\ Upload \in Contents /\ task[t].resolution = Upload
  BY <1>1, JobFacts
<1>3. task[t].src = Upload /\ \A g \in task[t].done : hls[g] = Upload
  BY <1>1, <1>2 DEF JobIsCurrent
<1>4. /\ task'[t].kind = "transcode" /\ task'[t].key = task[t].key /\ task'[t].pc = "key"
      /\ task'[t].resolution = task[t].resolution /\ task'[t].done = task[t].done
      /\ \A u \in TaskIds \ {t} : task'[u] = task[u]
  BY <1>1, <1>2, GotoFields
<1>5. UNCHANGED <<video, lesson, hls>> /\ Upload' = Upload
  BY <1>1 DEF rows, Upload
<1>6. /\ master' = RenditionsForSourceHeight(Height[Upload])
      /\ \A f \in Transcode(master', Segments[Upload]) : hls[f] = Upload
  BY <1>1, <1>2, <1>3 DEF RungsOf, Left, Output
<1>7. Encoded'
  BY <1>2, <1>5, <1>6 DEF Encoded
<1>8. StreamHolds
  BY <1>5, <1>7 DEF StreamHolds, Timed
<1>9. JobIsCurrent(t)'
  BY <1>2, <1>3, <1>4, <1>5, <1>7, <1>8 DEF JobIsCurrent, StreamHolds
<1> QED
  BY <1>1, <1>4, <1>5, <1>8, <1>9 DEF LeavesCurrent, Playable

LEMMA FinishStep ==
    ASSUME Known, NEW t \in TaskIds, SaveHLSMasterKey(t) \/ MarkReady(t)
    PROVE  LeavesCurrent(t)
<1>1. Live(t) /\ task[t].kind = "transcode" /\ UNCHANGED <<call, store>>
  BY DEF SaveHLSMasterKey, MarkReady, TaskAt, Live
<1>2. /\ TypeOK /\ JobIsCurrent(t) /\ task[t].key = video.rawKey
      /\ video \in Video /\ lesson \in Lesson /\ task \in [TaskIds -> Task]
      /\ video.meta = Upload /\ Timed /\ task[t].resolution = Upload
  BY <1>1, JobFacts
<1>3. Encoded
  BY <1>2 DEF SaveHLSMasterKey, MarkReady, TaskAt, JobIsCurrent
<1>4. CASE SaveHLSMasterKey(t)
  <2>1. /\ video' = [video EXCEPT !.hls = TRUE] /\ UNCHANGED lesson /\ Goto(t, "ready")
    BY <1>4 DEF SaveHLSMasterKey, UpdateVideoHLSMasterKey
  <2>2. /\ video'.hls /\ video'.rawKey = video.rawKey /\ video'.meta = video.meta
        /\ video'.status = video.status
    BY <1>2, <2>1 DEF Video
  <2>3. StreamHolds
    BY <1>1, <2>1, <2>2 DEF StreamHolds, Upload, Timed, Encoded, store
  <2>4. /\ task'[t].kind = "transcode" /\ task'[t].key = task[t].key /\ task'[t].pc = "ready"
        /\ task'[t].resolution = task[t].resolution /\ task'[t].done = task[t].done
        /\ \A u \in TaskIds \ {t} : task'[u] = task[u]
    BY <1>1, <1>2, <2>1, GotoFields
  <2>5. \A f \in task[t].done : hls'[f] = Upload
    BY <1>1, <1>2 DEF JobIsCurrent, store
  <2>6. JobIsCurrent(t)'
    BY <1>2, <1>3, <2>2, <2>3, <2>4, <2>5 DEF JobIsCurrent, StreamHolds
  <2> QED
    BY <1>1, <2>2, <2>3, <2>4, <2>6 DEF LeavesCurrent, Playable
<1>5. CASE MarkReady(t)
  <2>1. video.hls
    BY <1>2, <1>5 DEF MarkReady, TaskAt, JobIsCurrent
  <2>2. /\ video'.rawKey = video.rawKey /\ video'.meta = video.meta /\ video'.hls = video.hls
        /\ lesson'.duration = lesson.duration
    BY <1>2, <1>5 DEF MarkReady, TransitionVideoStatus, TransitionMissed, SetStatus, rows,
         Video, Lesson
  <2>3. UNCHANGED stream
    BY <1>1, <2>2 DEF stream, store
  <2>4. StreamHolds
    BY <2>3, StreamStays
  <2>5. Finished'
    BY <1>2, <1>3, <2>1, <2>4, FinishedHolds DEF Finished
  <2>6. ~Live(t)' /\ \A u \in TaskIds \ {t} : task'[u] = task[u]
    BY <1>2, <1>5 DEF MarkReady, Ack, FreeTask, Live
  <2> QED
    BY <1>1, <2>4, <2>5, <2>6 DEF LeavesCurrent
<1> QED
  BY <1>4, <1>5

\* A job that fails, is cut short or goes back to the queue begins again.
LEMMA EndStep ==
    ASSUME Known, NEW t \in TaskIds, FailTask(t) \/ AbortTask(t) \/ RequeueTask(t)
    PROVE  LeavesCurrent(t)
<1>1. /\ Live(t) /\ UNCHANGED <<call, store>>
      /\ task' = [task EXCEPT ![t] = Retried(t)] \/ task' = [task EXCEPT ![t] = Requeued(t)]
  BY DEF FailTask, AbortTask, RequeueTask, Live
<1>2. /\ TypeOK /\ JobIsCurrent(t) /\ video \in Video /\ lesson \in Lesson
      /\ task \in [TaskIds -> Task]
  BY <1>1, JobFacts
<1>3. /\ \A u \in TaskIds \ {t} : task'[u] = task[u]
      /\ task'[t] \in {Retried(t), Requeued(t)}
  BY <1>1, <1>2
<1>4. /\ video'.rawKey = video.rawKey /\ video'.hls = video.hls /\ video'.meta = video.meta
      /\ lesson'.duration = lesson.duration
      /\ Playable' => Playable
  BY <1>2 DEF FailTask, AbortTask, RequeueTask, SetVideoFailed, SetStatus, rows, Playable,
       Video, Lesson
<1>5. StreamHolds
  BY <1>1, <1>4, StreamStays DEF stream, store
<1>6. task[t].tries \in Int
  BY <1>1, <1>2, PipelineAssumption DEF Live, Task, TaskOf, FreeTask
<1>7. Live(t)' => JobIsCurrent(t)'
  <2>1. task'[t] \in {FreeTask} \cup
          {Job(task[t].kind, task[t].key, task[t].resolution, tries) : tries \in Int}
    BY <1>3, <1>6 DEF Retried, Requeued
  <2> QED
    BY <1>1, <1>2, <1>5, <2>1, AgainHolds
<1> QED
  BY <1>1, <1>3, <1>4, <1>5, <1>7 DEF LeavesCurrent

\* A job of the worker, alone, leaves every job of the video current.
LEMMA OneJobMoves ==
    ASSUME Known, NEW t \in TaskIds, Live(t), LeavesCurrent(t), Begun => Begun'
    PROVE  CurrentUpload'
<1>1. Begun' /\ \A u \in TaskIds : Live(u)' => JobIsCurrent(u)'
  <2>1. Begun
    BY DEF Known, CurrentUpload
  <2>2. ASSUME NEW u \in TaskIds \ {t}, Live(u)'
        PROVE  JobIsCurrent(u)'
    <3>1. task'[u] = task[u] /\ Live(u)
      BY <2>2 DEF LeavesCurrent, Live
    <3> QED
      BY <3>1, JobHolds DEF Known, CurrentUpload, LeavesCurrent
  <2> QED
    BY <2>1, <2>2 DEF LeavesCurrent
<1>2. Playable' => Finished'
  BY FinishedHolds DEF LeavesCurrent, Known, CurrentUpload
<1>3. \A c \in Calls : CallIsCurrent(c)'
  BY <1>1 DEF LeavesCurrent, Known, CurrentUpload, CallIsCurrent, StreamHolds, Begun
<1> QED
  BY <1>1, <1>2, <1>3 DEF CurrentUpload

LEMMA WorkerCurrent ==
    ASSUME Known, WorkerNext \/ ShutdownNext
    PROVE  CurrentUpload'
<1>1. Begun => Begun'
  BY WorkerMoves, OtherMoves DEF Known, Begun, StatusMove, StatusKept
<1>2. ASSUME NEW t \in TaskIds, TaskProgress(t) \/ AbortTask(t) \/ RequeueTask(t)
      PROVE  CurrentUpload'
  <2>1. Live(t)
    BY <1>2, JobStep DEF Known, RequeueTask
  <2>2. LeavesCurrent(t)
    BY <1>2, MetadataStep, MeasureStep, ClaimStep, PutFileStep, PutMasterStep, FinishStep,
       EndStep DEF TaskProgress
  <2> QED
    BY <1>1, <2>1, <2>2, OneJobMoves
<1>3. ASSUME NEW t \in TaskIds, EnqueueTranscodeTwice(t)
      PROVE  CurrentUpload'
  <2>1. Live(t) /\ task[t].kind = "metadata" /\ task[t].pc = "chain" /\ UNCHANGED <<rows, store, call>>
    BY <1>3 DEF EnqueueTranscodeTwice, TaskAt, Live
  <2>2. /\ TypeOK /\ JobIsCurrent(t) /\ task \in [TaskIds -> Task]
        /\ task[t].src = Upload /\ video.meta = Upload /\ Timed /\ task[t].key = video.rawKey
    BY <2>1, JobFacts DEF JobIsCurrent
  <2>3. PICK u \in TaskIds :
          ~Live(u) /\ task' = [task EXCEPT ![u] = TranscodeJob(t), ![t] = Retried(t)]
    BY <1>3 DEF EnqueueTranscodeTwice
  <2>4. /\ task'[t] = Retried(t) /\ task'[u] = TranscodeJob(t)
        /\ \A w \in TaskIds \ {t, u} : task'[w] = task[w]
    BY <2>1, <2>2, <2>3
  <2>5. StreamHolds /\ Playable' = Playable
    BY <2>1, StreamStays DEF stream, rows, store, Playable
  <2>6. Live(t)' => JobIsCurrent(t)'
    <3>1. task[t].tries \in Int
      BY <2>1, <2>2, PipelineAssumption DEF Live, Task, TaskOf, FreeTask
    <3>2. task'[t] \in {FreeTask} \cup
            {Job(task[t].kind, task[t].key, task[t].resolution, tries) : tries \in Int}
      BY <2>4, <3>1 DEF Retried
    <3> QED
      BY <2>1, <2>2, <2>5, <3>2, AgainHolds
  <2>7. JobIsCurrent(u)'
    BY <2>2, <2>4, <2>5 DEF TranscodeJob, Job, JobIsCurrent, StreamHolds
  <2>8. ASSUME NEW w \in TaskIds \ {t, u}, Live(w)'
        PROVE  JobIsCurrent(w)'
    <3>1. task'[w] = task[w] /\ Live(w)
      BY <2>4, <2>8 DEF Live
    <3> QED
      BY <2>2, <2>5, <3>1, JobHolds DEF Known, CurrentUpload
  <2>9. Begun'
    BY <1>1, <2>1 DEF Known, CurrentUpload
  <2>10. Playable' => Finished'
    BY <2>5, FinishedHolds DEF Known, CurrentUpload
  <2>11. \A c \in Calls : CallIsCurrent(c)'
    BY <2>1, <2>9 DEF Known, CurrentUpload, CallIsCurrent, rows
  <2> QED
    BY <2>6, <2>7, <2>8, <2>9, <2>10, <2>11 DEF CurrentUpload
<1> QED
  BY <1>2, <1>3 DEF WorkerNext, ShutdownNext

-------------------------------------------------------------------------------
(* The requests *)

\* A request moves one call and no object.
LEMMA RequestCalls ==
    ASSUME TypeOK, NEW c \in Calls, RequestNext(c)
    PROVE  /\ \A d \in Calls \ {c} : call'[d] = call[d]
           /\ UNCHANGED <<raw, hls, master>>
<1>1. UNCHANGED <<raw, hls, master>>
  BY DEF RequestNext, CallProgress, SaveFirstUpload, SaveReupload, IssueTicket, HeadRawObject,
         RejectTooLarge, CommitCompleteUpload, CommitRetranscode, EnterQueue,
         EnqueueMetadataExtract, BeginRequestUpload, BeginCompleteUpload, BeginRetranscode,
         Begin, AbandonCall, store
<1>2. PICK held : call' = [call EXCEPT ![c] = held]
  BY DEF RequestNext, CallProgress, SaveFirstUpload, SaveReupload, IssueTicket, HeadRawObject,
         RejectTooLarge, CommitCompleteUpload, CommitRetranscode, EnterQueue,
         EnqueueMetadataExtract, BeginRequestUpload, BeginCompleteUpload, BeginRetranscode,
         Begin, AbandonCall, CallStep, Return
<1> QED
  BY <1>1, <1>2 DEF TypeOK

\* Jobs that do not move stay current as long as the stream and the status do.
LEMMA JobsStay ==
    ASSUME Known, UNCHANGED task, StreamHolds, Playable' => Playable, Begun => Begun'
    PROVE  /\ \A t \in TaskIds : Live(t)' => Begun' /\ JobIsCurrent(t)'
           /\ Playable' => Finished'
<1>1. ASSUME NEW t \in TaskIds, Live(t)'
      PROVE  Begun' /\ JobIsCurrent(t)'
  <2>1. Begun /\ JobIsCurrent(t)
    BY <1>1 DEF Live, Known, CurrentUpload
  <2> QED
    BY <2>1, JobHolds DEF Known
<1> QED
  BY <1>1, FinishedHolds DEF Known, CurrentUpload

\* A video is created when there is none, and replaced when nothing is pending.
LEMMA UploadCurrent ==
    ASSUME Known, UploadHeld, NEW c \in Calls, SaveFirstUpload(c) \/ SaveReupload(c),
           video' # video
    PROVE  CurrentUpload'
<1>1. video'.status = "UPLOADING" /\ call'[c].pc = "ticket" /\ UNCHANGED task
  <2>1. \/ CallStep(c, "insert", "ticket") /\ InsertVideo(call[c].key)
        \/ CallStep(c, "reupload", "ticket") /\ UpdateVideoForReupload(call[c].key)
    BY DEF SaveFirstUpload, SaveReupload, rows
  <2>2. video'.status = "UPLOADING"
    BY <2>1 DEF InsertVideo, UpdateVideoForReupload, SetStatus, Known, TypeOK, Video
  <2>3. call'[c].pc = "ticket"
    BY <2>1 DEF CallStep, Known, TypeOK, Call
  <2> QED
    BY <2>2, <2>3 DEF SaveFirstUpload, SaveReupload
<1>2. \A d \in Calls \ {c} : call'[d] = call[d]
  BY DEF SaveFirstUpload, SaveReupload, CallStep, Return, Known, TypeOK
<1>3. /\ \A t \in TaskIds : ~Live(t)
      /\ \A d \in Calls : call[d].pc \notin KeySteps
  <2>1. CASE SaveReupload(c)
    BY <2>1 DEF UploadHeld, NothingPending, KeySteps
  <2>2. CASE SaveFirstUpload(c)
    <3>1. video.status = "ABSENT"
      BY <2>2 DEF SaveFirstUpload, InsertVideo, rows
    <3> QED
      BY <3>1 DEF Known, CurrentUpload, CallIsCurrent, Begun
  <2> QED
    BY <2>1, <2>2
<1>4. \A d \in Calls : call'[d].pc \notin KeySteps
  BY <1>1, <1>2, <1>3 DEF KeySteps
<1> QED
  BY <1>1, <1>3, <1>4 DEF CurrentUpload, CallIsCurrent, KeySteps, Live, Playable

\* The other steps of a request: the status moves to FAILED or to QUEUED, and
\* a key it goes on with is that of the video.
LEMMA CallMoves ==
    ASSUME Known, NEW c \in Calls, RequestNext(c), ~SaveReupload(c), video'.rawKey = video.rawKey
    PROVE  /\ video'.status \in {video.status, "FAILED", "QUEUED", "UPLOADING"}
           /\ video.status # "ABSENT" => video'.status \in {video.status, "FAILED", "QUEUED"}
           /\ video'.hls = video.hls /\ video'.meta = video.meta
           /\ lesson'.duration = lesson.duration
<1> USE DEF Known, TypeOK, Video, Lesson, SetStatus
<1>1. CASE UNCHANGED rows
  BY <1>1 DEF rows
<1>2. CASE SaveFirstUpload(c)
  BY <1>2 DEF SaveFirstUpload, InsertVideo, rows
<1>3. CASE RejectTooLarge(c)
  BY <1>3 DEF RejectTooLarge, SetVideoFailed, rows
<1>4. CASE CommitCompleteUpload(c) \/ CommitRetranscode(c)
  BY <1>4 DEF CommitCompleteUpload, CommitRetranscode, EnterQueue, TransitionVideoStatus,
       TransitionMissed, rows
<1> QED
  BY <1>1, <1>2, <1>3, <1>4
     DEF RequestNext, CallProgress, IssueTicket, HeadRawObject, EnqueueMetadataExtract,
         BeginRequestUpload, BeginCompleteUpload, BeginRetranscode, Begin, AbandonCall

LEMMA CallStaysCurrent ==
    ASSUME Known, NEW c \in Calls, RequestNext(c), ~SaveReupload(c), ~SaveFirstUpload(c)
    PROVE  CallIsCurrent(c)'
<1>1. call[c] \in Call /\ call \in [Calls -> Call] /\ video \in Video /\ CallIsCurrent(c)
  BY DEF Known, CurrentUpload, TypeOK
<1> USE DEF CallIsCurrent, KeySteps, Begun
<1>2. CASE CommitCompleteUpload(c) \/ CommitRetranscode(c)
  <2>1. PICK step \in {"complete", "retry"}, from \in {"UPLOADING", "FAILED"} :
          EnterQueue(c, step, from)
    BY <1>2 DEF CommitCompleteUpload, CommitRetranscode
  <2>2. CASE CallStep(c, step, "enqueue") /\ TransitionVideoStatus(from, "QUEUED")
    <3>1. video'.status = "QUEUED" /\ video'.rawKey = video.rawKey
      BY <1>1, <2>2 DEF TransitionVideoStatus, SetStatus, Video
    <3>2. call'[c].key = call[c].key /\ call[c].pc \in {"complete", "retry"}
      BY <1>1, <2>2 DEF CallStep, Call
    <3> QED
      BY <1>1, <3>1, <3>2
  <2>3. CASE Return(c, step)
    BY <1>1, <2>3 DEF Return, IdleCall
  <2> QED
    BY <2>1, <2>2, <2>3 DEF EnterQueue
<1>3. CASE HeadRawObject(c)
  BY <1>1, <1>3 DEF HeadRawObject, CallStep, Return, IdleCall, Call, rows
<1>4. CASE RejectTooLarge(c) \/ IssueTicket(c) \/ EnqueueMetadataExtract(c) \/ AbandonCall(c)
  BY <1>1, <1>4 DEF RejectTooLarge, IssueTicket, EnqueueMetadataExtract, AbandonCall, Return,
       IdleCall
<1>5. CASE BeginRequestUpload(c) \/ BeginCompleteUpload(c) \/ BeginRetranscode(c)
  BY <1>1, <1>5 DEF BeginRequestUpload, BeginCompleteUpload, BeginRetranscode, Begin, rows
<1> QED
  BY <1>2, <1>3, <1>4, <1>5 DEF RequestNext, CallProgress

LEMMA RequestCurrent ==
    ASSUME Known, UploadHeld, NEW c \in Calls, RequestNext(c)
    PROVE  CurrentUpload'
<1>1. /\ UNCHANGED <<raw, hls, master>>
      /\ \A d \in Calls \ {c} : call'[d] = call[d]
  BY RequestCalls DEF Known
<1>2. CASE (SaveFirstUpload(c) \/ SaveReupload(c)) /\ video' # video
  BY <1>2, UploadCurrent
<1>3. CASE SaveFirstUpload(c) /\ video' = video
  <2>1. call'[c] = IdleCall /\ UNCHANGED <<rows, task>>
    BY <1>3 DEF SaveFirstUpload, Return, InsertVideo, SetStatus, rows, Known, TypeOK, Video
  <2>2. StreamHolds /\ (Playable' => Playable) /\ (Begun => Begun')
    BY <1>1, <2>1, StreamStays DEF stream, rows, Playable, Begun
  <2>3. \A d \in Calls : CallIsCurrent(d)'
    BY <1>1, <1>3, <2>1, <2>2 DEF Known, CurrentUpload, CallIsCurrent, KeySteps, IdleCall
  <2> QED
    BY <2>1, <2>2, <2>3, JobsStay DEF CurrentUpload
<1>4. CASE SaveReupload(c) /\ video' = video
  <2>1. /\ \A t \in TaskIds : ~Live(t)
        /\ \A d \in Calls : call[d].pc \notin KeySteps
    BY <1>4 DEF UploadHeld, NothingPending, KeySteps
  <2>2. call'[c].pc = "ticket" /\ video'.status = "UPLOADING" /\ UNCHANGED task
    BY <1>4 DEF SaveReupload, CallStep, UpdateVideoForReupload, SetStatus, Known, TypeOK,
         Video, Call
  <2> QED
    BY <1>1, <2>1, <2>2 DEF CurrentUpload, CallIsCurrent, KeySteps, Live, Playable
<1>5. CASE ~SaveFirstUpload(c) /\ ~SaveReupload(c)
  <2>1. video'.rawKey = video.rawKey
    BY <1>5 DEF RequestNext, CallProgress, IssueTicket, HeadRawObject, RejectTooLarge,
         SetVideoFailed, CommitCompleteUpload, CommitRetranscode, EnterQueue,
         TransitionVideoStatus, TransitionMissed, SetStatus, EnqueueMetadataExtract,
         BeginRequestUpload, BeginCompleteUpload, BeginRetranscode, Begin, AbandonCall,
         rows, Known, TypeOK, Video
  <2>2. /\ video'.status \in {video.status, "FAILED", "QUEUED", "UPLOADING"}
        /\ video.status # "ABSENT" => video'.status \in {video.status, "FAILED", "QUEUED"}
        /\ UNCHANGED stream
    BY <1>1, <1>5, <2>1, CallMoves DEF stream
  <2>3. StreamHolds /\ (Playable' => Playable) /\ (Begun => Begun')
    BY <2>2, StreamStays DEF Playable, Begun
  <2>4. ASSUME NEW d \in Calls \ {c}
        PROVE  CallIsCurrent(d)'
    <3>1. call'[d] = call[d] /\ CallIsCurrent(d)
      BY <1>1 DEF Known, CurrentUpload
    <3> QED
      BY <2>1, <2>2, <2>3, <3>1 DEF CallIsCurrent
  <2>5. CallIsCurrent(c)'
    BY <1>5, CallStaysCurrent
  <2>6. CASE EnqueueMetadataExtract(c)
    <3>1. /\ call[c].pc = "enqueue" /\ call[c].key = video.rawKey /\ Begun
          /\ UNCHANGED <<rows, store>>
      BY <2>6 DEF EnqueueMetadataExtract, Return, Known, CurrentUpload, CallIsCurrent, KeySteps
    <3>2. PICK t \in TaskIds :
            task' = [task EXCEPT ![t] = Job("metadata", call[c].key, None, MaxRetry)]
      BY <2>6 DEF EnqueueMetadataExtract
    <3>3. /\ task'[t].kind = "metadata" /\ task'[t].pc = "queued"
          /\ task'[t].key = video.rawKey /\ task'[t].done = {}
          /\ \A u \in TaskIds \ {t} : task'[u] = task[u]
      BY <3>1, <3>2 DEF Job, Known, TypeOK
    <3>4. JobIsCurrent(t)'
      BY <2>1, <3>3 DEF JobIsCurrent
    <3>5. ASSUME NEW u \in TaskIds \ {t}, Live(u)'
          PROVE  JobIsCurrent(u)'
      <4>1. task'[u] = task[u] /\ Live(u)
        BY <3>3, <3>5 DEF Live
      <4> QED
        BY <2>3, <4>1, JobHolds DEF Known, CurrentUpload
    <3>6. Playable' => Finished'
      BY <2>3, FinishedHolds DEF Known, CurrentUpload
    <3> QED
      BY <2>3, <2>4, <2>5, <3>1, <3>4, <3>5, <3>6 DEF CurrentUpload
  <2>7. CASE ~EnqueueMetadataExtract(c)
    <3>1. UNCHANGED task
      BY <1>5, <2>7 DEF RequestNext, CallProgress, IssueTicket, HeadRawObject, RejectTooLarge,
           CommitCompleteUpload, CommitRetranscode, EnterQueue, BeginRequestUpload,
           BeginCompleteUpload, BeginRetranscode, Begin, AbandonCall
    <3> QED
      BY <2>3, <2>4, <2>5, <3>1, JobsStay DEF CurrentUpload
  <2> QED
    BY <2>6, <2>7
<1> QED
  BY <1>2, <1>3, <1>4, <1>5

-------------------------------------------------------------------------------
(* Everybody else *)

\* A PUT finds the object in no use, or leaves that of the video alone.
LEMMA PutCurrent ==
    ASSUME Known, UploadHeld, NEW key \in RawKeys, NEW content \in Contents, ClientPut(key, content)
    PROVE  CurrentUpload'
<1>1. UNCHANGED <<rows, hls, master, call, task>>
  BY DEF ClientPut
<1>2. \A c \in Calls : CallIsCurrent(c)'
  BY <1>1 DEF Known, CurrentUpload, CallIsCurrent, Begun, rows
<1>3. CASE InUse
  <2>1. UNCHANGED <<video, lesson>> /\ Upload' = Upload
    BY <1>1, <1>3 DEF UploadHeld, Upload, rows
  <2>2. StreamHolds
    BY <1>1, <2>1 DEF StreamHolds, Timed, Encoded
  <2> QED
    BY <1>1, <1>2, <2>1, <2>2, JobsStay DEF CurrentUpload, Playable, Begun
<1>4. CASE ~InUse
  BY <1>1, <1>2, <1>4 DEF InUse, CurrentUpload, Live, Playable, rows
<1> QED
  BY <1>3, <1>4

LEMMA WorldCurrent ==
    ASSUME Known, UploadHeld \/ UNCHANGED vars, StorageNext \/ Publish \/ Reap \/ UNCHANGED vars
    PROVE  CurrentUpload'
<1>1. CASE \E key \in RawKeys, content \in Contents : ClientPut(key, content)
  <2>1. UploadHeld \/ UNCHANGED raw
    BY DEF vars
  <2>2. CASE UploadHeld
    BY <1>1, <2>2, PutCurrent
  <2>3. CASE UNCHANGED vars
    <3>1. UNCHANGED <<stream, task, call, video>>
      BY <2>3 DEF vars, stream
    <3> QED
      BY <3>1, StreamStays, JobsStay DEF Playable, Begun, CurrentUpload, CallIsCurrent, Known
  <2> QED
    BY <2>2, <2>3
<1>2. CASE ~(\E key \in RawKeys, content \in Contents : ClientPut(key, content))
  <2>1. UNCHANGED <<call, task>> /\ UNCHANGED stream
    BY <1>2 DEF StorageNext, ExpireURL, Publish, Reap, ResetStaleUploads, rows, store, vars,
         TransitionVideoStatus, SetStatus, stream, Known, TypeOK, Video, Lesson
  <2>2. /\ Playable' => Playable
        /\ video'.status = "ABSENT" => video.status = "ABSENT"
        /\ video.status # "UPLOADING" /\ Begun => Begun'
    BY OtherMoves DEF Known, StatusMove, StatusKept, Playable, Begun
  <2>3. Begun => Begun'
    BY <2>2 DEF Begun
  <2>4. StreamHolds
    BY <2>1, StreamStays
  <2>5. \A c \in Calls : CallIsCurrent(c)'
    BY <2>1, <2>2, <2>3, <2>4 DEF Known, CurrentUpload, CallIsCurrent, StreamHolds
  <2> QED
    BY <2>1, <2>2, <2>3, <2>4, <2>5, JobsStay DEF CurrentUpload
<1> QED
  BY <1>1, <1>2

LEMMA CurrentAlways == Spec /\ [][UploadHeld]_vars => []Known
<1>1. Init => CurrentUpload
  BY DEF Init, RepoInit, CurrentUpload, CallIsCurrent, KeySteps, IdleCall, Live, FreeTask, Playable
<1>2. TypeOK /\ NothingMissing /\ CurrentUpload /\ [Next]_vars /\ [UploadHeld]_vars
          => CurrentUpload'
  <2> SUFFICES ASSUME Known, [Next]_vars, [UploadHeld]_vars PROVE CurrentUpload'
    BY DEF Known
  <2>1. CASE ApiNext /\ ~UNCHANGED vars
    <3>1. PICK c \in Calls : RequestNext(c)
      BY <2>1 DEF ApiNext, RequestNext
    <3> QED
      BY <2>1, <3>1, RequestCurrent
  <2>2. CASE WorkerNext \/ ShutdownNext
    BY <2>2, WorkerCurrent
  <2>3. CASE StorageNext \/ Publish \/ Reap \/ UNCHANGED vars
    BY <2>3, WorldCurrent
  <2> QED
    BY <2>1, <2>2, <2>3 DEF Next
<1> QED
  BY <1>1, <1>2, TypesKept, PTL DEF Spec, Known

\* The stream, the metadata and the duration of a playable video are those of
\* the upload that was completed, after any number of failures, deaths, retries
\* of a FAILED video, duplicated jobs and replacements, if those keep UploadHeld.
THEOREM ServesCurrentUpload == Spec /\ [][UploadHeld]_vars => []ReadyServesCurrentUpload
<1>1. Known => ReadyServesCurrentUpload
  <2> SUFFICES ASSUME Known, Playable
               PROVE  /\ video.hls /\ master # {} /\ video.meta = Upload
                      /\ \A f \in Transcode(master, Segments[Upload]) : hls[f] = Upload
                      /\ Timed
    BY DEF ReadyServesCurrentUpload, Upload, Timed
  <2>1. Finished /\ Upload \in Contents
    BY DEF Known, CurrentUpload, Finished, Encoded
  <2>2. Height[Upload] \in Nat /\ 1 \in 1..MaxSegments
    BY <2>1, PipelineAssumption, MaxSegmentsAssumption
  <2> QED
    BY <2>1, <2>2, RungsInLadder DEF Finished, Encoded
<1> QED
  BY <1>1, CurrentAlways, PTL

\* The rungs offered are those of the upload that is served, for any heights.
THEOREM LadderFits == Spec /\ [][UploadHeld]_vars => []LadderFitsUpload
<1>1. Known => LadderFitsUpload
  <2> SUFFICES ASSUME Known, Playable
               PROVE  /\ \A r \in Rungs : r <= Height[Upload] => r \in master
                      /\ (\A r \in master : r <= Height[Upload]) \/ master = {240}
    BY DEF LadderFitsUpload, Upload
  <2>1. master = RenditionsForSourceHeight(Height[Upload])
    BY DEF Known, CurrentUpload, Finished, Encoded
  <2> QED
    BY <2>1 DEF RenditionsForSourceHeight
<1> QED
  BY <1>1, CurrentAlways, PTL

================================================================================
