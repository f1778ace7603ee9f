----------------------------- MODULE VideoPipeline -----------------------------
(***************************************************************************)
(* The upload, processing and publication of the video of one lesson: the  *)
(* API handlers (upload.go, transcode.go), the two asynq jobs (worker.go), *)
(* the rows they share (VideoRepo), the object store and the job queue.    *)
(*                                                                         *)
(* A handler is a sequence of steps, one per statement sent to Postgres,   *)
(* S3 or Redis; the steps of different calls and jobs interleave freely.   *)
(* call[c] is one running HTTP request, task[t] one job known to asynq.    *)
(***************************************************************************)
EXTENDS VideoRepo, Ladder

CONSTANTS
    Calls,      \* slots for HTTP requests that run at the same time
    Uploaders,  \* the calls that may be a RequestUpload
    TaskIds,    \* slots for jobs asynq holds: a bound on jobs alive at once
    MaxRetry,   \* asynq.MaxRetry of both jobs: 3 in the code
    Height,     \* the lines of the picture of each content: 480 for 854x480
    Segments,   \* into how many segments ffmpeg cuts each content
    TooLarge,   \* contents larger than MaxUploadSizeBytes
    Untimed,    \* contents whose probe finds no duration
    NoVideo,    \* contents whose probe finds no video stream
    Faults,     \* what may go wrong: a subset of FaultKinds
    ReaperRuns  \* whether resetStaleUploads has a caller: FALSE as deployed

\* "error": a step a job guards with markFailed fails.   "abort": a job ends
\* with no mark (an unguarded write fails, the 30 minutes are over, the worker
\* dies).   "shutdown": the worker is stopped and hands its jobs back to asynq.
\* "dup": it dies between enqueueing the next job and its ack.   "lost": a
\* request dies between two of its steps, or its answer is lost.   "latePut": a
\* presigned URL is used during or after CompleteUpload.
FaultKinds == {"error", "abort", "shutdown", "dup", "lost", "latePut"}

ASSUME PipelineAssumption ==
    /\ Uploaders \subseteq Calls
    /\ MaxRetry \in Nat
    /\ Height \in [Contents -> Nat]
    /\ Segments \in [Contents -> 1..MaxSegments]
    /\ TooLarge \subseteq Contents
    /\ Untimed \subseteq Contents
    /\ NoVideo \subseteq Contents
    /\ Faults \subseteq FaultKinds
    /\ ReaperRuns \in BOOLEAN

\* hls[f]: the content file f was made from.  master: the rungs master.m3u8
\* lists, {} while there is none.
VARIABLES raw, hls, master, urls, call, task

store == <<raw, hls, master, urls>>
vars == <<video, lesson, raw, hls, master, urls, call, task>>

MetadataSteps == {"queued", "extract", "metadata", "duration", "chain"}
\* The steps of video:transcode after it looked at the status, and tried to
\* claim the video if it was QUEUED.
ClaimedSteps == {"download", "put", "key", "ready"}
TranscodeSteps == {"queued", "claim"} \cup ClaimedSteps

CallSteps == {"idle", "insert", "reupload", "ticket", "head", "toolarge",
              "complete", "retry", "enqueue"}

Call == [pc : CallSteps, key : RawKeys \cup {None}]

IdleCall == [pc |-> "idle", key |-> None]

\* resolution: the content whose resolution the payload carries.   src: the
\* content this attempt downloaded.   done: the files it has put.
FreeTask == [kind |-> "free", pc |-> "free", key |-> None, resolution |-> None,
             tries |-> 0, src |-> None, done |-> {}]

Job(kind, key, resolution, tries) ==
    [kind |-> kind, pc |-> "queued", key |-> key, resolution |-> resolution,
     tries |-> tries, src |-> None, done |-> {}]

TaskOf(kind, steps) ==
    [kind : {kind}, pc : steps, key : RawKeys \cup {None},
     resolution : Contents \cup {None}, tries : 0..MaxRetry,
     src : Contents \cup {None}, done : SUBSET Files]

\* A slot is free, or holds a job at a step of its own kind.
Task == {FreeTask} \cup TaskOf("metadata", MetadataSteps)
                   \cup TaskOf("transcode", TranscodeSteps)

Live(t) == task[t].pc # "free"

Init ==
    /\ RepoInit
    /\ raw = [k \in RawKeys |-> None]
    /\ hls = [f \in Files |-> None]
    /\ master = {}
    /\ urls = {}
    /\ call = [c \in Calls |-> IdleCall]
    /\ task = [t \in TaskIds |-> FreeTask]

-------------------------------------------------------------------------------
(* The instructor's requests *)

CallStep(c, from, to) ==
    /\ call[c].pc = from
    /\ call' = [call EXCEPT ![c].pc = to]

Begin(c, to, key) ==
    /\ call[c] = IdleCall
    /\ call' = [call EXCEPT ![c] = [pc |-> to, key |-> key]]
    /\ UNCHANGED <<rows, store, task>>

Return(c, from) ==
    /\ call[c].pc = from
    /\ call' = [call EXCEPT ![c] = IdleCall]

\* RequestUpload looks the video up and picks the key its extension gives.
BeginRequestUpload(c) ==
    /\ c \in Uploaders
    /\ \E key \in RawKeys :
        \/ /\ video.status = "ABSENT"
           /\ Begin(c, "insert", key)
        \/ /\ video.status \notin InFlightStatuses \cup {"ABSENT"}
           /\ Begin(c, "reupload", key)

\* It creates the row; a row created meanwhile breaks UNIQUE (lesson_id).
SaveFirstUpload(c) ==
    \/ /\ CallStep(c, "insert", "ticket")
       /\ InsertVideo(call[c].key)
       /\ UNCHANGED <<store, task>>
    \/ /\ Return(c, "insert")
       /\ video.status # "ABSENT"
       /\ UNCHANGED <<rows, store, task>>

SaveReupload(c) ==
    /\ CallStep(c, "reupload", "ticket")
    /\ UpdateVideoForReupload(call[c].key)
    /\ UNCHANGED <<store, task>>

\* The presigned URL reaches the instructor.
IssueTicket(c) ==
    /\ Return(c, "ticket")
    /\ urls' = urls \cup {call[c].key}
    /\ UNCHANGED <<rows, raw, hls, master, task>>

\* CompleteUpload proceeds on UPLOADING only.
BeginCompleteUpload(c) ==
    /\ video.status = "UPLOADING"
    /\ Begin(c, "head", video.rawKey)

\* HeadObject; it also answers "missing" when storage cannot be reached.
HeadRawObject(c) ==
    /\ UNCHANGED <<rows, store, task>>
    /\ \/ Return(c, "head")
       \/ /\ CallStep(c, "head", "toolarge")
          /\ raw[call[c].key] \in TooLarge
       \/ /\ CallStep(c, "head", "complete")
          /\ raw[call[c].key] \in Contents \ TooLarge

RejectTooLarge(c) ==
    /\ Return(c, "toolarge")
    /\ SetVideoFailed
    /\ UNCHANGED <<store, task>>

\* The compare-and-swap into QUEUED, of CompleteUpload and of Retranscode:
\* only the call whose swap applied goes on to enqueue the job.
EnterQueue(c, step, from) ==
    /\ \/ /\ CallStep(c, step, "enqueue")
          /\ TransitionVideoStatus(from, "QUEUED")
       \/ /\ Return(c, step)
          /\ TransitionMissed(from)
    /\ UNCHANGED <<store, task>>

CommitCompleteUpload(c) == EnterQueue(c, "complete", "UPLOADING")

\* Mutation of BeginRetranscode: the status and the key are not looked at.
BeginRetranscodeUnchecked(c) == Begin(c, "retry", video.rawKey)

BeginRetranscode(c) ==
    /\ video.status = "FAILED"
    /\ Begin(c, "retry", video.rawKey)

CommitRetranscode(c) == EnterQueue(c, "retry", "FAILED")

EnqueueMetadataExtract(c) ==
    /\ Return(c, "enqueue")
    /\ \E t \in TaskIds :
        /\ ~Live(t)
        /\ task' = [task EXCEPT ![t] = Job("metadata", call[c].key, None, MaxRetry)]
    /\ UNCHANGED <<rows, store>>

\* The request dies: the client went away, a call failed, the API stopped.
AbandonCall(c) ==
    /\ "lost" \in Faults
    /\ call[c] # IdleCall
    /\ Return(c, call[c].pc)
    /\ UNCHANGED <<rows, store, task>>

Publish ==
    /\ TransitionVideoStatus("READY", "PUBLISHED")
    /\ UNCHANGED <<store, call, task>>

\* The instructor's PUT to storage, through any URL that has not expired.
ClientPut(key, content) ==
    /\ key \in urls
    /\ \/ "latePut" \in Faults
       \/ /\ video.status = "UPLOADING"
          /\ video.rawKey = key
          /\ \A c \in Calls : call[c].pc \notin {"head", "toolarge", "complete"}
    /\ raw' = [raw EXCEPT ![key] = content]
    /\ UNCHANGED <<rows, hls, master, urls, call, task>>

ExpireURL(key) ==
    /\ key \in urls
    /\ urls' = urls \ {key}
    /\ UNCHANGED <<rows, raw, hls, master, call, task>>

Reap ==
    /\ ReaperRuns
    /\ ResetStaleUploads
    /\ UNCHANGED <<store, call, task>>

-------------------------------------------------------------------------------
(* The jobs.  A handler that returns nil is acknowledged and its slot freed. *)

TaskAt(t, kind, pc) == task[t].kind = kind /\ task[t].pc = pc

Goto(t, pc) == task' = [task EXCEPT ![t].pc = pc]

Ack(t) == task' = [task EXCEPT ![t] = FreeTask]

\* Mutation of Retried: one retry too many.
RetriedOnceMore(t) ==
    IF task[t].tries >= 0
    THEN Job(task[t].kind, task[t].key, task[t].resolution, task[t].tries - 1)
    ELSE FreeTask

\* The job from its beginning, no retry counted.
Requeued(t) == Job(task[t].kind, task[t].key, task[t].resolution, task[t].tries)

\* The handler returned an error, or never answered: asynq runs the job again
\* from its beginning until MaxRetry is used up, then archives it.
Retried(t) ==
    IF task[t].tries > 0
    THEN Job(task[t].kind, task[t].key, task[t].resolution, task[t].tries - 1)
    ELSE FreeTask

StartMetadataExtract(t) ==
    /\ TaskAt(t, "metadata", "queued")
    /\ \/ video.status = "QUEUED" /\ Goto(t, "extract")
       \/ video.status # "QUEUED" /\ Ack(t)
    /\ UNCHANGED <<rows, store, call>>

\* downloadToTemp; the probe and ffmpeg that follow it work on the local copy.
Download(t, kind, from, to) ==
    /\ TaskAt(t, kind, from)
    /\ raw[task[t].key] # None
    /\ task' = [task EXCEPT ![t].pc = to, ![t].src = raw[task[t].key]]
    /\ UNCHANGED <<rows, store, call>>

\* ffprobe answers and lists a video stream.
ExtractMetadata(content) == content \notin NoVideo

ProbeRaw(t) ==
    /\ Download(t, "metadata", "extract", "metadata")
    /\ ExtractMetadata(raw[task[t].key])

SaveMetadata(t) ==
    /\ TaskAt(t, "metadata", "metadata")
    /\ UpdateVideoMetadata(task[t].src)
    /\ Goto(t, IF task[t].src \in Untimed THEN "chain" ELSE "duration")
    /\ UNCHANGED <<store, call>>

SaveDuration(t) ==
    /\ TaskAt(t, "metadata", "duration")
    /\ UpdateLessonDuration(task[t].src)
    /\ Goto(t, "chain")
    /\ UNCHANGED <<store, call>>

\* Mutation of EnqueueTranscode: the task is created with the type of this one.
EnqueueMetadataAgain(t) ==
    /\ TaskAt(t, "metadata", "chain")
    /\ task' = [task EXCEPT ![t] = Job("metadata", task[t].key, None, MaxRetry)]
    /\ UNCHANGED <<rows, store, call>>

TranscodeJob(t) == Job("transcode", task[t].key, task[t].src, MaxRetry)

\* The next job is enqueued and this one acknowledged (it takes over the slot).
EnqueueTranscode(t) ==
    /\ TaskAt(t, "metadata", "chain")
    /\ task' = [task EXCEPT ![t] = TranscodeJob(t)]
    /\ UNCHANGED <<rows, store, call>>

\* The next job is enqueued and the worker dies before the ack: both remain.
EnqueueTranscodeTwice(t) ==
    /\ "dup" \in Faults
    /\ TaskAt(t, "metadata", "chain")
    /\ \E u \in TaskIds :
        /\ ~Live(u)
        /\ task' = [task EXCEPT ![u] = TranscodeJob(t), ![t] = Retried(t)]
    /\ UNCHANGED <<rows, store, call>>

\* Mutation of StartTranscode: PROCESSING is taken for already handled.
StartTranscodeQueuedOnly(t) ==
    /\ TaskAt(t, "transcode", "queued")
    /\ \/ video.status = "QUEUED" /\ Goto(t, "claim")
       \/ video.status # "QUEUED" /\ Ack(t)
    /\ UNCHANGED <<rows, store, call>>

StartTranscode(t) ==
    /\ TaskAt(t, "transcode", "queued")
    /\ \/ video.status = "QUEUED" /\ Goto(t, "claim")
       \/ video.status = "PROCESSING" /\ Goto(t, "download")
       \/ video.status \notin {"QUEUED", "PROCESSING"} /\ Ack(t)
    /\ UNCHANGED <<rows, store, call>>

\* A swap that does not apply is ignored.
ClaimVideo(t) ==
    /\ TaskAt(t, "transcode", "claim")
    /\ \/ TransitionVideoStatus("QUEUED", "PROCESSING")
       \/ TransitionMissed("QUEUED")
    /\ Goto(t, "download")
    /\ UNCHANGED <<store, call>>

TranscodeRaw(t) == Download(t, "transcode", "download", "put")

\* The rungs of a transcode job: its payload decides, not what it downloaded.
RungsOf(t) == RenditionsForSourceHeight(Height[task[t].resolution])

\* What ffmpeg made of the content this attempt downloaded.
Output(t) == Transcode(RungsOf(t), Segments[task[t].src])

Left(t) == Output(t) \ task[t].done

\* Mutation of PutFile: a file that is in storage already is not put again.
PutMissingFile(t) ==
    /\ TaskAt(t, "transcode", "put")
    /\ \E f \in Left(t) :
        /\ \A g \in Left(t) : ~WalksBefore(g, f)
        /\ hls' = [hls EXCEPT ![f] = IF @ = None THEN task[t].src ELSE @]
        /\ task' = [task EXCEPT ![t].done = @ \cup {f}]
    /\ UNCHANGED <<rows, raw, master, urls, call>>

\* PutObject of the next file of the ladder.
PutFile(t) ==
    /\ TaskAt(t, "transcode", "put")
    /\ \E f \in Left(t) :
        /\ \A g \in Left(t) : ~WalksBefore(g, f)
        /\ hls' = [hls EXCEPT ![f] = task[t].src]
        /\ task' = [task EXCEPT ![t].done = @ \cup {f}]
    /\ UNCHANGED <<rows, raw, master, urls, call>>

\* Mutation of PutMaster: the last segments of the walk are not waited for.
PutMasterEarly(t) ==
    /\ TaskAt(t, "transcode", "put")
    /\ \A f \in Left(t) : f[2] # Playlist
    /\ master' = RungsOf(t)
    /\ Goto(t, "key")
    /\ UNCHANGED <<rows, raw, hls, urls, call>>

\* master.m3u8 lists the rungs of the job; it is the last file of the walk.
PutMaster(t) ==
    /\ TaskAt(t, "transcode", "put")
    /\ Left(t) = {}
    /\ master' = RungsOf(t)
    /\ Goto(t, "key")
    /\ UNCHANGED <<rows, raw, hls, urls, call>>

SaveHLSMasterKey(t) ==
    /\ TaskAt(t, "transcode", "key")
    /\ UpdateVideoHLSMasterKey
    /\ Goto(t, "ready")
    /\ UNCHANGED <<store, call>>

MarkReady(t) ==
    /\ TaskAt(t, "transcode", "ready")
    /\ \/ TransitionVideoStatus("PROCESSING", "READY")
       \/ TransitionMissed("PROCESSING")
    /\ Ack(t)
    /\ UNCHANGED <<store, call>>

\* A guarded step fails: markFailed, then the handler returns the error.
FailTask(t) ==
    /\ task[t].pc \in {"extract", "download", "put"}
    /\ \/ "error" \in Faults
       \/ task[t].pc # "put" /\ raw[task[t].key] \in NoVideo \cup {None}
    /\ SetVideoFailed
    /\ task' = [task EXCEPT ![t] = Retried(t)]
    /\ UNCHANGED <<store, call>>

\* An unguarded step fails and the handler returns its error, or the handler
\* never returns: asynq counts a retry and nothing is marked.
AbortTask(t) ==
    /\ "abort" \in Faults
    /\ Live(t)
    /\ task' = [task EXCEPT ![t] = Retried(t)]
    /\ UNCHANGED <<rows, store, call>>

\* Run gets SIGTERM: what is still running after the grace period goes back to
\* the queue, and asynq counts no retry.
RequeueTask(t) ==
    /\ "shutdown" \in Faults
    /\ Live(t)
    /\ task' = [task EXCEPT ![t] = Requeued(t)]
    /\ UNCHANGED <<rows, store, call>>

-------------------------------------------------------------------------------

\* What a request does once it has begun, and a job that is not interrupted.
CallProgress(c) ==
    \/ SaveFirstUpload(c)
    \/ SaveReupload(c)
    \/ IssueTicket(c)
    \/ HeadRawObject(c)
    \/ RejectTooLarge(c)
    \/ CommitCompleteUpload(c)
    \/ CommitRetranscode(c)
    \/ EnqueueMetadataExtract(c)

TaskProgress(t) ==
    \/ StartMetadataExtract(t)
    \/ ProbeRaw(t)
    \/ SaveMetadata(t)
    \/ SaveDuration(t)
    \/ EnqueueTranscode(t)
    \/ StartTranscode(t)
    \/ ClaimVideo(t)
    \/ TranscodeRaw(t)
    \/ PutFile(t)
    \/ PutMaster(t)
    \/ SaveHLSMasterKey(t)
    \/ MarkReady(t)
    \/ FailTask(t)

ApiNext ==
    \E c \in Calls :
        \/ CallProgress(c)
        \/ BeginRequestUpload(c)
        \/ BeginCompleteUpload(c)
        \/ BeginRetranscode(c)
        \/ AbandonCall(c)

WorkerNext ==
    \E t \in TaskIds :
        \/ TaskProgress(t)
        \/ EnqueueTranscodeTwice(t)
        \/ AbortTask(t)

\* The worker process is stopped.
ShutdownNext == \E t \in TaskIds : RequeueTask(t)

StorageNext ==
    \E key \in RawKeys :
        \/ ExpireURL(key)
        \/ \E content \in Contents : ClientPut(key, content)

Next ==
    \/ ApiNext
    \/ WorkerNext
    \/ ShutdownNext
    \/ StorageNext
    \/ Publish
    \/ Reap

Spec == Init /\ [][Next]_vars

\* net/http runs a request to its end; asynq keeps delivering a job it holds
\* and its ten workers outnumber the jobs of one lesson.  Nobody is obliged to
\* begin a request, to publish or to make a step fail.  A reaper with a caller
\* would run again and again.  A worker that is stopped before every job is done
\* gets nothing done: from some point on it is left running.
Fairness ==
    /\ \A c \in Calls : WF_vars(CallProgress(c))
    /\ \A t \in TaskIds : WF_vars(TaskProgress(t))
    /\ WF_vars(Reap)
    /\ <>[][~ShutdownNext]_vars

FairSpec == Spec /\ Fairness

-------------------------------------------------------------------------------
(* Properties.  InProcessing is the stretch of the lifecycle that only the   *)
(* worker can end: every request refuses a QUEUED or PROCESSING video.       *)

InProcessing == video.status \in {"QUEUED", "PROCESSING"}

Playable == video.status \in {"READY", "PUBLISHED"}

\* Every variable keeps its type: the retries stay in their range, only files
\* of the ladder are put, a job slot is used or free as a whole.
TypeOK ==
    /\ video \in Video
    /\ lesson \in Lesson
    /\ raw \in [RawKeys -> Contents \cup {None}]
    /\ hls \in [Files -> Contents \cup {None}]
    /\ master \subseteq Rungs
    /\ urls \subseteq RawKeys
    /\ call \in [Calls -> Call]
    /\ task \in [TaskIds -> Task]

\* Whoever is about to use a storage key has one: presigning, HeadObject, a
\* job's payload.  The "has no raw_key" branches of CompleteUpload and
\* Retranscode are never taken, and a job never writes what it has not read.
NothingMissing ==
    /\ video.status # "ABSENT" => video.rawKey \in RawKeys
    /\ \A c \in Calls : call[c] # IdleCall => call[c].key \in RawKeys
    /\ \A t \in TaskIds :
        /\ Live(t) => task[t].key \in RawKeys
        /\ task[t].pc \in {"metadata", "duration", "chain", "put"} => task[t].src \in Contents
        /\ task[t].kind = "transcode" => task[t].resolution \in Contents

\* repo.go, "lessons.status is updated in the same transaction to stay in
\* lockstep": the catalogue never shows a status the video does not have.
LessonMirrorsVideo ==
    lesson.status = IF video.status = "ABSENT" THEN "DRAFT" ELSE video.status

\* Someone will still act on a QUEUED video: a request about to enqueue its
\* job, a metadata job, or a transcode job that has not tried to claim it.
QueuedDriven ==
    \/ \E c \in Calls : call[c].pc = "enqueue"
    \/ \E t \in TaskIds :
        /\ Live(t)
        /\ task[t].kind = "metadata" \/ task[t].pc \in {"queued", "claim"}

\* Someone will still act on a PROCESSING video.
ProcessingDriven == \E t \in TaskIds : Live(t) /\ task[t].kind = "transcode"

Driven ==
    /\ video.status = "QUEUED" => QueuedDriven
    /\ video.status = "PROCESSING" => ProcessingDriven

\* However requests, retries and redeliveries interleave, a video in
\* processing loses its last job only when a request dies before it enqueues
\* or a job ends without a mark.  The early returns of the two handlers never
\* drop the job somebody depends on.
OnlyDeathStrands ==
    [][Driven => \/ Driven'
                 \/ \E c \in Calls : AbandonCall(c)
                 \/ \E t \in TaskIds : AbortTask(t)]_vars

\* The steps of an attempt of either kind, in order.
StepNumber == [queued |-> 0, extract |-> 1, metadata |-> 2, duration |-> 3, chain |-> 4,
               claim |-> 1, download |-> 2, put |-> 3, key |-> 4, ready |-> 5]

\* Job j has less before it than job i: it is over, or the next job of the
\* chain, or a later attempt of the same job, or further in the same attempt.
CloserToEnd(j, i) ==
    \/ j.kind = "free" /\ i.kind # "free"
    \/ j.kind = "transcode" /\ i.kind = "metadata"
    \/ j.kind = i.kind /\ j.tries < i.tries
    \/ /\ j.kind = i.kind /\ j.tries = i.tries
       /\ \/ StepNumber[j.pc] > StepNumber[i.pc]
          \/ j.pc = i.pc /\ i.done \subseteq j.done /\ i.done # j.done

\* upload.go, asynq.MaxRetry: whatever fails, dies or is delivered twice, a step
\* of the worker puts in the place of one job only jobs closer to the end.  No
\* chain goes on for ever unless requests enqueue for ever.
JobsAdvance ==
    [][WorkerNext =>
         \E t \in TaskIds :
             /\ Live(t)
             /\ CloserToEnd(task'[t], task[t])
             /\ \A u \in TaskIds \ {t} :
                  \/ task'[u] = task[u]
                  \/ ~Live(u) /\ CloserToEnd(task'[u], task[t])]_vars

\* Every file of the ladder of a content at these rungs is in storage.
Backed(rungs, content) == \A f \in Transcode(rungs, Segments[content]) : hls[f] # None

\* repo.go and worker.go, READY after the last file: whatever stale jobs of other
\* uploads, taller or lower, longer or shorter, do to the same keys, a READY or
\* PUBLISHED video has a master playlist with at least one rung, and the whole
\* ladder of some upload is in storage at the rungs it lists.
ReadyIsComplete ==
    Playable =>
        /\ master # {}
        /\ \E content \in Contents : Backed(master, content)

\* Design §6, "safe to rerun (idempotent)", and §4, the old ladder is kept "until
\* the new transcode reaches READY, then swapped": every segment that a playlist
\* of a READY or PUBLISHED video names is in storage.
PlaylistsAreBacked ==
    Playable =>
        \A r \in master :
            /\ hls[<<r, Playlist>>] # None
            /\ Backed({r}, hls[<<r, Playlist>>])

\* The idempotency shape of worker.go: whatever a job last read, its writes
\* move the status of a video in processing only.  A stale failure or a
\* redelivery never touches a READY, PUBLISHED or FAILED video, nor a new upload
\* before it is completed.
WorkerOnlyMovesInProcessing ==
    [][task' # task /\ video'.status # video.status => InProcessing]_vars

\* The lesson row moves as the lifecycle of the design allows, even if a stale
\* RequestUpload replaces a video at any point of it.
Lifecycle == INSTANCE VideoLifecycle WITH
                 status <- lesson.status, ReuploadFrom <- Statuses

LifecycleSpec == Lifecycle!Spec

\* The statuses RequestUpload lets through: those of a video in no flight.
Settled == {"DRAFT", "FAILED", "READY", "PUBLISHED"}

\* Requests overlap, and yet what one of them writes still agrees with what it
\* has read: the status RequestUpload and the size check looked at, and the key
\* of the upload that enters the queue.
ReadsHold ==
    \A c \in Calls :
        /\ SaveReupload(c) => video.status \in Settled
        /\ RejectTooLarge(c) => ~InProcessing
        /\ call[c].pc # "enqueue" /\ call'[c].pc = "enqueue" => call[c].key = video.rawKey

\* repo.go, "the caller has already validated": it has, if requests follow one
\* another, whatever jobs and late PUTs do in between.
ReadsAlwaysHold == [][ReadsHold]_vars

\* ... and as long as reads hold, no video in flight is replaced.
StrictLifecycle == INSTANCE VideoLifecycle WITH
                       status <- lesson.status, ReuploadFrom <- Settled

StrictLifecycleSpec == StrictLifecycle!Spec

\* What the code leaves to its callers.  A video is replaced only when nothing of
\* its earlier upload is pending: no job asynq still holds, at whatever attempt,
\* and no request that has read its key.
NothingPending ==
    /\ \A t \in TaskIds : ~Live(t)
    /\ \A c \in Calls :
        call[c].pc \notin {"head", "toolarge", "complete", "retry", "enqueue"}

\* Someone reads the upload, or has read it and shows the result.
InUse ==
    \/ \E t \in TaskIds : Live(t)
    \/ \E c \in Calls : call[c].pc = "enqueue"
    \/ InProcessing
    \/ Playable

\* ... and the object is not overwritten through an old URL while it is in use.
\* Failures, deaths, retries of a FAILED video beside a new chain, duplicated
\* jobs, stale reads and PUTs before completion are all left in.
UploadHeld ==
    /\ \A c \in Calls : SaveReupload(c) => NothingPending
    /\ InUse => raw'[video.rawKey] = raw[video.rawKey]

\* worker.go, "safely re-run ... a no-op in effect": the stream, the metadata
\* and the duration students get are those of the upload that was completed.
ReadyServesCurrentUpload ==
    LET upload == raw[video.rawKey] IN
    Playable =>
        /\ video.hls
        /\ master # {}
        /\ \A f \in Transcode(master, Segments[upload]) : hls[f] = upload
        /\ video.meta = upload
        /\ upload \in Untimed \/ lesson.duration = upload

\* Design §2, "ladder decisions depend on source resolution": the rungs offered
\* are those of the upload that is served, all that fit it and none above it,
\* though the job that encodes them was told the height by another job.
LadderFitsUpload ==
    LET height == Height[raw[video.rawKey]] IN
    Playable =>
        /\ \A r \in Rungs : r <= height => r \in master
        /\ (\A r \in master : r <= height) \/ master = {240}

\* Processing ends, in READY or FAILED (or is overtaken by a new upload),
\* unless the video lost its last job.
InProcessingSettles == InProcessing ~> (~InProcessing \/ ~Driven)

\* upload.go: a video is not "re-uploaded over" while that risks "corrupting an
\* active processing run".
ProcessingNeverReplaced ==
    [][\A c \in Calls : SaveReupload(c) => ~InProcessing]_vars

\* Design §4: a transcode that keeps failing ends in FAILED, where the
\* instructor can retry it.
ProcessingEnds == InProcessing ~> ~InProcessing

================================================================================
