----------------------------- MODULE ReadsHoldProofs -----------------------------
(* What one request reads stays true until it writes, if requests follow one    *)
(* another: whatever the jobs, the transfers, a shutdown and the reaper do in   *)
(* between.  The run stale_request shows what two overlapping requests do.      *)
EXTENDS VideoPipelineSafety

\* One step of a request.
RequestNext(c) ==
    \/ CallProgress(c)
    \/ BeginRequestUpload(c)
    \/ BeginCompleteUpload(c)
    \/ BeginRetranscode(c)
    \/ AbandonCall(c)

\* What a request makes of the rows when its reads hold: nothing, a new upload
\* of a video in no flight, or the entry of the uploaded object into the queue.
KeepsRows(c) == UNCHANGED rows /\ call'[c].pc # "enqueue"

Replaces(c) ==
    /\ video.status \in Settled \cup {"ABSENT"}
    /\ video'.status = "UPLOADING"
    /\ call'[c].pc = "ticket"
    /\ UNCHANGED task

EntersFrom(c, step, from) ==
    /\ call[c].pc = step /\ video.status = from
    /\ call[c].key = video.rawKey
    /\ call'[c].pc = "enqueue" /\ call'[c].key = video.rawKey
    /\ video' = [video EXCEPT !.status = "QUEUED"]
    /\ UNCHANGED task

Enters(c) == EntersFrom(c, "complete", "UPLOADING") \/ EntersFrom(c, "retry", "FAILED")

LEMMA SwapEnters ==
    ASSUME TypeOK, ReadsHold, NEW c \in Calls,
           NEW step \in CallSteps \ {"enqueue"}, NEW from, EnterQueue(c, step, from)
    PROVE  KeepsRows(c) \/ EntersFrom(c, step, from)
<1>1. call[c] \in Call /\ call \in [Calls -> Call]
  BY DEF TypeOK
<1>2. CASE CallStep(c, step, "enqueue") /\ TransitionVideoStatus(from, "QUEUED")
  <2>1. call[c].pc = step /\ call'[c].pc = "enqueue" /\ call'[c].key = call[c].key
    BY <1>1, <1>2 DEF CallStep, Call
  <2>2. call[c].key = video.rawKey
    BY <2>1 DEF ReadsHold
  <2> QED
    BY <1>2, <2>1, <2>2 DEF TransitionVideoStatus, SetStatus, EnterQueue, EntersFrom
<1>3. CASE Return(c, step) /\ TransitionMissed(from)
  BY <1>1, <1>3 DEF Return, IdleCall, TransitionMissed, KeepsRows
<1> QED
  BY <1>2, <1>3 DEF EnterQueue

LEMMA RequestRows ==
    ASSUME TypeOK, NEW c \in Calls, RequestNext(c), ReadsHold
    PROVE  KeepsRows(c) \/ Replaces(c) \/ Enters(c)
<1>1. call[c] \in Call /\ call \in [Calls -> Call] /\ video \in Video
  BY DEF TypeOK
<1> USE DEF KeepsRows, Replaces, Enters
<1>2. CASE SaveFirstUpload(c)
  <2>1. CASE CallStep(c, "insert", "ticket") /\ InsertVideo(call[c].key)
    BY <1>1, <1>2, <2>1 DEF SaveFirstUpload, CallStep, InsertVideo, SetStatus, Call, Video
  <2>2. CASE Return(c, "insert") /\ UNCHANGED rows
    BY <1>1, <2>2 DEF Return, IdleCall
  <2> QED
    BY <1>2, <2>1, <2>2 DEF SaveFirstUpload
<1>3. CASE SaveReupload(c)
  BY <1>1, <1>3 DEF ReadsHold, SaveReupload, CallStep, UpdateVideoForReupload, SetStatus, Call, Video
<1>4. CASE RejectTooLarge(c)
  BY <1>1, <1>4 DEF ReadsHold, RejectTooLarge, Return, IdleCall, SetVideoFailed, InProcessing
<1>5. CASE CommitCompleteUpload(c) \/ CommitRetranscode(c)
  BY <1>5, SwapEnters DEF CommitCompleteUpload, CommitRetranscode, CallSteps
<1>6. CASE HeadRawObject(c)
  BY <1>1, <1>6 DEF HeadRawObject, CallStep, Return, IdleCall, Call
<1>7. CASE IssueTicket(c) \/ EnqueueMetadataExtract(c) \/ AbandonCall(c)
  BY <1>1, <1>7 DEF IssueTicket, EnqueueMetadataExtract, AbandonCall, Return, IdleCall
<1>8. CASE BeginRequestUpload(c) \/ BeginCompleteUpload(c) \/ BeginRetranscode(c)
  BY <1>1, <1>8 DEF BeginRequestUpload, BeginCompleteUpload, BeginRetranscode, Begin
<1> QED
  BY <1>2, <1>3, <1>4, <1>5, <1>6, <1>7, <1>8 DEF RequestNext, CallProgress

\* A step that is not a request's leaves the requests and the key alone, and
\* moves the status in processing, from READY to PUBLISHED or from UPLOADING to
\* DRAFT.
LEMMA OthersMove ==
    ASSUME TypeOK, WorkerNext \/ ShutdownNext \/ StorageNext \/ Publish \/ Reap \/ UNCHANGED vars
    PROVE  /\ UNCHANGED call
           /\ video'.rawKey = video.rawKey
           /\ \/ StatusKept
              \/ StatusMove({"QUEUED"}, "PROCESSING")
              \/ StatusMove({"PROCESSING"}, "READY")
              \/ StatusMove({"QUEUED", "PROCESSING"}, "FAILED")
              \/ StatusMove({"READY"}, "PUBLISHED")
              \/ StatusMove({"UPLOADING"}, "DRAFT")
<1>1. UNCHANGED call
  BY DEF WorkerNext, TaskProgress, StartMetadataExtract, ProbeRaw, Download,
       SaveMetadata, SaveDuration, EnqueueTranscode, EnqueueTranscodeTwice, StartTranscode,
       ClaimVideo, TranscodeRaw, PutFile, PutMaster, SaveHLSMasterKey, MarkReady, FailTask,
       AbortTask, ShutdownNext, RequeueTask, StorageNext, ExpireURL, ClientPut, Publish, Reap, vars
<1>2. video'.rawKey = video.rawKey
  <2> USE DEF TypeOK, Video, SetStatus, TransitionVideoStatus, TransitionMissed, SetVideoFailed, rows
  <2>1. CASE WorkerNext
    BY <2>1 DEF WorkerNext, TaskProgress, StartMetadataExtract, ProbeRaw, Download,
         SaveMetadata, UpdateVideoMetadata, SaveDuration, UpdateLessonDuration,
         EnqueueTranscode, EnqueueTranscodeTwice, StartTranscode, ClaimVideo, TranscodeRaw,
         PutFile, PutMaster, SaveHLSMasterKey, UpdateVideoHLSMasterKey, MarkReady, FailTask,
         AbortTask
  <2>2. CASE ShutdownNext \/ StorageNext \/ Publish \/ Reap \/ UNCHANGED vars
    BY <2>2 DEF ShutdownNext, RequeueTask, StorageNext, ExpireURL, ClientPut, Publish, Reap,
         ResetStaleUploads, vars
  <2> QED
    BY <2>1, <2>2
<1> QED
  BY <1>1, <1>2, WorkerMoves, OtherMoves

-------------------------------------------------------------------------------
(* No video in flight is replaced *)

\* A request whose reads hold moves the two statuses along the lifecycle; if it
\* replaces a video, the video is in no flight.
LEMMA StrictApiMoves ==
    ASSUME TypeOK, NothingMissing, LessonMirrorsVideo, LessonMirrorsVideo',
           NEW c \in Calls, RequestNext(c), ReadsHold
    PROVE  \/ StatusKept
           \/ StatusMove(Settled \cup {"ABSENT"}, "UPLOADING")
           \/ StatusMove({"UPLOADING", "FAILED"}, "QUEUED")
<1>1. CASE KeepsRows(c)
  BY <1>1 DEF KeepsRows, StatusKept, rows
<1>2. CASE Replaces(c)
  BY <1>2 DEF Replaces, StatusMove, LessonMirrorsVideo
<1>3. CASE Enters(c)
  BY <1>3 DEF Enters, EntersFrom, StatusMove, LessonMirrorsVideo, TypeOK, Video
<1> QED
  BY <1>1, <1>2, <1>3, RequestRows

\* With any number of stale, retried or repeated jobs, as long as reads hold, the
\* worker, the transfers and the reaper keep to the lifecycle as well.
LEMMA StrictAsReadsHold == Spec /\ ReadsAlwaysHold => StrictLifecycleSpec
<1>1. Init => StrictLifecycle!Init
  BY DEF Init, RepoInit, StrictLifecycle!Init
<1>2. /\ TypeOK /\ NothingMissing /\ LessonMirrorsVideo /\ LessonMirrorsVideo'
      /\ [Next]_vars /\ [ReadsHold]_vars
      => [StrictLifecycle!Next]_(lesson.status)
  <2> SUFFICES ASSUME TypeOK, NothingMissing, LessonMirrorsVideo, LessonMirrorsVideo',
                      [Next]_vars, [ReadsHold]_vars
               PROVE  [StrictLifecycle!Next]_(lesson.status)
    OBVIOUS
  <2> USE DEF LessonMirrorsVideo, StatusMove, StatusKept, Settled, StrictLifecycle!Next,
              StrictLifecycle!Move, StrictLifecycle!Upload, StrictLifecycle!Complete,
              StrictLifecycle!Claim, StrictLifecycle!Finish, StrictLifecycle!Fail,
              StrictLifecycle!Retry, StrictLifecycle!Publish, StrictLifecycle!Reset
  <2>1. CASE WorkerNext \/ ShutdownNext \/ StorageNext \/ Publish \/ Reap \/ UNCHANGED vars
    BY <2>1, OthersMove
  <2>2. CASE ApiNext /\ ~UNCHANGED vars
    <3>1. PICK c \in Calls : RequestNext(c)
      BY <2>2 DEF ApiNext, RequestNext
    <3> QED
      BY <2>2, <3>1, StrictApiMoves
  <2> QED
    BY <2>1, <2>2 DEF Next
<1> QED
  BY <1>1, <1>2, TypesKept, LessonMirrors, PTL
     DEF Spec, ReadsAlwaysHold, StrictLifecycleSpec, StrictLifecycle!Spec

-------------------------------------------------------------------------------
(* Requests that follow one another *)

OneAtATime == \A c, d \in Calls : c = d

\* What a request still knows of the status and the key it read.
RequestKnows(c) ==
    /\ call[c].pc = "reupload" => video.status \in Settled
    /\ call[c].pc \in {"head", "toolarge", "complete"} =>
         video.status \in {"UPLOADING", "DRAFT"} /\ call[c].key = video.rawKey
    /\ call[c].pc = "retry" => video.status = "FAILED" /\ call[c].key = video.rawKey

RequestsKnow ==
    /\ video.status # "UPLOADED"
    /\ \A c \in Calls : RequestKnows(c)

\* A step of the only request: what it knows afterwards.
LEMMA RequestStep ==
    ASSUME TypeOK, NothingMissing, RequestsKnow, NEW c \in Calls, RequestNext(c)
    PROVE  video'.status # "UPLOADED" /\ RequestKnows(c)'
<1> USE DEF RequestsKnow, RequestKnows, TypeOK, Video, Lesson, Call, SetStatus, IdleCall
<1>1. CASE SaveFirstUpload(c)
  <2>1. call'[c].pc \in {"ticket", "idle"} /\ video'.status \in {video.status, "UPLOADING"}
    <3>1. CASE CallStep(c, "insert", "ticket") /\ InsertVideo(call[c].key)
      BY <3>1 DEF CallStep, InsertVideo
    <3>2. CASE Return(c, "insert") /\ UNCHANGED rows
      BY <3>2 DEF Return, rows
    <3> QED
      BY <1>1, <3>1, <3>2 DEF SaveFirstUpload
  <2> QED
    BY <2>1
<1>2. CASE SaveReupload(c)
  BY <1>2 DEF SaveReupload, CallStep, UpdateVideoForReupload
<1>3. CASE IssueTicket(c) \/ EnqueueMetadataExtract(c) \/ AbandonCall(c)
  BY <1>3 DEF IssueTicket, EnqueueMetadataExtract, AbandonCall, Return, rows
<1>4. CASE HeadRawObject(c)
  BY <1>4 DEF HeadRawObject, CallStep, Return, rows
<1>5. CASE RejectTooLarge(c)
  BY <1>5 DEF RejectTooLarge, Return, SetVideoFailed, rows
<1>6. CASE CommitCompleteUpload(c) \/ CommitRetranscode(c)
  BY <1>6 DEF CommitCompleteUpload, CommitRetranscode, EnterQueue, CallStep, Return,
       TransitionVideoStatus, TransitionMissed, rows
<1>7. CASE BeginRequestUpload(c)
  BY <1>7 DEF BeginRequestUpload, Begin, InFlightStatuses, Statuses, Settled, rows
<1>8. CASE BeginCompleteUpload(c) \/ BeginRetranscode(c)
  BY <1>8 DEF BeginCompleteUpload, BeginRetranscode, Begin, rows
<1> QED
  BY <1>1, <1>2, <1>3, <1>4, <1>5, <1>6, <1>7, <1>8 DEF RequestNext, CallProgress

LEMMA RequestsKnowStep ==
    ASSUME OneAtATime, TypeOK, NothingMissing, RequestsKnow, [Next]_vars
    PROVE  RequestsKnow'
<1>1. CASE ApiNext
  <2>1. PICK c \in Calls : RequestNext(c)
    BY <1>1 DEF ApiNext, RequestNext
  <2>2. video'.status # "UPLOADED" /\ RequestKnows(c)'
    BY <2>1, RequestStep
  <2>3. ASSUME NEW d \in Calls
        PROVE  RequestKnows(d)'
    <3>1. d = c
      BY DEF OneAtATime
    <3> QED
      BY <2>2, <3>1 DEF RequestKnows
  <2> QED
    BY <2>2, <2>3 DEF RequestsKnow
<1>2. CASE WorkerNext \/ ShutdownNext \/ StorageNext \/ Publish \/ Reap \/ UNCHANGED vars
  BY <1>2, OthersMove DEF RequestsKnow, RequestKnows, StatusMove, StatusKept, Settled
<1> QED
  BY <1>1, <1>2 DEF Next

\* A request that is alone writes what it has read.
LEMMA ReadsHoldStep ==
    ASSUME OneAtATime, TypeOK, RequestsKnow, [Next]_vars
    PROVE  ReadsHold
<1> SUFFICES ASSUME NEW c \in Calls
             PROVE  /\ SaveReupload(c) => video.status \in Settled
                    /\ RejectTooLarge(c) => ~InProcessing
                    /\ call[c].pc # "enqueue" /\ call'[c].pc = "enqueue" =>
                         call[c].key = video.rawKey
  BY DEF ReadsHold
<1>1. SaveReupload(c) => video.status \in Settled
  BY DEF SaveReupload, CallStep, RequestsKnow, RequestKnows
<1>2. RejectTooLarge(c) => ~InProcessing
  BY DEF RejectTooLarge, Return, RequestsKnow, RequestKnows, InProcessing
<1>3. ASSUME call[c].pc # "enqueue", call'[c].pc = "enqueue"
      PROVE  call[c].pc \in {"complete", "retry"}
  <2>1. ~UNCHANGED call
    BY <1>3
  <2>2. PICK d \in Calls : RequestNext(d)
    BY <2>1, OthersMove DEF Next, ApiNext, RequestNext
  <2>3. RequestNext(c)
    BY <2>2 DEF OneAtATime
  <2>4. CASE CommitCompleteUpload(c) \/ CommitRetranscode(c)
    BY <2>4 DEF CommitCompleteUpload, CommitRetranscode, EnterQueue, CallStep, Return
  <2>5. CASE ~CommitCompleteUpload(c) /\ ~CommitRetranscode(c)
    <3>1. call'[c].pc # "enqueue"
      BY <2>3, <2>5
         DEF RequestNext, CallProgress, SaveFirstUpload, SaveReupload, IssueTicket,
             HeadRawObject, RejectTooLarge, EnqueueMetadataExtract, BeginRequestUpload,
             BeginCompleteUpload, BeginRetranscode, Begin, AbandonCall, CallStep, Return,
             IdleCall, TypeOK, Call
    <3> QED
      BY <1>3, <3>1
  <2> QED
    BY <2>4, <2>5
<1> QED
  BY <1>1, <1>2, <1>3 DEF RequestsKnow, RequestKnows

\* Requests that do not overlap need no lock: whatever the jobs, the transfers
\* and the reaper do between its steps, what a request writes agrees with what
\* it has read.
THEOREM SequentialReadsHold ==
    ASSUME OneAtATime
    PROVE  Spec => ReadsAlwaysHold
<1>1. Init => RequestsKnow
  BY DEF Init, RepoInit, RequestsKnow, RequestKnows, IdleCall
<1>2. TypeOK /\ NothingMissing /\ RequestsKnow /\ [Next]_vars => RequestsKnow'
  BY RequestsKnowStep
<1>3. TypeOK /\ RequestsKnow /\ [Next]_vars => [ReadsHold]_vars
  BY ReadsHoldStep
<1> QED
  BY <1>1, <1>2, <1>3, TypesKept, PTL DEF Spec, ReadsAlwaysHold

\* With requests that do not overlap, the lesson row refines the lifecycle in
\* which no video in flight is ever replaced.
THEOREM ImplementsStrictLifecycle ==
    ASSUME OneAtATime
    PROVE  Spec => StrictLifecycleSpec
  BY SequentialReadsHold, StrictAsReadsHold, PTL

================================================================================
