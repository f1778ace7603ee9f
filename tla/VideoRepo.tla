------------------------------- MODULE VideoRepo -------------------------------
(***************************************************************************)
(* internal/video/repo.go: the row of videos and the row of lessons of one *)
(* lesson (videos.lesson_id is UNIQUE, so one lesson has at most one       *)
(* video), and one action per method that writes them.  Each method is one *)
(* SQL statement or one transaction, so each is one step.                  *)
(*                                                                         *)
(* Data kept: a content is the identity of an uploaded file; videos.meta   *)
(* and lessons.duration hold the content the probe measured; the HLS       *)
(* master key depends only on the course and the lesson, so only whether   *)
(* it is NULL is kept.  failed_reason, retry_count, sync_version and the   *)
(* timestamps are written and never read by the program, and left out.     *)
(***************************************************************************)
EXTENDS FiniteSets, Integers

CONSTANTS
    RawKeys,    \* storage keys a raw upload can have: one per file extension
    Contents,   \* the files an instructor can upload
    None        \* SQL NULL, an absent object

ASSUME NoneAssumption == None \notin RawKeys \cup Contents

VARIABLES video, lesson

rows == <<video, lesson>>

Statuses == {"DRAFT", "UPLOADING", "UPLOADED", "QUEUED", "PROCESSING",
             "READY", "PUBLISHED", "FAILED"}

\* Mutation of InFlightStatuses: the jobs already enqueued are forgotten.
UploadingStatuses == {"UPLOADING", "UPLOADED"}

InFlightStatuses == {"UPLOADING", "UPLOADED", "QUEUED", "PROCESSING"}

Video == [status : Statuses \cup {"ABSENT"}, rawKey : RawKeys \cup {None},
          hls : BOOLEAN, meta : Contents \cup {None}]

Lesson == [status : Statuses, duration : Contents \cup {None}]

\* The lesson exists, as a draft; it has no row in videos yet.
RepoInit ==
    /\ video = [status |-> "ABSENT", rawKey |-> None, hls |-> FALSE, meta |-> None]
    /\ lesson = [status |-> "DRAFT", duration |-> None]

\* One transaction writes videos.status and lessons.status.
SetStatus(v, to) ==
    /\ video' = [v EXCEPT !.status = to]
    /\ lesson' = [lesson EXCEPT !.status = to]

InsertVideo(key) ==
    /\ video.status = "ABSENT"
    /\ SetStatus([video EXCEPT !.rawKey = key], "UPLOADING")

\* Unconditional: the caller looked at the status in an earlier statement.
UpdateVideoForReupload(key) ==
    SetStatus([video EXCEPT !.rawKey = key, !.hls = FALSE], "UPLOADING")

\* Mutation of TransitionVideoStatus: the lessons row is left behind.
TransitionVideoOnly(from, to) ==
    /\ video.status = from
    /\ video' = [video EXCEPT !.status = to]
    /\ UNCHANGED lesson

\* The compare-and-swap applied ...
TransitionVideoStatus(from, to) ==
    /\ video.status = from
    /\ SetStatus(video, to)

\* ... or its WHERE clause matched no row, and it returned false.
TransitionMissed(from) ==
    /\ video.status # from
    /\ UNCHANGED rows

\* Mutation of SetVideoFailed: a failure applies from any status.
SetVideoFailedAnyway == SetStatus(video, "FAILED")

SetVideoFailed ==
    \/ /\ video.status \in {"QUEUED", "PROCESSING"}
       /\ SetStatus(video, "FAILED")
    \/ /\ video.status \notin {"QUEUED", "PROCESSING"}
       /\ UNCHANGED rows

UpdateVideoMetadata(content) ==
    /\ video' = [video EXCEPT !.meta = content]
    /\ UNCHANGED lesson

UpdateLessonDuration(content) ==
    /\ lesson' = [lesson EXCEPT !.duration = content]
    /\ UNCHANGED video

UpdateVideoHLSMasterKey ==
    /\ video' = [video EXCEPT !.hls = TRUE]
    /\ UNCHANGED lesson

\* The 24 hours since updated_at may or may not be over: the caller of this
\* action chooses the moment.
ResetStaleUploads == TransitionVideoStatus("UPLOADING", "DRAFT")

================================================================================
