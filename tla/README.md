# Gradex video service: specifications, checks and proofs

Gradex is the backend of a course platform. This directory specifies its video
service (`src/backend`): instructors upload the video of a lesson straight to
object storage, two background jobs turn it into an HLS ladder, instructors
publish it, students watch it and report their progress. Paths below are
relative to `src/backend/internal/` unless they start with `src/`.

Contents: 1 the system, 2 plan, 3 modules and code, 4 runs, 5 properties,
6 fairness, 7 proofs, 8 disagreements with the documents, 9 limits, 10 how to
run it.

## 1. The system

| Component | State | Operations | Talks to |
|---|---|---|---|
| Video rows, `video/repo.go` | `videos` (status, raw_key, hls_master_key, metadata), `lessons` (status, duration), `progress` | one SQL statement or transaction per method; status changes are compare-and-swaps, except a re-upload | Postgres |
| Upload API, `video/upload.go`, `video/transcode.go` | none of its own; a request holds what it read | `RequestUpload`, `CompleteUpload`, `Retranscode`, `Publish` | rows, storage, queue |
| Worker, `video/worker.go` | a running job holds its payload (key, resolution) and a local copy of the upload | `HandleMetadataExtract`, `HandleTranscode`, `markFailed` | rows, storage, queue, ffmpeg |
| Ladder, `video/ffmpeg.go` | none | `RenditionsForSourceHeight`, `Transcode`, `ExtractMetadata` | worker |
| Job queue, `queue/queue.go` (asynq on Redis) | the jobs, their attempts | deliver at least once, retry 3 times, archive, take back what a stopped worker had not finished | worker |
| Object storage, `storage/storage.go` | raw uploads, HLS files, presigned URLs | `HeadObject`, `PutObject`, `DownloadObject`, presigning | instructor, player |
| Playback, `video/playback.go`, `video/token.go` | none; a token and a presigned URL carry their expiry | `GetPlaybackURL`, `ServeManifest` | rows, storage, player |
| Progress, `video/playback.go` `UpdateProgress` | the rows of `progress` | read the lesson, decide, upsert | rows |
| HTTP and auth, `httpapi/`, `auth/` | `fake_entitlements` (read only) | routes, middleware, error mapping | API |

Requests and jobs run in different processes and share nothing but the rows,
the objects and the queue. No lock is held across two statements. Hence what is
hard:

* *stale reads*: every handler reads the status in one statement and acts in a
  later one; what keeps it right is the `WHERE status = $from` of the write, and
  `updateVideoForReupload` has none;
* *at-least-once jobs*: retries (also of a video that is FAILED already, beside
  a chain that was started by hand), redelivery after a crash or a shutdown, two
  jobs of one upload, a job of an upload that has been replaced; the keys of raw
  and HLS files are the same for every upload of a lesson, while the rungs and the
  number of segments are not, and the rungs of a ladder come from a height that
  another job measured;
* *partial failure*: the swap into QUEUED and the enqueue are not atomic, nor are
  the files of a ladder; several writes of the worker have no `markFailed`;
* *late answers*: a presigned PUT is valid for 15 minutes whatever happened since;
* *replacement under a player*: a master playlist, the playlist of a rung and its
  segments are fetched one after the other, with credentials that expire at
  different moments, while the worker may put another ladder under the same keys;
* *concurrent pings*: two devices, retries, and a duration that a replacement
  changes between the read and the upsert.

What makes each part correct:

* rows: `lessons.status` equals `videos.status`; only legal moves of the
  lifecycle; no job moves a finished video;
* upload and jobs: a READY ladder is complete and is that of the upload,
  processing ends, nobody waits for a job that is gone;
* ladder: at least one rung, every rung that fits the source, none above it
  except 240p for a source below all of them;
* playback: what a playlist leads to exists; access that ended, a video that is
  off the air and the old form of a rung that was replaced stop being watched after a
  bounded time;
* progress: never regresses, completion is permanent and earned.

`PROJECT.json` lists every component with its sources, every hazard at its line
and the property that would catch it.

## 2. Plan

Written, in this order: `VideoRepo`, `VideoPipeline`, `VideoLifecycle` and the
refinement, the proofs of `VideoPipeline`, `LessonProgress` and its proofs,
`Ladder` inside the pipeline, `Playback` above it, the proofs of `Playback`, the
proofs about requests that do not overlap and about uploads that are held while in
use, the end of every job, and `Lease` with its two refinements.

Left: the checks of the instructor's middleware group, which refuse a request
before it touches any state, and the table that turns errors into HTTP statuses,
which has no state. Both decide from one request alone: no interleaving,
failure or sequence of steps can make them wrong, and a model would restate the
conditions it is checked against.

## 3. Modules and code

| Module | Extends / instantiates | Models |
|---|---|---|
| `VideoRepo` | | the rows of one lesson |
| `Ladder` | | rungs, files, and the order in which they are put |
| `VideoPipeline` | `VideoRepo`, `Ladder`; `VideoLifecycle` twice | requests, jobs, storage, queue |
| `VideoLifecycle` | | abstract specification of the status |
| `Playback` | `VideoPipeline`; `Lease` twice | players, tokens, manifests, the clock |
| `Lease` | | abstract specification of short-lived playback |
| `LessonProgress` | | `UpdateProgress` and the rows of `progress` |
| `MCVideoPipeline`, `MCPlayback` | | heights, lengths, symmetry, `HeldSpec`, the initial state and view of playback, for TLC |
| `VideoPipelineProofs`, `VideoPipelineSafety`, `VideoPipelineDriver` | `VideoPipeline` | theorems for all instances |
| `ReadsHoldProofs` | those above | theorems about requests that do not overlap |
| `CurrentUploadProofs` | those above | theorems about uploads that are held while in use |
| `PlaybackProofs`, `ReplacedStreamProofs` | `Playback` and those above | theorems about players |
| `LessonProgressProofs` | `LessonProgress` | theorems about progress |

**VideoRepo.** `video` and `lesson` are records of the columns the program reads.
`InsertVideo`, `UpdateVideoForReupload`, `TransitionVideoStatus` /
`TransitionMissed` (the swap applied, or matched no row), `SetVideoFailed`,
`UpdateVideoMetadata`, `UpdateLessonDuration`, `UpdateVideoHLSMasterKey` and
`ResetStaleUploads` are the methods of `repo.go`, one action each, since each is
one statement or one transaction. One lesson is enough: no statement of the
pipeline touches two lessons and all keys carry the lesson's id.

**Ladder.** A rung is its height in lines. `RenditionsForSourceHeight` is the
function of that name; `Transcode` says which files ffmpeg leaves, and which its
playlists name: per rung `playlist.m3u8` and as many segments as the content is
long, so a rung of one upload need not have the files of the same rung of another.
`WalksBefore` is the order of `filepath.Walk`, by name: 1080p first, in each rung
the playlist before its segments, and `master.m3u8` last.

**VideoPipeline** adds storage (`raw`, `hls`, `master`, `urls`), running requests
(`call`) and jobs (`task`). `hls[f]` is the content file *f* was made from,
`master` the rungs the master playlist lists. A handler is a chain of steps, one
per statement it sends: `call[c].pc` and `task[t].pc` say which statement is next,
the other fields what the handler remembers (`resolution` is the payload's, `src`
the local copy, `done` the files this attempt has put).

| Code | Steps |
|---|---|
| `RequestUpload` | `BeginRequestUpload` (reads, refuses in-flight), `SaveFirstUpload` or `SaveReupload`, `IssueTicket` |
| `CompleteUpload` | `BeginCompleteUpload`, `HeadRawObject`, `RejectTooLarge` or `CommitCompleteUpload`, `EnqueueMetadataExtract` |
| `Retranscode` | `BeginRetranscode`, `CommitRetranscode`, `EnqueueMetadataExtract` |
| `Publish` | `Publish`: its read decides nothing but the error text |
| `HandleMetadataExtract` | `StartMetadataExtract`, `ProbeRaw` (download, stat, ffprobe), `SaveMetadata`, `SaveDuration`, `EnqueueTranscode` |
| `HandleTranscode` | `StartTranscode`, `ClaimVideo`, `TranscodeRaw`, `PutFile` (once per file), `PutMaster`, `SaveHLSMasterKey`, `MarkReady` |
| `markFailed`, then `return err` | `FailTask` |
| any `return err` without it (worker.go:57, 88-94, 107, 136, 183-189), a timeout, a crash | `AbortTask`, `EnqueueTranscodeTwice`, `AbandonCall` |
| `server.Run` of the worker stopped by a signal | `RequeueTask` (`ShutdownNext`): the job starts over and no retry is counted |
| the instructor's PUT, the expiry of its URL | `ClientPut`, `ExpireURL` |
| `resetStaleUploads` | `Reap`, only with `ReaperRuns` (it has no caller in the repository) |

A request that the code refuses at its first read changes nothing and is not a
step. An upload is a member of `Contents`; metadata, duration and HLS files record
the content they were made from, which is all a property can tell apart. `Height`
gives the lines of its picture, `Segments` how many segments ffmpeg cuts it into,
`TooLarge`, `Untimed` and `NoVideo` what the size check and ffprobe find. Raw keys differ only by extension, so `RawKeys` has one
element per extension.

What asynq does is not in the repository and is modelled from how the code uses it:
a task is delivered until its handler returns nil, a handler's error uses up one of
`MaxRetry`, and a worker that is stopped hands back what it is still running
without counting that. If asynq does count it, the step is an `AbortTask`, which the
same runs and theorems allow as well.

**VideoLifecycle** is the abstract specification: one status and its legal moves
(`Upload`, `Complete`, `Claim`, `Finish`, `Fail`, `Retry`, `Publish`, `Reset`).
`ReuploadFrom` says what a new upload may replace. `VideoPipeline` instantiates it
twice, with `status <- lesson.status`: `LifecycleSpec` (a new upload may replace
anything, which is what the unconditional write does) and `StrictLifecycleSpec`
(only what `inFlightStatuses` lets through, which is what it is meant to do).

`ReadsHold` names what stands between the two. It is a condition on one step: a
request that replaces the video finds it in a status that its check would let
through (`Settled`), a request that refuses a large file does not fail a video in
processing, and a request that enters the queue carries the key the video has.
`ReadsAlwaysHold` says it of every step. The code does not guarantee it
(`stale_request`); it is true of requests that do not overlap
(`SequentialReadsHold`), whatever the worker does beside them.

`UploadHeld` names what the code leaves to its callers for the stream to be that of
the upload. It is also a condition on one step, with two parts: a video is replaced
only when nothing of its earlier upload is pending (`NothingPending`: no job asynq
still holds at whatever attempt, no request that has read its key), and the object
is not overwritten through an old URL while it is `InUse`. The code guarantees
neither: `stale_retry` breaks the first, a PUT within the 15 minutes of a presigned
URL the second. It restricts what the instructor does and when, and no fault: jobs
fail, die, are requeued and duplicated, a retry of a FAILED video runs beside the
attempts asynq still has, requests overlap and files are put again before completion.

**Playback** adds a clock and players. `player[p]` is what a page holds: the token
of its playback URL, the rungs of its master playlist with the token their
references carry, the rung it watches with the content of its playlist and the
expiry of its segment URLs. `request[p]` is the one request it waits for.
`revoked` and `offAir` are history variables: when access was last lost, when the
video last stopped being PUBLISHED.

| Code | Steps |
|---|---|
| `requireAuth`, `requireStudentAccess`, `HasAccess` | `CheckAccess` |
| `GetPlaybackURL` | `LoadForURL`, `SignPlaybackToken` |
| `ServeManifest` | `VerifyToken`, `LoadForManifest`, then `ServeMaster` (rewrites the references with the token it was called with) or `ServeRung` (presigns every segment for a life of its own) |
| a refusal, an error, a closed page | `DropRequest` |
| rows of `fake_entitlements` | `Grant`, `Revoke`: the environment, nothing in the program writes them |
| the rest of the program | `PipelineStep`: any step of `VideoPipeline` |

`VerifyToken` takes any path that is in storage with any token the player holds: the
code ties a token to the video and not to the playlist that carried it, so an old
rung may be asked for with a fresh token.

One lesson has one video, so a token is its expiry: the video it was signed for
is always the right one. Fetching a segment with a presigned URL is a call to
storage that the program does not see; `Watching` says a player still can.

**Lease** is the abstract specification of what short-lived playback promises: a
holder has a lease of a fixed life, which is renewed while it is licensed or
within a grace after its licence `lapsed`, and so runs out one life after that. It
knows no tokens, playlists, requests or pipeline. `Playback` instantiates it twice,
the lease being the life of the segment URLs a player got last (`Leases`):

| | `licensed` | `lapsed` | `Grace` |
|---|---|---|---|
| `AccessLease` | `access`, the student's entitlement | `revoked` | `TokenLife + 2 * MaxServe` |
| `AirLease` | every player, while the video is PUBLISHED (`Viewers`) | `offAir` | `MaxServe` |

**LessonProgress** models `UpdateProgress`: `ReadLesson` reads the duration and
decides, `UpsertProgress` writes, `DropPing` is a request that dies in between,
`UpdateLessonDuration` is the pipeline's write, `Tick` is `now()`. `known` is a
history variable: the durations the lesson has had.

Definitions that a comment calls a "Mutation of" another are plausible bugs of
that code. Nothing uses them; `PROJECT.json` names, for every property of a
passing run, the one that must break it.

## 4. Runs

| Run | cfg | Shows | Size |
|---|---|---|---|
| `pipeline_safety` | PipelineSafety | consistency, no lost job, every job gets closer to its end, refinement, under all faults | 2 requests, 2 jobs, 1 retry, one rung of one segment, 221k states |
| `pipeline_sequential` | PipelineSequential | requests that do not overlap: reads hold, no video in flight is replaced; processing ends unless its job died | 1 request, 2 jobs, 1 retry, 2 contents (144 lines; too large and without video), all faults, 372k states |
| `pipeline_mixed` | PipelineMixed | two jobs of different uploads on one ladder: READY means the whole ladder of some upload | 1 request, 2 jobs, 1 retry, all faults, 2 contents (480 lines, one segment; 144 lines, two segments), 618k states |
| `pipeline_held` | PipelineHeld | uploads that are held while in use: the current upload is served in its own rungs | 2 requests, 2 jobs, 1 retry, jobs that fail, start over and are duplicated, late PUTs, 2 contents of one segment (480 lines; 144 lines, no duration), 1.4M states |
| `playback` | Playback | links hold; access, a video off the air and old rungs run out; segment URLs are leases | 1 player, 1 request, 1 job, uploads of 480 lines, one segment and of 144 lines, two segments, 715k states |
| `progress` | Progress | rows consistent, completion earned, nothing regresses | 2 concurrent pings, 4 positions, 3 durations, 60k states |
| `stale_retry`, `half_ladder`, `stale_request`, `stranded`, `replaced_under_player`, `unmarked_completion` | Find* | six disagreements (section 8) | smallest instance with the behaviour |

Why the bounds are enough. Two requests and two jobs give every pairwise
interleaving: a stale request beside a fresh one, a duplicate beside the original,
an old retry beside a new upload. One retry gives both outcomes of a failure,
another attempt or the archive; a larger `MaxRetry` only repeats the first. 480
lines give two rungs, exactly at the boundary of the upper one, and 144 lines are
below every rung, so a replacement by it leaves a rung of the old ladder behind. The
lower content is the longer one: each of the two has files the other does not
overwrite, and a playlist of two segments over a ladder of one is the smallest that
names what is not there. One key and
one content are enough where the properties speak of statuses only. In the
progress run, 9 and 10 are at and above 90% of 10, 8 is below it and above 90% of
6, 0 is the lowest position a ping may report. `Calls` and `TaskIds` are bounds on
requests and jobs alive at once, not on how many there are in total: slots are
reused for ever.

The clock of `Playback` is unbounded in effect. `TokenLife` and `MaxServe` are one
unit each, so every order of "expired", "just in time" and "not yet" happens;
`MaxClock` (1000) is only a guard for typing and is never reached, because
`VIEW ClockShift` identifies states that differ by a shift of the clock. That is
sound: guards, updates and properties look at differences of times only, two
tokens that have expired allow the same steps, what was watched through URLs that have
expired is not looked at again, and a moment older than the bound of the property
that looks at it cannot become younger. `urls` is left out of the view as well: with
one key, which the run has, a state with the upload URL allows all that the same state
without it does, and the run starts with it. The real lives are 5 minutes and a request takes seconds; the theorems are for all
values. The run starts from `PublishedSpec`, a published video nobody has opened,
which the pipeline reaches from `Init`; the theorems start from `Init`.

Some runs restrict the environment, and some of their properties hold only so;
section 7 states the restrictions as assumptions. `pipeline_sequential` has one
slot for requests: a client that waits for each answer. One extension is enough
there, for only requests write `raw_key`. `pipeline_held` keeps the behaviours whose
steps satisfy `UploadHeld` (`HeldSpec`); for its state space it has no lost requests,
no job that dies at the cost of a retry (one that starts over without it instead) and
contents of one segment, while `ServesCurrentUpload` and `LadderFits` have them all.
`pipeline_mixed` has one request: two jobs of different uploads meet without a second
one. `VIEW Presence` leaves out what the files show, the metadata and the lesson:
no step and not its property depends on them, only on which files there are.
`playback` has one request and one job slot and no faults, for its state space. Its
properties about time and links need no restriction at all; `OldStreamExpires` needs
`UploadHeld`, which every step of that instance satisfies: a PUBLISHED video has no
job there, nobody fails, and PUTs end before completion.

`CHECK_DEADLOCK FALSE` in the pipeline and playback runs: the system really may
stop. A video without a job in PROCESSING, with no URL left, has no next step, and
neither has a slot-limited instance in which a request waits for a free job slot.
The progress runs check deadlock.

## 5. Properties

`pipeline_safety`: `LessonMirrorsVideo`, `NothingMissing` (the branches "has no
raw_key" are dead), `WorkerOnlyMovesInProcessing` (stale failures and redeliveries
move the status of a video in processing only), `OnlyDeathStrands` (the early returns
of handlers never drop the job somebody depends on), `JobsAdvance` (a step of a
running worker puts in the place of one job only jobs closer to their end: no handler
enqueues its own predecessor, no failure, death or redelivery gives a job another
attempt without using one up, no attempt puts a file twice; a shutdown does give one,
and is not such a step), `LifecycleSpec` (refinement). `pipeline_sequential`:
`ReadsAlwaysHold`, `StrictLifecycleSpec`, `InProcessingSettles`.

`pipeline_mixed`: `ReadyIsComplete`. A READY or PUBLISHED video has a master playlist
with at least one rung, and at its rungs the whole ladder of some upload is in
storage, whatever stale jobs do. It is what the order of `filepath.Walk` buys, and no
more: the playlist of a rung may be of another, longer upload, and then names
segments that are not there. `PlaylistsAreBacked`, which excludes that, is violated
(`half_ladder`).

`pipeline_held`: `ReadyServesCurrentUpload` (stream, metadata and duration of a READY
video are those of its upload), `LadderFitsUpload` (the rungs of the payload are
those of the upload served).

`playback`: `NoBrokenLinks` (whatever happened since a player got its master playlist,
the whole ladder of some upload is in storage at the rungs it lists; the links from a
rung to its segments are the subject of `half_ladder` and `replaced_under_player`),
`AccessExpires` (a student who lost access watches for at most two lives and two
requests more), `OffAirStops` (a video taken off the air is watched for at most one
request and one life more, whatever tokens are held), `OldStreamExpires` (a rung of
the published ladder is watched in its old form for one request and one life after
the video was last off the air, with whatever old playlists and fresh tokens; a rung
that the new ladder does not have stays in storage and is outside it, see section 8).
`AccessLeaseSpec` and `AirLeaseSpec` (refinements) say when such URLs are obtained,
not only when they run out: the last ones at most a token life and two requests after
access was lost, and at most one request after the video went off the air, however
tokens of several ages, old playlists and slow requests are combined.

`progress`: `RowIsConsistent`, `CompletionIsEarned`, `ProgressNeverRegresses`. Each
module has one `TypeOK` (`PlaybackTypeOK` also says that no expiry is further away
than one life).

## 6. Fairness

`Fairness` is weak fairness of the steps of a request once begun (`net/http` runs a
handler to its end) and of a job (`asynq` delivers a job it holds until it is
acknowledged or archived; `NewServer` runs ten handlers at once, and the jobs of
one lesson do not wait for each other). Beginning a request, publishing, uploading
and dying are never fair. Weak fairness is of the whole step relation of a job, so
it does not force a job to succeed: failing is also a step. Weak fairness of `Reap`
says that a reaper with a caller would run again and again; as deployed
(`ReaperRuns = FALSE`) it is never enabled and the conjunct says nothing. A worker
that is stopped before any of its jobs is done gets nothing done, so the last
conjunct says that it is stopped finitely often. Under this `InProcessingSettles` holds and
`ProcessingEnds` does not: the difference is exactly the jobs and requests that
die, which `OnlyDeathStrands` shows from the other side. Playback and progress
need no fairness: their properties bound how long something lasts by a clock, or
speak of single rows.

## 7. What is proved

For every value of the constants (any number of requests, jobs, retries,
keys, contents, heights, players, lives, any set of faults), from
`NoneAssumption` (NULL is neither a key nor a content), `PipelineAssumption`,
`MaxSegmentsAssumption`, `PlaybackAssumption` and `ProgressAssumption` (typing of the
constants):

| Theorem | Says | Argument |
|---|---|---|
| `TypeCorrect`, `KeysAreKnown` | `TypeOK`, `NothingMissing` | inductive together (`TypesKept`): a job's key is one because the request that made it had one |
| `LessonMirrors` | `LessonMirrorsVideo` | both rows are written by every method that writes either status |
| `ImplementsLifecycle` | `Spec => LifecycleSpec` | from `LessonMirrorsVideo`: a swap on `videos` is a move of `lessons` |
| `WorkerMovesInProcessing` | `WorkerOnlyMovesInProcessing` | action property, one case per job step |
| `ReadyComplete` | `ReadyIsComplete` | needs `LadderInv` |
| `OnlyDeathLeavesNobody` | `OnlyDeathStrands` | one case per step that ends a job or a request |
| `JobsComeToAnEnd` | `JobsAdvance` | `JobStep`, one case per step of the worker; `CloserIsOrder`: what the jobs get closer to is an order; a shutdown drops no job (`ShutdownDrives`) |
| `PlaybackIsPipeline` | `PlaybackSpec => Spec` | players write nothing of the pipeline, so all of the above holds under them |
| `PlaybackTypeCorrect` | `PlaybackTypeOK` | expiries are made from the clock and only copied |
| `AccessRunsOut` | `AccessExpires` | needs `InTime` and `RunsOut` |
| `OffAirEnds` | `OffAirStops` | needs `InTime` and `LeftOver` |
| `LinksHold` | `NoBrokenLinks` | needs `Linked`, over `LadderInv` |
| `AccessIsLeased` | `AccessLeaseSpec` | needs `InTime` and `RunsOut`; `LeasesMove`: only an answered rung renews |
| `AirIsLeased` | `AirLeaseSpec` | needs `InTime` and `LeftOver`; `offAir` is written by every step that ends PUBLISHED |
| `ProgressTypeCorrect`, `RowsConsistent`, `CompletionEarned`, `NeverRegresses` | the properties of `LessonProgress` | needs `DecisionIsEarned` for completion |

Of an upload that is held while in use. These have `[][UploadHeld]_vars` on their
left hand side (section 3): they speak of any number of requests, jobs, retries and
faults at once, and of every behaviour in which no step replaces or overwrites an
upload while something of it is pending or shown.

| Theorem | Says | Argument |
|---|---|---|
| `ServesCurrentUpload` | `ReadyServesCurrentUpload` | needs `CurrentUpload` |
| `LadderFits` | `LadderFitsUpload` | part of `CurrentUpload` |
| `OldStreamRunsOut` | `OldStreamExpires` | needs `InTime`, `LeftOver`, `StreamIsRecent`, over `CurrentUpload` |

Of a client that waits for each answer (`OneAtATime`: there is one slot for
requests), under every fault:

| Theorem | Says | Argument |
|---|---|---|
| `SequentialReadsHold` | `ReadsAlwaysHold` | `RequestsKnow`: what a request read is still true when it writes, although jobs go on |
| `ImplementsStrictLifecycle` | `StrictLifecycleSpec` | the theorem above: a replacement finds the video in no flight |

The strengthenings, and why they are needed:

* `LadderInv`: nothing in `ReadyIsComplete` says that the job about to mark the
  video READY has put every file. Every file a job counts in `done` is in storage, it
  puts the master playlist only when `done` holds the whole ladder of the content it
  downloaded, and since no step deletes a file, no other job can undo it.
* `CurrentUpload`: every job there is, at whatever attempt, carries the key of the
  current upload, and whatever it has measured or written so far belongs to the object
  under that key. So jobs that run side by side, a retry beside a new chain or two
  deliveries of one job, write the same things, and a job begun again keeps the
  resolution of its payload, which is that of the same object. The
  property alone is not inductive: it says nothing of a job that has not finished.
* `InTime`: a request under way is at most `MaxServe` old and began before its
  token expired. Without it no bound follows: a token says when it was signed, not
  when it is used.
* `RunsOut`, `LeftOver`: bounds for every token and every request a player still
  has, from which the bound for its segment URLs follows one answer later.
* `StreamIsRecent`: what a player watches is of the upload on the air, or is a rung
  that upload does not have, or was bought before the video left the air. `OnAirStays`
  says the upload and the rungs on the air do not change, although late jobs may put
  the same files again.
* `DecisionIsEarned`: a ping carries a decision made earlier; it was right for a
  duration the lesson has had.

Only model-checked: `InProcessingSettles`. Liveness under fairness and ENABLED are out
of the prover's reach. `JobsComeToAnEnd` is its safety half: it rules out that jobs go
round for ever, and leaves that a fair worker takes its steps. That an order on jobs
has no infinite descent, and that of multisets of jobs neither, needs induction over
data and is not formalised. Every other property of a passing run has a theorem.

## 8. Disagreements between code and documents

Six have a run that shows the counterexample:

* `stale_retry`: jobs are called safe to rerun, but the retry of a job of a
  replaced upload claims the new upload. FAILED is described as what follows the
  automatic retries; it precedes them, which is how such a retry comes about.
* `half_ladder`: putting the ladder twice is called a no-op, and the old ladder is
  said to be swapped when the new one is READY. Jobs of two uploads put different
  files under the same keys, and a playlist before its segments: the video is READY
  with a playlist that names segments that are not there.
* `stale_request`: the unconditional write of a re-upload is said to follow a
  check; the check is a separate statement.
* `stranded`: failures are said to end in FAILED; those that are not marked
  leave the video in processing for good.
* `replaced_under_player`: the old ladder is said to be kept until the new one is
  READY; it is overwritten file by file under the players that hold it.
* `unmarked_completion`: completion is said to follow the furthest position; the
  code looks at the position of the ping.

The others need no run, since one step or one line shows them. `PROJECT.json` quotes
the documents: an upload that is abandoned or too large stays in UPLOADING (the reaper
has no caller, and the mark does not apply there); a retry by hand beside the retries
asynq still has makes two chains of jobs; a PUT after the size check is not measured
again; the upper rungs of a replaced upload stay watchable with fresh tokens; the old
object passes for a new upload (`HeadRawObject` does it); outages are reported as 404,
expired tokens as 409.

## 9. Not modelled, and why

Wiring, configuration and the connection pool run once at start; the numbers they
set are constants here. The instructor's middleware group and the error mapping:
section 2. Frame rates, bitrates, widths and codecs are written and never read by
the program. Every rung of an upload has the same number of segments, being cut at
the same keyframes, and `MaxSegments` bounds it in the runs (two) and nowhere else.
A player asks for paths that are in storage: any other is refused, and changes
nothing. Reads that fail before anything is written are the same as a
request that dies or a job that aborts. A transaction whose commit is applied but
not acknowledged is a step followed by `AbandonCall` or `AbortTask`. Retry delays:
a queued job may wait arbitrarily long. `failed_reason`, `retry_count`,
`sync_version` and timestamps are never read. The resume position of
`GetPlaybackURL` is displayed only. Positions are whole seconds; NUMERIC(10,3) only
adds digits.

## 10. Running

    tlc -workers 2 -config PipelineSafety.cfg MCVideoPipeline.tla
    tlc -workers 2 -config Playback.cfg MCPlayback.tla
    tlc -workers 2 -config Progress.cfg LessonProgress.tla
    tlapm VideoPipelineProofs.tla

The other pipeline configurations belong to `MCVideoPipeline`,
`FindReplacedUnderPlayer.cfg` to `MCPlayback`, `FindUnmarkedCompletion.cfg` to
`LessonProgress`. The proof modules are checked one by one; each cites the theorems
of those it extends and does not prove them again.
