----------------------------- MODULE LessonProgress -----------------------------
(***************************************************************************)
(* The watch progress of one lesson: UpdateProgress (playback.go) reads    *)
(* lessons.duration_seconds in one statement and upserts the row of        *)
(* progress in another, while the pipeline may store the duration of a     *)
(* replacement in between, and while other pings of the same student (two  *)
(* devices, a retry, answers out of order) do the same.                    *)
(*                                                                         *)
(* Positions and durations are whole seconds; a duration of 0 stands for   *)
(* an unknown one (NULL, or a probe that found none: UpdateProgress treats *)
(* both alike).  completed_at and the clock are moments 0..MaxClock.       *)
(***************************************************************************)
EXTENDS Integers

CONSTANTS
    Viewers,      \* the students
    Pings,        \* slots for progress requests that run at the same time
    Positions,    \* the positions players report
    Durations,    \* the durations of uploads, and 0
    MaxClock,     \* bound on the clock
    NoTime        \* SQL NULL of completed_at

ASSUME ProgressAssumption ==
    /\ Positions \subseteq Nat /\ 0 \in Positions
    /\ Durations \subseteq Nat /\ 0 \in Durations
    /\ MaxClock \in Nat
    /\ NoTime \notin Nat

VARIABLES
    duration,   \* lessons.duration_seconds
    progress,   \* the rows of progress, by student
    ping,       \* the running requests
    clock,      \* now() of the database
    known       \* history: every duration the lesson has had

vars == <<duration, progress, ping, clock, known>>

Row == [exists : BOOLEAN, max : Positions, last : Positions,
        completed : BOOLEAN, completedAt : 0..MaxClock \cup {NoTime}]

NoRow == [exists |-> FALSE, max |-> 0, last |-> 0,
          completed |-> FALSE, completedAt |-> NoTime]

\* A request that has read the lesson holds what it will write.
Ping == [active : BOOLEAN, viewer : Viewers, position : Positions, completed : BOOLEAN]

\* completionThreshold = 0.9, without fractions.
Reaches(position, length) == length > 0 /\ 10 * position >= 9 * length

Init ==
    /\ duration = 0
    /\ progress = [v \in Viewers |-> NoRow]
    /\ ping \in [Pings -> {p \in Ping : ~p.active /\ p.position = 0 /\ ~p.completed}]
    /\ clock = 0
    /\ known = {0}

\* updateLessonDuration, by the metadata job of the first or a later upload.
UpdateLessonDuration(d) ==
    /\ d > 0
    /\ duration' = d
    /\ known' = known \cup {d}
    /\ UNCHANGED <<progress, ping, clock>>

\* Mutation of ReadLesson: completion is decided without the guard duration > 0.
ReadLessonUnknown(p, v, position) ==
    /\ ~ping[p].active
    /\ ping' = [ping EXCEPT ![p] =
           [active |-> TRUE, viewer |-> v, position |-> position,
            completed |-> 10 * position >= 9 * duration]]
    /\ UNCHANGED <<duration, progress, clock, known>>

\* UpdateProgress refuses negative positions, reads the lesson and decides
\* whether this position completes it.
ReadLesson(p, v, position) ==
    /\ ~ping[p].active
    /\ ping' = [ping EXCEPT ![p] =
           [active |-> TRUE, viewer |-> v, position |-> position,
            completed |-> Reaches(position, duration)]]
    /\ UNCHANGED <<duration, progress, clock, known>>

Greatest(a, b) == IF a > b THEN a ELSE b

\* Mutation of Upserted: the position of the ping replaces the maximum.
UpsertedLatest(row, request) ==
    [exists |-> TRUE, max |-> request.position, last |-> request.position,
     completed |-> row.completed \/ request.completed,
     completedAt |-> IF row.completedAt = NoTime /\ request.completed
                     THEN clock ELSE row.completedAt]

\* Mutation of Upserted: completed_at is only written by the INSERT.
UpsertedUnstamped(row, request) ==
    [exists |-> TRUE, max |-> Greatest(row.max, request.position),
     last |-> request.position,
     completed |-> row.completed \/ request.completed,
     completedAt |-> IF ~row.exists /\ request.completed
                     THEN clock ELSE row.completedAt]

\* Mutation of Upserted: time watched is added up instead of the furthest position.
UpsertedSum(row, request) ==
    [exists |-> TRUE, max |-> row.max + request.position, last |-> request.position,
     completed |-> row.completed \/ request.completed,
     completedAt |-> IF row.completedAt # NoTime THEN row.completedAt
                     ELSE IF request.completed THEN clock ELSE NoTime]

\* INSERT ... ON CONFLICT DO UPDATE: GREATEST, OR, COALESCE.  The first ping of
\* a student inserts what an update of an empty row would leave.
Upserted(row, request) ==
    [exists |-> TRUE,
     max |-> Greatest(row.max, request.position),
     last |-> request.position,
     completed |-> row.completed \/ request.completed,
     completedAt |-> IF row.completedAt # NoTime THEN row.completedAt
                     ELSE IF request.completed THEN clock ELSE NoTime]

UpsertProgress(p) ==
    /\ ping[p].active
    /\ LET v == ping[p].viewer IN
       progress' = [progress EXCEPT ![v] = Upserted(progress[v], ping[p])]
    /\ ping' = [ping EXCEPT ![p].active = FALSE]
    /\ UNCHANGED <<duration, clock, known>>

\* The request is cancelled, or the statement fails, before the upsert.
DropPing(p) ==
    /\ ping[p].active
    /\ ping' = [ping EXCEPT ![p].active = FALSE]
    /\ UNCHANGED <<duration, progress, clock, known>>

Tick ==
    /\ clock < MaxClock
    /\ clock' = clock + 1
    /\ UNCHANGED <<duration, progress, ping, known>>

Next ==
    \/ \E d \in Durations : UpdateLessonDuration(d)
    \/ \E p \in Pings, v \in Viewers, position \in Positions : ReadLesson(p, v, position)
    \/ \E p \in Pings : UpsertProgress(p) \/ DropPing(p)
    \/ Tick

Spec == Init /\ [][Next]_vars

-------------------------------------------------------------------------------

TypeOK ==
    /\ duration \in Durations
    /\ progress \in [Viewers -> Row]
    /\ ping \in [Pings -> Ping]
    /\ clock \in 0..MaxClock
    /\ known \subseteq Durations

\* Design §5, BR-051, "completion never regresses on seek-back": whatever the
\* order in which the pings of several devices arrive, the furthest position
\* only grows, and completion and its moment are permanent.
ProgressNeverRegresses ==
    [][\A v \in Viewers :
        /\ progress'[v].max >= progress[v].max
        /\ progress[v].completed => /\ progress'[v].completed
                                    /\ progress'[v].completedAt = progress[v].completedAt]_vars

\* The two columns that record completion agree, and the moment is not in the
\* future; nobody resumes beyond the furthest position.
RowIsConsistent ==
    \A v \in Viewers :
        /\ progress[v].completed <=> progress[v].completedAt # NoTime
        /\ progress[v].completed => progress[v].completedAt <= clock
        /\ progress[v].last <= progress[v].max

\* BR-051: a lesson is complete only if the student reached 90% of it: of a
\* duration the lesson has really had, however late the ping was written.
CompletionIsEarned ==
    \A v \in Viewers :
        progress[v].completed => \E d \in known : Reaches(progress[v].max, d)

\* Design §5: a ping "sets completed = true (once, permanently) when
\* max_position_seconds >= 0.9 * duration".  Stated for a ping that decided by
\* the duration the lesson still has.
PingCompletes ==
    [][\A p \in Pings :
        LET row == progress'[ping[p].viewer] IN
        /\ UpsertProgress(p)
        /\ ping[p].completed = Reaches(ping[p].position, duration)
        /\ Reaches(row.max, duration)
        => row.completed]_vars

================================================================================
