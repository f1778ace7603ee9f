-------------------------- MODULE ReplacedStreamProofs --------------------------
(* What students watch after a replacement: Playback above the pipeline of      *)
(* CurrentUploadProofs, for every number of students and every token life.      *)
EXTENDS PlaybackProofs, CurrentUploadProofs

OnTheAir == video.status = "PUBLISHED"

\* As long as the video is on the air its upload and the rungs of its master
\* playlist stay what they are, though late jobs may write them again.
LEMMA OnAirStays ==
    ASSUME Known, Known', [Next]_vars, [UploadHeld]_vars, OnTheAir, OnTheAir'
    PROVE  Upload' = Upload /\ master' = master
<1>1. Encoded /\ Encoded'
  BY DEF Known, CurrentUpload, Playable, OnTheAir, Finished
<1>2. video'.rawKey = video.rawKey
  <2>1. CASE ApiNext /\ ~UNCHANGED vars
    <3>1. PICK c \in Calls : RequestNext(c)
      BY <2>1 DEF ApiNext, RequestNext
    <3>2. ~SaveReupload(c)
      BY DEF SaveReupload, UpdateVideoForReupload, SetStatus, OnTheAir, Known, TypeOK, Video
    <3> QED
      BY <3>1, <3>2 DEF RequestNext, CallProgress, SaveFirstUpload, InsertVideo, IssueTicket,
           HeadRawObject, RejectTooLarge, SetVideoFailed, CommitCompleteUpload,
           CommitRetranscode, EnterQueue, TransitionVideoStatus, TransitionMissed, SetStatus,
           EnqueueMetadataExtract, BeginRequestUpload, BeginCompleteUpload,
           BeginRetranscode, Begin, AbandonCall, rows, OnTheAir, Known, TypeOK, Video
  <2>2. CASE ~ApiNext \/ UNCHANGED vars
    BY <2>2, OthersMove DEF Next, Known, vars
  <2> QED
    BY <2>1, <2>2
<1>3. raw'[video.rawKey] = raw[video.rawKey]
  BY DEF UploadHeld, InUse, Playable, OnTheAir, vars
<1> QED
  BY <1>1, <1>2, <1>3 DEF Encoded, Upload

\* A rung of the ladder on the air is made of the upload on the air.
LEMMA RungIsCurrent ==
    ASSUME Known, OnTheAir, NEW r \in master
    PROVE  hls[<<r, Playlist>>] = Upload /\ RungIsOf(r, Upload)
<1>1. Encoded
  BY DEF Known, CurrentUpload, Playable, OnTheAir, Finished
<1>2. Segments[Upload] \in 1..MaxSegments
  BY <1>1, PipelineAssumption DEF Encoded
<1>3. Playlist \in Playlist..Segments[Upload]
  BY <1>2, MaxSegmentsAssumption DEF Playlist
<1>4. Transcode({r}, Segments[Upload]) \subseteq Transcode(master, Segments[Upload])
  BY DEF Transcode
<1> QED
  BY <1>1, <1>3, <1>4 DEF Encoded, Transcode, RungIsOf

-------------------------------------------------------------------------------

\* What is watched is the upload on the air, or a rung that upload does not have,
\* or was bought before the video left the air.
StreamIsRecent(p) ==
    \/ player[p].rung = MasterPath
    \/ OnTheAir /\ (player[p].rung \in master => player[p].content = Upload)
    \/ offAir # None /\ player[p].until <= offAir + MaxServe + TokenLife

\* The answers of ServeRung also say what the playlist was made from.
LEMMA ServedContent ==
    ASSUME PlaybackTypeOK, NEW p \in Players, ServeRung(p)
    PROVE  player'[p].content = hls[<<request[p].path, Playlist>>]
<1>1. /\ request[p].path # MasterPath
      /\ Answer(p, "playable",
                [player[p] EXCEPT !.rung = request[p].path,
                                  !.content = hls[<<request[p].path, Playlist>>],
                                  !.until = now + TokenLife])
  BY DEF ServeRung
<1>2. player[p] \in Player
  BY DEF PlaybackTypeOK
<1>3. player'[p] = [player[p] EXCEPT !.rung = request[p].path,
                                     !.content = hls[<<request[p].path, Playlist>>],
                                     !.until = now + TokenLife]
  BY <1>1, AnswerFields
<1> QED
  BY <1>2, <1>3 DEF Player

LEMMA KeptContent ==
    ASSUME PlaybackTypeOK, NEW p \in Players,
           SignPlaybackToken(p) \/ ServeMaster(p) \/ DropRequest(p)
    PROVE  player'[p].content = player[p].content
<1>1. player[p] \in Player
  BY DEF PlaybackTypeOK
<1>2. ASSUME NEW pc, NEW held, Answer(p, pc, held)
      PROVE  player'[p] = held
  BY <1>2, AnswerFields
<1>3. \/ player'[p] = [player[p] EXCEPT !.url = now + TokenLife]
      \/ player'[p] = [player[p] EXCEPT !.rungs = master, !.token = request[p].token]
      \/ player'[p] = player[p]
  BY <1>2 DEF SignPlaybackToken, ServeMaster, DropRequest
<1> QED
  BY <1>1, <1>3 DEF Player

LEMMA PlayerRecent ==
    ASSUME Known, PlaybackTypeOK, NEW q \in Players, InTime(q), LeftOver(q),
           StreamIsRecent(q), PlayerNext(q)
    PROVE  StreamIsRecent(q)'
<1>1. /\ UNCHANGED <<raw, hls, master, video, offAir, now>>
      /\ OnTheAir' = OnTheAir /\ Upload' = Upload
  BY OthersStay DEF PlayerMoves, vars, OnTheAir, Upload
<1>2. CASE ServeRung(q)
  <2>1. /\ player'[q].rung = request[q].path /\ player'[q].until = now + TokenLife
        /\ player'[q].content = hls[<<request[q].path, Playlist>>]
        /\ request[q].pc = "playable"
    BY <1>2, Answers, ServedContent
  <2>2. CASE OnTheAir
    BY <1>1, <2>1, <2>2, RungIsCurrent DEF StreamIsRecent
  <2>3. CASE ~OnTheAir
    <3>1. offAir # None /\ now + TokenLife <= offAir + MaxServe + TokenLife
      BY <2>1, <2>3, Numbers DEF OnTheAir, LeftOver, InTime
    <3> QED
      BY <1>1, <2>1, <3>1 DEF StreamIsRecent
  <2> QED
    BY <2>2, <2>3
<1>3. CASE SignPlaybackToken(q) \/ ServeMaster(q) \/ DropRequest(q)
  <2>1. /\ player'[q].rung = player[q].rung /\ player'[q].until = player[q].until
        /\ player'[q].content = player[q].content
    BY <1>3, Answers, KeptContent
  <2> QED
    BY <1>1, <2>1 DEF StreamIsRecent
<1>4. CASE UNCHANGED player
  BY <1>1, <1>4 DEF StreamIsRecent
<1> QED
  BY <1>2, <1>3, <1>4
     DEF PlayerNext, CheckAccess, VerifyToken, Ask, LoadForURL, LoadForManifest, Load, Grant,
         Revoke

LEMMA RecentStep ==
    ASSUME Known, Known', PlaybackTypeOK,
           \A p \in Players : InTime(p) /\ LeftOver(p) /\ StreamIsRecent(p),
           [PlaybackNext]_playbackVars, [UploadHeld]_vars
    PROVE  \A p \in Players : StreamIsRecent(p)'
<1>1. ASSUME NEW q \in Players, PlayerNext(q)
      PROVE  \A p \in Players : StreamIsRecent(p)'
  <2>1. UNCHANGED <<raw, master, video, offAir>> /\ PlayerMoves(q)
    BY <1>1, OthersStay DEF PlayerMoves, vars
  <2>2. ASSUME NEW p \in Players, p # q
        PROVE  StreamIsRecent(p)'
    <3>1. player'[p] = player[p]
      BY <2>1, <2>2 DEF PlayerMoves
    <3> QED
      BY <2>1, <3>1 DEF StreamIsRecent, OnTheAir, Upload
  <2> QED
    BY <1>1, <2>2, PlayerRecent
<1>2. CASE PipelineStep
  <2>1. UNCHANGED <<now, player>> /\ [Next]_vars
    BY <1>2 DEF PipelineStep, watching
  <2>2. CASE OnTheAir /\ ~OnTheAir'
    <3>1. offAir' = now /\ now # None
      BY <1>2, <2>2, Numbers, PlaybackAssumption DEF PipelineStep, OnTheAir
    <3>2. \A p \in Players : player[p].until <= now + MaxServe + TokenLife
      BY Numbers DEF PlaybackTypeOK
    <3> QED
      BY <2>1, <3>1, <3>2 DEF StreamIsRecent
  <2>3. CASE OnTheAir /\ OnTheAir'
    <3>1. UNCHANGED offAir
      BY <1>2, <2>3 DEF PipelineStep, OnTheAir
    <3>2. Upload' = Upload /\ master' = master
      BY <2>1, <2>3, OnAirStays
    <3> QED
      BY <2>1, <2>3, <3>1, <3>2 DEF StreamIsRecent
  <2>4. CASE ~OnTheAir
    <3>1. UNCHANGED offAir
      BY <1>2, <2>4 DEF PipelineStep, OnTheAir
    <3> QED
      BY <2>1, <2>4, <3>1 DEF StreamIsRecent
  <2> QED
    BY <2>2, <2>3, <2>4
<1>3. CASE Tick \/ UNCHANGED playbackVars
  BY <1>3 DEF Tick, playbackVars, watching, vars, StreamIsRecent, OnTheAir, Upload
<1> QED
  BY <1>1, <1>2, <1>3 DEF PlaybackNext

\* A rung of the published ladder is watched in a form that was replaced no
\* longer than the request and the URLs that straddled the replacement live: for
\* any number of players, any old playlists and fresh tokens, any ladders, and
\* any failures, retries and duplicates of the jobs, if replacements and PUTs
\* keep UploadHeld.
THEOREM OldStreamRunsOut == PlaybackSpec /\ [][UploadHeld]_vars => []OldStreamExpires
<1>1. PlaybackInit => \A p \in Players : LeftOver(p) /\ StreamIsRecent(p)
  BY DEF PlaybackInit, LeftOver, StreamIsRecent, NewPlayer, NoRequest
<1>2. Known /\ Known' /\ PlaybackTypeOK /\ (\A p \in Players : InTime(p))
          /\ (\A p \in Players : LeftOver(p) /\ StreamIsRecent(p))
          /\ [PlaybackNext]_playbackVars /\ [UploadHeld]_vars
          => (\A p \in Players : LeftOver(p) /\ StreamIsRecent(p))'
  BY RecentStep, LeftOverStep
<1>3. Known /\ PlaybackTypeOK /\ (\A p \in Players : LeftOver(p) /\ StreamIsRecent(p))
          => OldStreamExpires
  <2> SUFFICES ASSUME Known, PlaybackTypeOK, NEW p \in Players, StreamIsRecent(p),
                      Watching(p), OnTheAir, player[p].rung \in master
               PROVE  \/ StreamIsCurrent(p)
                      \/ offAir # None /\ now <= offAir + MaxServe + TokenLife
    BY DEF OldStreamExpires, OnTheAir
  <2>1. CASE player[p].content = Upload
    BY <2>1, RungIsCurrent DEF StreamIsCurrent, Upload
  <2>2. CASE offAir # None /\ player[p].until <= offAir + MaxServe + TokenLife
    BY <2>2, Numbers DEF Watching
  <2> QED
    BY <2>1, <2>2 DEF StreamIsRecent, Watching
<1> QED
  BY <1>1, <1>2, <1>3, CurrentAlways, PlaybackIsPipeline, InTimeAlways, PTL
     DEF PlaybackSpec

================================================================================
