----------------------------- MODULE PlaybackProofs -----------------------------
(* Theorems about Playback for every number of students, every token life,      *)
(* every time a request may take, and whatever the pipeline does meanwhile.     *)
EXTENDS Playback, VideoPipelineSafety

-------------------------------------------------------------------------------
(* Types *)

\* Expiries that are no later than one life from now.
Fresh(expiry) == expiry \in Expiries /\ expiry <= now + TokenLife

LEMMA NewExpiry ==
    ASSUME PlaybackTypeOK
    PROVE  now \in Nat /\ Fresh(now + TokenLife) /\ Fresh(NoToken)
  BY PlaybackAssumption DEF PlaybackTypeOK, Expiries, Fresh, NoToken

\* What a player holds after an answer: the three expiries are fresh.
Held(held) ==
    held \in Player /\ Fresh(held.url) /\ Fresh(held.token) /\ Fresh(held.until)

LEMMA AskType ==
    ASSUME PlaybackTypeOK, NEW p \in Players, NEW pc \in {"granted", "verified"},
           NEW path \in Rungs \cup {MasterPath}, NEW token, Fresh(token),
           Ask(p, pc, path, token)
    PROVE  PlaybackTypeOK'
<1>1. now \in 0..MaxClock
  BY PlaybackAssumption DEF PlaybackTypeOK
<1>2. [pc |-> pc, path |-> path, token |-> token, began |-> now] \in Request
  BY <1>1 DEF Request, Fresh
<1> QED
  BY <1>2 DEF Ask, Fresh, PlaybackTypeOK

LEMMA AnswerType ==
    ASSUME PlaybackTypeOK, NEW p \in Players, NEW pc, NEW held, Held(held),
           Answer(p, pc, held)
    PROVE  PlaybackTypeOK'
<1>1. NoRequest \in Request /\ NoRequest.token <= now + TokenLife
  BY PlaybackAssumption DEF NoRequest, Request, MasterPath, NoToken, Expiries, PlaybackTypeOK
<1> QED
  BY <1>1 DEF Answer, Held, Fresh, PlaybackTypeOK

LEMMA LoadType ==
    ASSUME PlaybackTypeOK, NEW p \in Players, NEW from,
           NEW to \in {"signing", "playable"}, Load(p, from, to)
    PROVE  PlaybackTypeOK'
  BY DEF Load, PlaybackTypeOK, Request

\* Every step of a player, of the world around it and of the pipeline keeps
\* the types of the player's variables.
LEMMA PlaybackTypeStep ==
    ASSUME TypeOK, PlaybackTypeOK, [PlaybackNext]_playbackVars
    PROVE  PlaybackTypeOK'
<1>1. ASSUME NEW p \in Players, PlayerNext(p)
      PROVE  PlaybackTypeOK'
  <2>1. player[p] \in Player /\ Held(player[p]) /\ request[p] \in Request /\ Fresh(request[p].token)
    BY DEF PlaybackTypeOK, Held, Fresh, Player, Request
  <2>2. CASE CheckAccess(p)
    BY <2>2, AskType, NewExpiry DEF CheckAccess
  <2>3. CASE LoadForURL(p)
    BY <2>3, LoadType DEF LoadForURL
  <2>4. CASE SignPlaybackToken(p)
    <3>1. Held([player[p] EXCEPT !.url = now + TokenLife])
      BY <2>1, NewExpiry DEF Held, Player, Fresh
    <3> QED
      BY <2>4, <3>1, AnswerType DEF SignPlaybackToken
  <2>5. CASE VerifyToken(p)
    <3>1. PICK path \in Paths, token \in Tokens(p) : Ask(p, "verified", path, token)
      BY <2>5 DEF VerifyToken
    <3>2. path \in Rungs \cup {MasterPath} /\ Fresh(token)
      BY <2>1, <3>1 DEF Paths, Tokens, Player, Held
    <3> QED
      BY <3>1, <3>2, AskType
  <2>6. CASE LoadForManifest(p)
    BY <2>6, LoadType DEF LoadForManifest
  <2>7. CASE ServeMaster(p)
    <3>1. Held([player[p] EXCEPT !.rungs = master, !.token = request[p].token])
      BY <2>1 DEF Held, Player, Fresh, TypeOK
    <3> QED
      BY <2>7, <3>1, AnswerType DEF ServeMaster
  <2>8. CASE ServeRung(p)
    <3> DEFINE path == request[p].path
               content == hls[<<path, Playlist>>]
    <3>1. path # MasterPath /\ path \in Rungs /\ content \in Contents
      <4>1. path # MasterPath /\ path \in Rungs /\ content # None
        BY <2>1, <2>8 DEF ServeRung, Request
      <4>2. <<path, Playlist>> \in Files
        BY <4>1, MaxSegmentsAssumption DEF Files, Playlist
      <4> QED
        BY <4>1, <4>2 DEF TypeOK
    <3>2. Answer(p, "playable", [player[p] EXCEPT !.rung = path, !.content = content,
                                                  !.until = now + TokenLife])
      BY <2>8, <3>1 DEF ServeRung
    <3>3. Held([player[p] EXCEPT !.rung = path, !.content = content,
                                 !.until = now + TokenLife])
      BY <2>1, <3>1, NewExpiry DEF Held, Player, Fresh
    <3> QED
      BY <3>2, <3>3, AnswerType
  <2>9. CASE DropRequest(p)
    BY <2>1, <2>9, AnswerType DEF DropRequest
  <2>10. CASE Grant(p) \/ Revoke(p)
    BY <2>10, PlaybackAssumption DEF Grant, Revoke, PlaybackTypeOK
  <2> QED
    BY <1>1, <2>2, <2>3, <2>4, <2>5, <2>6, <2>7, <2>8, <2>9, <2>10 DEF PlayerNext
<1>2. CASE Tick
  <2>1. now' = now + 1 /\ now' \in 1..MaxClock /\ UNCHANGED <<access, player, request, revoked, offAir>>
    BY <1>2, PlaybackAssumption DEF Tick, PlaybackTypeOK, watching
  <2>2. \A e \in Expiries : e <= now + TokenLife => e <= now' + TokenLife
    BY <2>1, PlaybackAssumption DEF Expiries, PlaybackTypeOK
  <2>3. \A p \in Players : player[p] \in Player /\ request[p] \in Request
    BY DEF PlaybackTypeOK
  <2> QED
    BY <2>1, <2>2, <2>3 DEF PlaybackTypeOK, Player, Request
<1>3. CASE PipelineStep \/ UNCHANGED playbackVars
  <2>1. UNCHANGED <<now, access, player, request, revoked>> /\ offAir' \in {now, offAir}
    BY <1>3 DEF PipelineStep, playbackVars, watching
  <2> QED
    BY <2>1 DEF PlaybackTypeOK
<1> QED
  BY <1>1, <1>2, <1>3 DEF PlaybackNext

\* Nothing a player does touches the pipeline.
LEMMA PipelineAlone ==
    ASSUME [PlaybackNext]_playbackVars
    PROVE  [Next]_vars
  BY DEF PlaybackNext, PlayerNext, CheckAccess, LoadForURL, SignPlaybackToken, VerifyToken,
         LoadForManifest, ServeMaster, ServeRung, DropRequest, Grant, Revoke, Ask, Answer,
         Load, Tick, PipelineStep, playbackVars

\* Playback implements the pipeline: every theorem about Spec holds with any
\* number of students watching.
THEOREM PlaybackIsPipeline == PlaybackSpec => Spec
<1>1. PlaybackInit => Init
  BY DEF PlaybackInit
<1> QED
  BY <1>1, PipelineAlone, PTL DEF PlaybackSpec, Spec

\* For every number of players and every life of a token, the variables of
\* playback keep their types, and no expiry is further away than one life.
THEOREM PlaybackTypeCorrect == PlaybackSpec => []PlaybackTypeOK
<1>1. PlaybackInit => PlaybackTypeOK
  BY PlaybackAssumption
     DEF PlaybackInit, PlaybackTypeOK, Player, NewPlayer, Request, NoRequest, MasterPath,
         NoToken, Expiries
<1>2. TypeOK /\ PlaybackTypeOK /\ [PlaybackNext]_playbackVars => PlaybackTypeOK'
  BY PlaybackTypeStep
<1> QED
  BY <1>1, <1>2, PlaybackIsPipeline, TypesKept, PTL DEF PlaybackSpec

-------------------------------------------------------------------------------
(* Requests do not outlive MaxServe *)

\* A request under way is at most MaxServe old, and a request for a manifest
\* began before its token expired.
InTime(p) ==
    request[p].pc # "idle" =>
        /\ request[p].began <= now
        /\ now <= request[p].began + MaxServe
        /\ request[p].pc \in {"verified", "playable"} =>
               request[p].began <= request[p].token

\* The times in the variables, as numbers.
LEMMA Numbers ==
    ASSUME PlaybackTypeOK
    PROVE  /\ now \in Nat /\ TokenLife \in Nat /\ MaxServe \in Nat
           /\ \A p \in Players :
                /\ request[p].began \in Nat /\ request[p].token \in Nat
                /\ player[p].url \in Nat /\ player[p].token \in Nat
                /\ player[p].until \in Nat
                /\ revoked[p] # None => revoked[p] \in Nat
           /\ offAir # None => offAir \in Nat
<1>1. 0..MaxClock \subseteq Nat /\ 1..MaxClock \subseteq Nat /\ Expiries \subseteq Nat
  BY PlaybackAssumption DEF Expiries
<1>2. \A p \in Players : player[p] \in Player /\ request[p] \in Request
                         /\ revoked[p] \in 1..MaxClock \cup {None}
  BY DEF PlaybackTypeOK
<1> QED
  BY <1>1, <1>2, PlaybackAssumption DEF PlaybackTypeOK, Player, Request

\* What a step does to the variables of playback: a request is asked for,
\* loaded or answered by its player, or the world around it moves.
PlayerMoves(p) ==
    /\ UNCHANGED <<vars, now, offAir>>
    /\ \A o \in Players \ {p} :
         /\ player'[o] = player[o] /\ request'[o] = request[o] /\ revoked'[o] = revoked[o]
         /\ o \in access' <=> o \in access

LEMMA OthersStay ==
    ASSUME PlaybackTypeOK, NEW p \in Players, PlayerNext(p)
    PROVE  PlayerMoves(p)
  BY DEF PlayerMoves, PlaybackTypeOK, PlayerNext, CheckAccess, LoadForURL, SignPlaybackToken,
         VerifyToken, LoadForManifest, ServeMaster, ServeRung, DropRequest, Grant, Revoke,
         Ask, Answer, Load

\* A step of a request, field by field.
LEMMA LoadFields ==
    ASSUME PlaybackTypeOK, NEW p \in Players, NEW from, NEW to, Load(p, from, to)
    PROVE  /\ request[p].pc = from /\ request'[p].pc = to
           /\ request'[p].path = request[p].path
           /\ request'[p].token = request[p].token
           /\ request'[p].began = request[p].began
           /\ UNCHANGED <<vars, now, access, player, revoked, offAir>>
<1>1. request[p] \in Request /\ request'[p] = [request[p] EXCEPT !.pc = to]
  BY DEF PlaybackTypeOK, Load
<1> QED
  BY <1>1 DEF Load, Request

LEMMA AnswerFields ==
    ASSUME PlaybackTypeOK, NEW p \in Players, NEW pc, NEW held, Answer(p, pc, held)
    PROVE  /\ request[p].pc = pc /\ request'[p].pc = "idle"
           /\ request'[p].path = MasterPath /\ request'[p].token = 0
           /\ player'[p] = held
           /\ UNCHANGED <<vars, now, access, revoked, offAir>>
<1>1. NoRequest.pc = "idle" /\ NoRequest.path = MasterPath /\ NoRequest.token = 0
  BY DEF NoRequest, NoToken
<1> QED
  BY <1>1 DEF Answer, PlaybackTypeOK

\* The answers: what each of them changes in what the player holds.
LEMMA Answers ==
    ASSUME PlaybackTypeOK, NEW p \in Players
    PROVE  /\ SignPlaybackToken(p) =>
                /\ request[p].pc = "signing"
                /\ player'[p].url = now + TokenLife /\ player'[p].token = player[p].token
                /\ player'[p].until = player[p].until /\ player'[p].rung = player[p].rung
                /\ player'[p].rungs = player[p].rungs
           /\ ServeMaster(p) =>
                /\ request[p].pc = "playable"
                /\ player'[p].url = player[p].url /\ player'[p].token = request[p].token
                /\ player'[p].until = player[p].until /\ player'[p].rung = player[p].rung
                /\ player'[p].rungs = master
           /\ ServeRung(p) =>
                /\ request[p].pc = "playable" /\ request[p].path # MasterPath
                /\ player'[p].url = player[p].url /\ player'[p].token = player[p].token
                /\ player'[p].until = now + TokenLife /\ player'[p].rung = request[p].path
                /\ player'[p].rungs = player[p].rungs
           /\ DropRequest(p) => player'[p] = player[p]
           /\ SignPlaybackToken(p) \/ ServeMaster(p) \/ ServeRung(p) \/ DropRequest(p) =>
                /\ request'[p].pc = "idle"
                /\ request'[p].path = MasterPath /\ request'[p].token = 0
                /\ UNCHANGED <<vars, now, access, revoked, offAir>>
<1>1. player[p] \in Player
  BY DEF PlaybackTypeOK
<1>2. ASSUME SignPlaybackToken(p)
      PROVE  Answer(p, "signing", [player[p] EXCEPT !.url = now + TokenLife])
  BY <1>2 DEF SignPlaybackToken
<1>3. ASSUME ServeMaster(p)
      PROVE  Answer(p, "playable",
                    [player[p] EXCEPT !.rungs = master, !.token = request[p].token])
  BY <1>3 DEF ServeMaster
<1>4. ASSUME ServeRung(p)
      PROVE  /\ request[p].path # MasterPath
             /\ Answer(p, "playable",
                       [player[p] EXCEPT !.rung = request[p].path,
                                         !.content = hls[<<request[p].path, Playlist>>],
                                         !.until = now + TokenLife])
  BY <1>4 DEF ServeRung
<1>5. ASSUME DropRequest(p)
      PROVE  Answer(p, request[p].pc, player[p])
  BY <1>5 DEF DropRequest
<1>6. SignPlaybackToken(p) =>
        /\ request[p].pc = "signing"
        /\ player'[p] = [player[p] EXCEPT !.url = now + TokenLife]
  BY <1>2, AnswerFields
<1>7. ServeMaster(p) =>
        /\ request[p].pc = "playable"
        /\ player'[p] = [player[p] EXCEPT !.rungs = master, !.token = request[p].token]
  BY <1>3, AnswerFields
<1>8. ServeRung(p) =>
        /\ request[p].pc = "playable" /\ request[p].path # MasterPath
        /\ player'[p] = [player[p] EXCEPT !.rung = request[p].path,
                                          !.content = hls[<<request[p].path, Playlist>>],
                                          !.until = now + TokenLife]
  BY <1>4, AnswerFields
<1>9. DropRequest(p) => player'[p] = player[p]
  BY <1>5, AnswerFields
<1>10. SignPlaybackToken(p) \/ ServeMaster(p) \/ ServeRung(p) \/ DropRequest(p) =>
        /\ request'[p].pc = "idle"
        /\ request'[p].path = MasterPath /\ request'[p].token = 0
        /\ UNCHANGED <<vars, now, access, revoked, offAir>>
  BY <1>2, <1>3, <1>4, <1>5, AnswerFields
<1> QED
  BY <1>1, <1>6, <1>7, <1>8, <1>9, <1>10 DEF Player

LEMMA InTimeStep ==
    ASSUME PlaybackTypeOK, \A p \in Players : InTime(p), [PlaybackNext]_playbackVars
    PROVE  \A p \in Players : InTime(p)'
<1>1. ASSUME NEW q \in Players, PlayerNext(q)
      PROVE  \A p \in Players : InTime(p)'
  <2>1. SUFFICES InTime(q)'
    BY <1>1, OthersStay DEF PlayerMoves, InTime
  <2>2. CASE CheckAccess(q) \/ VerifyToken(q)
    BY <2>2, Numbers DEF CheckAccess, VerifyToken, Ask, InTime, PlaybackTypeOK
  <2>3. CASE LoadForURL(q) \/ LoadForManifest(q)
    <3>1. Load(q, "granted", "signing") \/ Load(q, "verified", "playable")
      BY <2>3 DEF LoadForURL, LoadForManifest
    <3> QED
      BY <3>1, LoadFields DEF InTime
  <2>4. CASE SignPlaybackToken(q) \/ ServeMaster(q) \/ ServeRung(q) \/ DropRequest(q)
    BY <2>4, Answers DEF InTime
  <2>5. CASE Grant(q) \/ Revoke(q)
    BY <2>5 DEF Grant, Revoke, InTime
  <2> QED
    BY <1>1, <2>2, <2>3, <2>4, <2>5 DEF PlayerNext
<1>2. CASE Tick
  <2>1. \A p \in Players : request[p].pc # "idle" => now < request[p].began + MaxServe
    BY <1>2 DEF Tick, NoRequest
  <2> QED
    BY <1>2, <2>1, Numbers DEF Tick, watching, InTime
<1>3. CASE PipelineStep \/ UNCHANGED playbackVars
  BY <1>3 DEF PipelineStep, playbackVars, watching, InTime
<1> QED
  BY <1>1, <1>2, <1>3 DEF PlaybackNext

LEMMA InTimeAlways == PlaybackSpec => [](PlaybackTypeOK /\ \A p \in Players : InTime(p))
<1>1. PlaybackInit => \A p \in Players : InTime(p)
  BY DEF PlaybackInit, InTime, NoRequest
<1>2. PlaybackTypeOK /\ (\A p \in Players : InTime(p)) /\ [PlaybackNext]_playbackVars
          => (\A p \in Players : InTime(p))'
  BY InTimeStep
<1> QED
  BY <1>1, <1>2, PlaybackTypeCorrect, PTL DEF PlaybackSpec

-------------------------------------------------------------------------------
(* Access that was taken away *)

\* What a student without access can still hold: a URL signed by a request
\* that began before, and what that URL buys.
RunsOut(p) ==
    p \notin access =>
        /\ revoked[p] # None
        /\ request[p].pc \in {"granted", "signing"} => request[p].began <= revoked[p]
        /\ player[p].url <= revoked[p] + MaxServe + TokenLife
        /\ player[p].token <= revoked[p] + MaxServe + TokenLife
        /\ request[p].token <= revoked[p] + MaxServe + TokenLife
        /\ player[p].until <= revoked[p] + 2 * (TokenLife + MaxServe)

LEMMA RunsOutStep ==
    ASSUME PlaybackTypeOK, \A p \in Players : InTime(p) /\ RunsOut(p),
           [PlaybackNext]_playbackVars
    PROVE  \A p \in Players : RunsOut(p)'
<1>1. ASSUME NEW q \in Players, PlayerNext(q)
      PROVE  \A p \in Players : RunsOut(p)'
  <2>1. SUFFICES RunsOut(q)'
    BY <1>1, OthersStay DEF PlayerMoves, RunsOut
  <2> USE DEF RunsOut
  <2>2. CASE CheckAccess(q)
    BY <2>2 DEF CheckAccess, HasAccess, Ask
  <2>3. CASE VerifyToken(q)
    <3>1. PICK path \in Paths, token \in {player[q].url, player[q].token} :
            Ask(q, "verified", path, token)
      BY <2>3 DEF VerifyToken, Tokens
    <3>2. /\ request'[q].pc = "verified" /\ request'[q].token = token
          /\ UNCHANGED <<access, player, revoked>>
      BY <3>1 DEF Ask, PlaybackTypeOK
    <3> QED
      BY <3>2
  <2>4. CASE LoadForURL(q) \/ LoadForManifest(q)
    <3>1. Load(q, "granted", "signing") \/ Load(q, "verified", "playable")
      BY <2>4 DEF LoadForURL, LoadForManifest
    <3> QED
      BY <3>1, LoadFields
  <2>5. CASE SignPlaybackToken(q)
    <3>1. q \notin access => now + TokenLife <= revoked[q] + MaxServe + TokenLife
      BY <2>5, Answers, Numbers DEF InTime
    <3> QED
      BY <2>5, <3>1, Answers, Numbers
  <2>6. CASE ServeMaster(q)
    BY <2>6, Answers, Numbers
  <2>7. CASE ServeRung(q)
    <3>1. q \notin access => now + TokenLife <= revoked[q] + 2 * (TokenLife + MaxServe)
      BY <2>7, Answers, Numbers DEF InTime
    <3> QED
      BY <2>7, <3>1, Answers, Numbers
  <2>8. CASE DropRequest(q)
    BY <2>8, Answers, Numbers
  <2>9. CASE Grant(q)
    BY <2>9 DEF Grant
  <2>10. CASE Revoke(q)
    <3>1. revoked'[q] = now /\ UNCHANGED <<player, request>> /\ now # None
      BY <2>10, Numbers, PlaybackAssumption DEF Revoke, PlaybackTypeOK
    <3>2. /\ player[q].url <= now + TokenLife /\ player[q].token <= now + TokenLife
          /\ player[q].until <= now + TokenLife /\ request[q].token <= now + TokenLife
          /\ request[q].pc # "idle" => request[q].began <= now
      BY DEF PlaybackTypeOK, InTime
    <3> QED
      BY <3>1, <3>2, Numbers
  <2> QED
    BY <1>1, <2>2, <2>3, <2>4, <2>5, <2>6, <2>7, <2>8, <2>9, <2>10 DEF PlayerNext
<1>2. CASE Tick \/ PipelineStep \/ UNCHANGED playbackVars
  BY <1>2 DEF Tick, PipelineStep, playbackVars, watching, RunsOut
<1> QED
  BY <1>1, <1>2 DEF PlaybackNext

\* A student who lost access cannot fetch segments later than two token lives
\* and two requests after that, whatever the player asks for and whenever the
\* pipeline replaces the video.
THEOREM AccessRunsOut == PlaybackSpec => []AccessExpires
<1>1. PlaybackInit => \A p \in Players : RunsOut(p)
  BY DEF PlaybackInit, RunsOut
<1>2. PlaybackTypeOK /\ (\A p \in Players : InTime(p)) /\ (\A p \in Players : RunsOut(p))
          /\ [PlaybackNext]_playbackVars => (\A p \in Players : RunsOut(p))'
  BY RunsOutStep
<1>3. PlaybackTypeOK /\ (\A p \in Players : RunsOut(p)) => AccessExpires
  BY Numbers DEF AccessExpires, RunsOut, Watching
<1> QED
  BY <1>1, <1>2, <1>3, InTimeAlways, PTL DEF PlaybackSpec

-------------------------------------------------------------------------------
(* A video that went off the air *)

\* While the video is not PUBLISHED: only a request that began before can still
\* be served, and what is held was served by such a request.
LeftOver(p) ==
    video.status # "PUBLISHED" =>
        /\ request[p].pc = "playable" => offAir # None /\ request[p].began <= offAir
        /\ player[p].rung # MasterPath =>
               offAir # None /\ player[p].until <= offAir + MaxServe + TokenLife

LEMMA LeftOverStep ==
    ASSUME PlaybackTypeOK, \A p \in Players : InTime(p) /\ LeftOver(p),
           [PlaybackNext]_playbackVars
    PROVE  \A p \in Players : LeftOver(p)'
<1>1. ASSUME NEW q \in Players, PlayerNext(q)
      PROVE  \A p \in Players : LeftOver(p)'
  <2>1. SUFFICES LeftOver(q)'
    BY <1>1, OthersStay DEF PlayerMoves, LeftOver, vars
  <2> USE DEF LeftOver, vars
  <2>2. CASE CheckAccess(q) \/ VerifyToken(q)
    BY <2>2 DEF CheckAccess, VerifyToken, Ask, PlaybackTypeOK
  <2>3. CASE LoadForURL(q)
    <3>1. Load(q, "granted", "signing")
      BY <2>3 DEF LoadForURL
    <3> QED
      BY <3>1, LoadFields
  <2>4. CASE LoadForManifest(q)
    BY <2>4 DEF LoadForManifest, Load, OnAir
  <2>5. CASE SignPlaybackToken(q)
    BY <2>5, Answers
  <2>6. CASE ServeMaster(q)
    BY <2>6, Answers
  <2>7. CASE ServeRung(q)
    <3>1. video.status # "PUBLISHED" =>
            offAir # None /\ now + TokenLife <= offAir + MaxServe + TokenLife
      BY <2>7, Answers, Numbers DEF InTime
    <3> QED
      BY <2>7, <3>1, Answers
  <2>8. CASE DropRequest(q)
    BY <2>8, Answers
  <2>9. CASE Grant(q) \/ Revoke(q)
    BY <2>9 DEF Grant, Revoke
  <2> QED
    BY <1>1, <2>2, <2>3, <2>4, <2>5, <2>6, <2>7, <2>8, <2>9 DEF PlayerNext
<1>2. CASE PipelineStep
  <2>1. CASE video.status = "PUBLISHED" /\ video'.status # "PUBLISHED"
    <3>1. offAir' = now /\ now # None /\ UNCHANGED <<now, player, request>>
      BY <1>2, <2>1, Numbers, PlaybackAssumption DEF PipelineStep, watching
    <3>2. \A p \in Players : request[p].pc = "playable" => request[p].began <= now
      BY DEF InTime
    <3>3. \A p \in Players : player[p].until <= now + MaxServe + TokenLife
      BY Numbers DEF PlaybackTypeOK
    <3> QED
      BY <3>1, <3>2, <3>3 DEF LeftOver
  <2>2. CASE ~(video.status = "PUBLISHED" /\ video'.status # "PUBLISHED")
    <3>1. UNCHANGED <<now, player, request, offAir>>
      BY <1>2, <2>2 DEF PipelineStep, watching
    <3> QED
      BY <2>2, <3>1 DEF LeftOver
  <2> QED
    BY <2>1, <2>2
<1>3. CASE Tick \/ UNCHANGED playbackVars
  BY <1>3 DEF Tick, playbackVars, watching, vars, LeftOver
<1> QED
  BY <1>1, <1>2, <1>3 DEF PlaybackNext

\* A video that is not PUBLISHED any more is watched no longer than the request
\* that was being served, and the URLs it gave, live: for any number of players
\* and whatever tokens they hold.
THEOREM OffAirEnds == PlaybackSpec => []OffAirStops
<1>1. PlaybackInit => \A p \in Players : LeftOver(p)
  BY DEF PlaybackInit, LeftOver, NewPlayer, NoRequest
<1>2. PlaybackTypeOK /\ (\A p \in Players : InTime(p)) /\ (\A p \in Players : LeftOver(p))
          /\ [PlaybackNext]_playbackVars => (\A p \in Players : LeftOver(p))'
  BY LeftOverStep
<1>3. PlaybackTypeOK /\ (\A p \in Players : LeftOver(p)) => OffAirStops
  BY Numbers DEF OffAirStops, LeftOver, Watching
<1> QED
  BY <1>1, <1>2, <1>3, InTimeAlways, PTL DEF PlaybackSpec

-------------------------------------------------------------------------------
(* What a player was told to fetch is there *)

\* The rungs a player knows.
Linked(p) ==
    player[p].rungs # {} => \E content \in Contents : Backed(player[p].rungs, content)

LEMMA LinkedStep ==
    ASSUME TypeOK, NothingMissing, LadderInv, PlaybackTypeOK,
           \A p \in Players : Linked(p), [PlaybackNext]_playbackVars
    PROVE  \A p \in Players : Linked(p)'
<1> SUFFICES ASSUME NEW p \in Players, player'[p].rungs # {}
             PROVE  Linked(p)'
  BY DEF Linked
<1>1. [Next]_vars /\ player[p].rungs \in SUBSET Rungs
  BY PipelineAlone DEF PlaybackTypeOK, Player
<1>2. CASE player'[p].rungs = player[p].rungs
  <2>1. PICK content \in Contents : Backed(player[p].rungs, content)
    BY <1>2 DEF Linked
  <2> DEFINE rungs == player[p].rungs
  <2>2. \A f \in Transcode(rungs, Segments[content]) : hls'[f] # None
    <3>1. Transcode(rungs, Segments[content]) \subseteq Files
      BY <1>1, LadderFiles
    <3> QED
      BY <1>1, <2>1, <3>1, FilesStay DEF Backed
  <2> QED
    BY <1>2, <2>2 DEF Linked, Backed
<1>3. CASE player'[p].rungs # player[p].rungs
  <2>1. ServeMaster(p)
    <3>1. PICK q \in Players : PlayerNext(q)
      BY <1>3 DEF PlaybackNext, PipelineStep, Tick, playbackVars, watching
    <3>2. q = p
      BY <1>3, <3>1, OthersStay DEF PlayerMoves
    <3>3. ~(SignPlaybackToken(p) \/ ServeRung(p) \/ DropRequest(p))
      BY <1>3, Answers
    <3> QED
      BY <1>3, <3>1, <3>2, <3>3
         DEF PlayerNext, CheckAccess, VerifyToken, Ask, LoadForURL, LoadForManifest, Load,
             Grant, Revoke
  <2>2. player'[p].rungs = master /\ UNCHANGED <<hls, master>>
    BY <2>1, Answers DEF vars
  <2>3. PICK content \in Contents : Backed(master, content)
    BY <2>2 DEF LadderInv, MasterIsBacked
  <2> QED
    BY <2>2, <2>3 DEF Linked, Backed
<1> QED
  BY <1>2, <1>3

\* Whatever master playlist a player got, and however many jobs of longer and
\* shorter uploads have overwritten the ladder since, its rungs have their
\* playlists and the segments of some upload in storage.
THEOREM LinksHold == PlaybackSpec => []NoBrokenLinks
<1>1. PlaybackInit => \A p \in Players : Linked(p)
  BY DEF PlaybackInit, Linked, NewPlayer
<1>2. TypeOK /\ NothingMissing /\ LadderInv /\ PlaybackTypeOK /\ (\A p \in Players : Linked(p))
          /\ [PlaybackNext]_playbackVars => (\A p \in Players : Linked(p))'
  BY LinkedStep
<1>3. (\A p \in Players : Linked(p)) => NoBrokenLinks
  BY DEF Linked, NoBrokenLinks
<1> QED
  BY <1>1, <1>2, <1>3, PlaybackIsPipeline, LadderKept, PlaybackTypeCorrect, PTL
     DEF PlaybackSpec

-------------------------------------------------------------------------------
(* The two leases *)

\* Only the answer to a request for a rung moves a lease, that of its player.
LEMMA LeasesMove ==
    ASSUME PlaybackTypeOK, [PlaybackNext]_playbackVars
    PROVE  \/ UNCHANGED Leases
           \/ \E p \in Players :
                /\ ServeRung(p)
                /\ Leases' = [Leases EXCEPT ![p] = now + TokenLife]
                /\ UNCHANGED <<now, video, access, revoked, offAir>>
<1>1. CASE \E q \in Players : PlayerNext(q)
  <2>1. PICK q \in Players : PlayerNext(q)
    BY <1>1
  <2>2. /\ \A o \in Players \ {q} : player'[o] = player[o]
        /\ UNCHANGED <<now, video, offAir>>
    BY <2>1, OthersStay DEF PlayerMoves, vars
  <2>3. CASE ServeRung(q)
    <3>1. player'[q].until = now + TokenLife /\ UNCHANGED <<access, revoked>>
      BY <2>3, Answers
    <3>2. Leases' = [Leases EXCEPT ![q] = now + TokenLife]
      BY <2>2, <3>1 DEF Leases
    <3> QED
      BY <2>2, <2>3, <3>1, <3>2
  <2>4. CASE ~ServeRung(q)
    <3>1. player'[q].until = player[q].until
      <4>1. CASE SignPlaybackToken(q) \/ ServeMaster(q) \/ DropRequest(q)
        BY <4>1, Answers
      <4>2. CASE UNCHANGED player
        BY <4>2
      <4> QED
        BY <2>1, <2>4, <4>1, <4>2
           DEF PlayerNext, CheckAccess, VerifyToken, Ask, LoadForURL, LoadForManifest, Load,
               Grant, Revoke
    <3> QED
      BY <2>2, <3>1 DEF Leases
  <2> QED
    BY <2>3, <2>4
<1>2. CASE PipelineStep \/ Tick \/ UNCHANGED playbackVars
  BY <1>2 DEF PipelineStep, Tick, playbackVars, watching, Leases
<1> QED
  BY <1>1, <1>2 DEF PlaybackNext

\* A licence that is not given up by the step stays as it lapsed.
LEMMA AccessMoves ==
    ASSUME PlaybackTypeOK, [PlaybackNext]_playbackVars
    PROVE  /\ now' \in {now, now + 1}
           /\ now' = now \/ UNCHANGED <<access, revoked, Leases>>
           /\ access' \subseteq Players
           /\ revoked' = [p \in Players |-> IF p \in access \ access' THEN now ELSE revoked[p]]
<1>1. revoked \in [Players -> 1..MaxClock \cup {None}] /\ access \subseteq Players
  BY DEF PlaybackTypeOK
<1>2. revoked = [p \in Players |-> revoked[p]]
  BY <1>1
<1>3. CASE \E q \in Players : PlayerNext(q)
  <2>1. PICK q \in Players : PlayerNext(q)
    BY <1>3
  <2>2. now' = now
    BY <2>1, OthersStay DEF PlayerMoves
  <2>3. CASE Revoke(q)
    <3>1. /\ access' = access \ {q} /\ access \ access' = {q}
          /\ revoked' = [revoked EXCEPT ![q] = now]
      BY <2>3 DEF Revoke
    <3> QED
      BY <1>1, <2>2, <3>1
  <2>4. CASE ~Revoke(q)
    <3>1. UNCHANGED revoked /\ access \subseteq access' /\ access' \subseteq Players
      BY <1>1, <2>1, <2>4 DEF PlayerNext, CheckAccess, VerifyToken, Ask, LoadForURL, LoadForManifest,
           Load, SignPlaybackToken, ServeMaster, ServeRung, DropRequest, Answer, Grant
    <3> QED
      BY <1>1, <1>2, <2>2, <3>1
  <2> QED
    BY <2>3, <2>4
<1>4. CASE PipelineStep \/ Tick \/ UNCHANGED playbackVars
  <2>1. UNCHANGED <<access, revoked, Leases>> /\ now' \in {now, now + 1}
    BY <1>4 DEF PipelineStep, Tick, playbackVars, watching, Leases
  <2> QED
    BY <1>1, <1>2, <2>1
<1> QED
  BY <1>3, <1>4 DEF PlaybackNext

\* A student renews the lease on its access only in time.
LEMMA AccessLeaseStep ==
    ASSUME PlaybackTypeOK, \A p \in Players : InTime(p) /\ RunsOut(p),
           [PlaybackNext]_playbackVars
    PROVE  [AccessLease!Next]_<<now, access, revoked, Leases>>
<1> USE DEF AccessLease!Next, AccessLease!License, AccessLease!Renew, AccessLease!Pass
<1>1. CASE \E p \in Players :
             /\ ServeRung(p)
             /\ Leases' = [Leases EXCEPT ![p] = now + TokenLife]
             /\ UNCHANGED <<now, video, access, revoked, offAir>>
  <2>1. PICK p \in Players :
          /\ ServeRung(p)
          /\ Leases' = [Leases EXCEPT ![p] = now + TokenLife]
          /\ UNCHANGED <<now, video, access, revoked, offAir>>
    BY <1>1
  <2>2. p \notin access => revoked[p] # None /\ now <= revoked[p] + (TokenLife + 2 * MaxServe)
    BY <2>1, Answers, Numbers DEF InTime, RunsOut
  <2> QED
    BY <2>1, <2>2
<1>2. CASE UNCHANGED Leases
  BY <1>2, AccessMoves
<1> QED
  BY <1>1, <1>2, LeasesMove

\* Whatever a student asks for, and whatever the pipeline does to the video
\* meanwhile, its segment URLs are a lease on its access.
THEOREM AccessIsLeased == PlaybackSpec => AccessLeaseSpec
<1>1. PlaybackInit => AccessLease!Init
  BY PlaybackAssumption DEF PlaybackInit, AccessLease!Init, Leases, NewPlayer, NoToken
<1>2. PlaybackInit => \A p \in Players : RunsOut(p)
  BY DEF PlaybackInit, RunsOut
<1>3. PlaybackTypeOK /\ (\A p \in Players : InTime(p)) /\ (\A p \in Players : RunsOut(p))
          /\ [PlaybackNext]_playbackVars => (\A p \in Players : RunsOut(p))'
  BY RunsOutStep
<1>4. PlaybackTypeOK /\ (\A p \in Players : InTime(p)) /\ (\A p \in Players : RunsOut(p))
          /\ [PlaybackNext]_playbackVars
          => [AccessLease!Next]_<<now, access, revoked, Leases>>
  BY AccessLeaseStep
<1> QED
  BY <1>1, <1>2, <1>3, <1>4, InTimeAlways, PTL DEF PlaybackSpec, AccessLeaseSpec, AccessLease!Spec

\* Every player renews the lease on the air only in time.
LEMMA AirLeaseStep ==
    ASSUME PlaybackTypeOK, \A p \in Players : InTime(p) /\ LeftOver(p),
           [PlaybackNext]_playbackVars
    PROVE  [AirLease!Next]_<<now, Viewers, [p \in Players |-> offAir], Leases>>
<1> USE DEF Viewers, AirLease!Next, AirLease!License, AirLease!Renew, AirLease!Pass
<1>1. CASE \E p \in Players :
             /\ ServeRung(p)
             /\ Leases' = [Leases EXCEPT ![p] = now + TokenLife]
             /\ UNCHANGED <<now, video, access, revoked, offAir>>
  <2>1. PICK p \in Players :
          /\ ServeRung(p)
          /\ Leases' = [Leases EXCEPT ![p] = now + TokenLife]
          /\ UNCHANGED <<now, video, access, revoked, offAir>>
    BY <1>1
  <2>2. video.status # "PUBLISHED" => offAir # None /\ now <= offAir + MaxServe
    BY <2>1, Answers, Numbers DEF InTime, LeftOver
  <2> QED
    BY <2>1, <2>2
<1>2. CASE UNCHANGED Leases
  <2>1. CASE PipelineStep
    <3>1. UNCHANGED now /\ offAir' = IF video.status = "PUBLISHED" /\ video'.status # "PUBLISHED"
                                     THEN now ELSE offAir
      BY <2>1 DEF PipelineStep
    <3> QED
      BY <1>2, <3>1
  <2>2. CASE Tick
    BY <1>2, <2>2 DEF Tick, vars
  <2>3. CASE (\E p \in Players : PlayerNext(p)) \/ UNCHANGED playbackVars
    <3>1. UNCHANGED <<now, video, offAir>>
      BY <2>3, OthersStay DEF PlayerMoves, playbackVars, vars
    <3> QED
      BY <1>2, <3>1
  <2> QED
    BY <2>1, <2>2, <2>3 DEF PlaybackNext
<1> QED
  BY <1>1, <1>2, LeasesMove

\* Whatever tokens are held, segment URLs are a lease of every player on the
\* video being PUBLISHED.
THEOREM AirIsLeased == PlaybackSpec => AirLeaseSpec
<1>1. PlaybackInit => AirLease!Init
  BY PlaybackAssumption
     DEF PlaybackInit, AirLease!Init, Viewers, Leases, NewPlayer, NoToken
<1>2. PlaybackInit => \A p \in Players : LeftOver(p)
  BY DEF PlaybackInit, LeftOver, NewPlayer, NoRequest
<1>3. PlaybackTypeOK /\ (\A p \in Players : InTime(p)) /\ (\A p \in Players : LeftOver(p))
          /\ [PlaybackNext]_playbackVars => (\A p \in Players : LeftOver(p))'
  BY LeftOverStep
<1>4. PlaybackTypeOK /\ (\A p \in Players : InTime(p)) /\ (\A p \in Players : LeftOver(p))
          /\ [PlaybackNext]_playbackVars
          => [AirLease!Next]_<<now, Viewers, [p \in Players |-> offAir], Leases>>
  BY AirLeaseStep
<1> QED
  BY <1>1, <1>2, <1>3, <1>4, InTimeAlways, PTL DEF PlaybackSpec, AirLeaseSpec, AirLease!Spec

===============================================================================
