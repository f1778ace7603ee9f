------------------------------- MODULE MCPlayback -------------------------------
(* The initial state for checking Playback, and the data of MCVideoPipeline. *)
EXTENDS Playback, TLC

CONSTANT Low    \* contents lower than the lowest rung, and longer than the others

Heights == [c \in Contents |-> IF c \in Low THEN 144 ELSE 480]

Lengths == [c \in Contents |-> IF c \in Low THEN MaxSegments ELSE 1]

\* The first video is published and nobody has opened it: upload, completion,
\* the two jobs and Publish lead here from Init, within the 15 minutes of the URL.
PublishedInit ==
    \E key \in RawKeys, content \in Contents \ (TooLarge \cup NoVideo) :
        /\ video = [status |-> "PUBLISHED", rawKey |-> key, hls |-> TRUE, meta |-> content]
        /\ lesson = [status |-> "PUBLISHED",
                     duration |-> IF content \in Untimed THEN None ELSE content]
        /\ raw = [k \in RawKeys |-> IF k = key THEN content ELSE None]
        /\ master = RenditionsForSourceHeight(Height[content])
        /\ hls = [f \in Files |-> IF f \in Transcode(master, Segments[content]) THEN content ELSE None]
        /\ urls = {key}
        /\ call = [c \in Calls |-> IdleCall]
        /\ task = [t \in TaskIds |-> FreeTask]
        /\ now = 1
        /\ access = Players
        /\ player = [p \in Players |-> NewPlayer]
        /\ request = [p \in Players |-> NoRequest]
        /\ revoked = [p \in Players |-> None]
        /\ offAir = None

PublishedSpec == PublishedInit /\ [][PlaybackNext]_playbackVars

\* TLC identifies states that differ by a shift of the clock.  Guards, updates
\* and properties look at differences of times only; expired tokens are alike,
\* and so are moments further back than any property looks, what a player once
\* watched through URLs that have expired, and the token of a request for a rung
\* once it has been verified.  With one key urls is left out too: nothing is
\* possible without a URL that is not with it, and it is there from the start.
TimeLeft(expiry) ==
    CASE expiry = NoToken -> -2
      [] expiry # NoToken /\ expiry < now -> -1
      [] OTHER -> expiry - now

Age(time, horizon) ==
    IF time = None THEN None ELSE IF now - time > horizon THEN horizon + 1 ELSE now - time

PlayerView(p) ==
    LET held == player[p] asked == request[p] IN
    <<TimeLeft(held.url), held.rungs, TimeLeft(held.token),
      IF Watching(p) THEN <<held.rung, held.content, held.until - now>> ELSE <<>>,
      asked.pc, asked.path, IF asked.path = MasterPath THEN TimeLeft(asked.token) ELSE None,
      IF asked = NoRequest THEN None ELSE Age(asked.began, MaxServe),
      p \in access, IF p \in access THEN None ELSE Age(revoked[p], 2 * (TokenLife + MaxServe))>>

ClockShift == <<rows, raw, hls, master, call, task, [p \in Players |-> PlayerView(p)],
                Age(offAir, MaxServe + TokenLife)>>

================================================================================
