-------------------------------- MODULE Playback --------------------------------
(***************************************************************************)
(* Watching the lesson's video: GetPlaybackURL and ServeManifest           *)
(* (playback.go), the token they share (token.go), the entitlement check   *)
(* in front of the first one (middleware.go), and the player, which holds  *)
(* what it was given while the pipeline goes on under it.                  *)
(*                                                                         *)
(* The reads of one request are separate steps, and time passes between    *)
(* them.  One lesson has one video, so a token is its expiry: the video it *)
(* is signed for is always the right one.                                  *)
(***************************************************************************)
EXTENDS VideoPipeline

CONSTANTS
    Players,    \* students' pages; one player has one request at a time
    TokenLife,  \* PlaybackURLExpiryMinutes: of tokens and of presigned GETs
    MaxServe,   \* how long a request may take from its first step on
    MaxClock    \* bound on the clock: guard of Tick, out of reach in the run

ASSUME PlaybackAssumption ==
    /\ None \notin Nat
    /\ TokenLife \in Nat \ {0}
    /\ MaxServe \in Nat
    /\ MaxClock \in Nat \ {0}

VARIABLES
    now,        \* the clock, in minutes
    access,     \* the students with a row in fake_entitlements
    player,     \* what each player holds
    request,    \* the request each player is waiting for
    revoked,    \* when each student last lost access, None if never
    offAir      \* when the video last stopped being PUBLISHED, None if never

watching == <<access, player, request, revoked>>
playbackVars == <<vars, now, watching, offAir>>

\* An expiry.  The clock starts at 1: NoToken is over before it starts.
NoToken == 0
Expiries == 0 .. MaxClock + TokenLife

\* The path "master.m3u8"; any other path is the playlist of a rung.
MasterPath == 0

\* url: the token of the playback URL.   rungs, token: the master playlist, and
\* the token its references carry.   rung, content, until: a child playlist,
\* the content it was made from, and the expiry of its segment URLs.
Player == [url : Expiries, rungs : SUBSET Rungs, token : Expiries,
           rung : Rungs \cup {MasterPath}, content : Contents \cup {None},
           until : Expiries]

NewPlayer == [url |-> NoToken, rungs |-> {}, token |-> NoToken,
              rung |-> MasterPath, content |-> None, until |-> NoToken]

Request == [pc : {"idle", "granted", "signing", "verified", "playable"},
            path : Rungs \cup {MasterPath}, token : Expiries, began : 0..MaxClock]

NoRequest == [pc |-> "idle", path |-> MasterPath, token |-> NoToken, began |-> 0]

PlaybackInit ==
    /\ Init
    /\ now = 1
    /\ access = Players
    /\ player = [p \in Players |-> NewPlayer]
    /\ request = [p \in Players |-> NoRequest]
    /\ revoked = [p \in Players |-> None]
    /\ offAir = None

-------------------------------------------------------------------------------
(* The requests of a player.  A refusal ends the request: DropRequest.         *)

Ask(p, pc, path, token) ==
    /\ request[p] = NoRequest
    /\ request' = [request EXCEPT ![p] =
                      [pc |-> pc, path |-> path, token |-> token, began |-> now]]
    /\ UNCHANGED <<vars, now, access, player, revoked, offAir>>

Answer(p, pc, held) ==
    /\ request[p].pc = pc
    /\ request' = [request EXCEPT ![p] = NoRequest]
    /\ player' = [player EXCEPT ![p] = held]
    /\ UNCHANGED <<vars, now, access, revoked, offAir>>

\* The EXISTS over fake_entitlements.
HasAccess(p) == p \in access

\* requireAuth and requireStudentAccess.
CheckAccess(p) ==
    /\ HasAccess(p)
    /\ Ask(p, "granted", MasterPath, NoToken)

OnAir == video.status = "PUBLISHED" /\ video.hls

Load(p, from, to) ==
    /\ request[p].pc = from
    /\ request' = [request EXCEPT ![p].pc = to]
    /\ UNCHANGED <<vars, now, access, player, revoked, offAir>>

\* GetPlaybackURL loads the video ...
LoadForURL(p) == OnAir /\ Load(p, "granted", "signing")

\* ... and signs a token for it.
SignPlaybackToken(p) ==
    Answer(p, "signing", [player[p] EXCEPT !.url = now + TokenLife])

\* The paths a request may name: any under the prefix that is in storage, as is
\* every rung a master playlist ever listed.
Paths == {MasterPath} \cup {r \in Rungs : hls[<<r, Playlist>>] # None}

\* The tokens a player holds: of the playback URL, and of its master playlist.
Tokens(p) == {player[p].url, player[p].token} \ {NoToken}

\* Mutation of VerifyToken: the expiry is not looked at.
VerifySignature(p) ==
    \E path \in Paths, token \in Tokens(p) : Ask(p, "verified", path, token)

\* ServeManifest verifies the token.  It is not tied to a path: a token the
\* player was given with one playlist, or a fresh one, opens any other.
VerifyToken(p) ==
    \E path \in Paths, token \in Tokens(p) :
        /\ now <= token
        /\ Ask(p, "verified", path, token)

\* Mutation of LoadForManifest: a ladder is enough.
LoadLadder(p) == master # {} /\ Load(p, "verified", "playable")

\* ... loads the video ...
LoadForManifest(p) == OnAir /\ Load(p, "verified", "playable")

\* Mutation of ServeMaster: the references get a token of their own.
ServeMasterRenewed(p) ==
    /\ request[p].path = MasterPath
    /\ master # {}
    /\ Answer(p, "playable",
              [player[p] EXCEPT !.rungs = master, !.token = now + TokenLife])

\* ... downloads master.m3u8 and appends the token to its references, ...
ServeMaster(p) ==
    /\ request[p].path = MasterPath
    /\ master # {}
    /\ Answer(p, "playable",
              [player[p] EXCEPT !.rungs = master, !.token = request[p].token])

\* Mutation of ServeRung: the URLs outlive the token by its life.
ServeRungLonger(p) ==
    LET path == request[p].path
        content == IF path = MasterPath THEN None ELSE hls[<<path, Playlist>>]
    IN /\ content # None
       /\ Answer(p, "playable",
                 [player[p] EXCEPT !.rung = path, !.content = content,
                                   !.until = request[p].token + TokenLife])

\* ... or downloads a rung's playlist and presigns every segment of it.
ServeRung(p) ==
    LET path == request[p].path
        content == IF path = MasterPath THEN None ELSE hls[<<path, Playlist>>]
    IN /\ content # None
       /\ Answer(p, "playable",
                 [player[p] EXCEPT !.rung = path, !.content = content,
                                   !.until = now + TokenLife])

\* It is refused or fails, or the player does not wait for it.
DropRequest(p) ==
    /\ request[p] # NoRequest
    /\ Answer(p, request[p].pc, player[p])

-------------------------------------------------------------------------------
(* The world around the player *)

\* A row of fake_entitlements comes and goes: no code of the program does it.
Grant(p) ==
    /\ p \notin access
    /\ access' = access \cup {p}
    /\ UNCHANGED <<vars, now, player, request, revoked, offAir>>

Revoke(p) ==
    /\ p \in access
    /\ access' = access \ {p}
    /\ revoked' = [revoked EXCEPT ![p] = now]
    /\ UNCHANGED <<vars, now, player, request, offAir>>

Tick ==
    /\ now < MaxClock
    /\ \A p \in Players : request[p] # NoRequest => now < request[p].began + MaxServe
    /\ now' = now + 1
    /\ UNCHANGED <<vars, watching, offAir>>

\* Any step of the pipeline, which knows nothing of the players.
PipelineStep ==
    /\ Next
    /\ offAir' = IF video.status = "PUBLISHED" /\ video'.status # "PUBLISHED"
                 THEN now ELSE offAir
    /\ UNCHANGED <<now, watching>>

PlayerNext(p) ==
    \/ CheckAccess(p)
    \/ LoadForURL(p)
    \/ SignPlaybackToken(p)
    \/ VerifyToken(p)
    \/ LoadForManifest(p)
    \/ ServeMaster(p)
    \/ ServeRung(p)
    \/ DropRequest(p)
    \/ Grant(p)
    \/ Revoke(p)

PlaybackNext ==
    \/ PipelineStep
    \/ \E p \in Players : PlayerNext(p)
    \/ Tick

PlaybackSpec == PlaybackInit /\ [][PlaybackNext]_playbackVars

-------------------------------------------------------------------------------
(* Properties *)

\* The player can fetch segments: the URLs it holds have not expired.
Watching(p) == player[p].rung # MasterPath /\ now <= player[p].until

\* Every variable keeps its type; nothing expires later than one life from
\* now.
PlaybackTypeOK ==
    /\ now \in 1..MaxClock
    /\ access \subseteq Players
    /\ player \in [Players -> Player]
    /\ \A p \in Players : player[p].url <= now + TokenLife
                       /\ player[p].token <= now + TokenLife
                       /\ player[p].until <= now + TokenLife
                       /\ request[p].token <= now + TokenLife
    /\ request \in [Players -> Request]
    /\ revoked \in [Players -> 1..MaxClock \cup {None}]
    /\ offAir \in 1..MaxClock \cup {None}

\* worker.go puts master.m3u8 last and nothing deletes an HLS file: whatever
\* happened since a player got its master playlist, every rung that it lists has
\* its playlist, and the segments of some upload, in storage.
NoBrokenLinks ==
    \A p \in Players :
        player[p].rungs # {} => \E content \in Contents : Backed(player[p].rungs, content)

\* token.go, "short-lived": entitlement is checked for the playback URL only.
\* A student who lost access can watch for two lives, that of a token and that
\* of the segment URLs it bought, and the two requests in between.
AccessExpires ==
    \A p \in Players : p \notin access /\ Watching(p) =>
        /\ revoked[p] # None
        /\ now <= revoked[p] + 2 * (TokenLife + MaxServe)

\* playback.go serves PUBLISHED videos only: a replacement takes the video off
\* the air, after one more request and the life of its URLs, whatever tokens
\* are held.
OffAirStops ==
    \A p \in Players : Watching(p) /\ video.status # "PUBLISHED" =>
        /\ offAir # None
        /\ now <= offAir + MaxServe + TokenLife

\* What each player was given segment URLs until.
Leases == [p \in Players |-> player[p].until]

\* token.go and middleware.go, seen from the student: the segment URLs are a
\* lease on the row of fake_entitlements.  However tokens of several ages, old
\* playlists and slow requests are combined, none is obtained later than a token
\* life and two requests after the row was gone.
AccessLease == INSTANCE Lease WITH
                   Holders <- Players, Life <- TokenLife, Never <- None,
                   Grace <- TokenLife + 2 * MaxServe,
                   licensed <- access, lapsed <- revoked, until <- Leases

AccessLeaseSpec == AccessLease!Spec

Viewers == IF video.status = "PUBLISHED" THEN Players ELSE {}

\* playback.go, seen from the video: they are also a lease of every player on
\* its being PUBLISHED, which a replacement ends for all of them at once, and
\* which the request being served is the last to renew.
AirLease == INSTANCE Lease WITH
                Holders <- Players, Life <- TokenLife, Never <- None, Grace <- MaxServe,
                licensed <- Viewers, lapsed <- [p \in Players |-> offAir], until <- Leases

AirLeaseSpec == AirLease!Spec

\* The files of a rung are all of this content.
RungIsOf(rung, content) ==
    \A f \in Transcode({rung}, Segments[content]) : hls[f] = content

\* The playlist, and the segments its URLs lead to, are of the current upload.
StreamIsCurrent(p) ==
    /\ player[p].content = raw[video.rawKey]
    /\ RungIsOf(player[p].rung, raw[video.rawKey])

\* playback.go has no version of the ladder to check: what keeps a player off the
\* stream that was replaced is only that its rung is overwritten before the video
\* is published again.  With whatever old playlists and fresh tokens, a rung of
\* the published ladder is watched in its old form no longer than the request
\* and the URLs that straddled the replacement live.
OldStreamExpires ==
    \A p \in Players :
        Watching(p) /\ video.status = "PUBLISHED" /\ player[p].rung \in master =>
            \/ StreamIsCurrent(p)
            \/ offAir # None /\ now <= offAir + MaxServe + TokenLife

\* Design §4, replace behaviour: no "broken player mid-replace".  The segments a
\* playlist leads to are those it was written for.
StreamIsOfOneUpload ==
    \A p \in Players : Watching(p) =>
        \A f \in Transcode({player[p].rung}, Segments[player[p].content]) :
            f[2] # Playlist => hls[f] = player[p].content

===============================================================================
