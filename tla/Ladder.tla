--------------------------------- MODULE Ladder ---------------------------------
(***************************************************************************)
(* The HLS ladder of internal/video/ffmpeg.go: which rungs a source gets,  *)
(* which files ffmpeg leaves in the output directory and in which order    *)
(* the worker meets them.  A rung is its height in lines.  The number of   *)
(* segments is that of the source, and the same for each of its rungs:     *)
(* all are cut at the same keyframes.                                      *)
(***************************************************************************)
EXTENDS Integers

CONSTANT MaxSegments    \* bound on the segments of a rung

ASSUME MaxSegmentsAssumption == MaxSegments \in Nat \ {0}

\* fullLadder; its widths and bitrates only shape the picture.
Rungs == {240, 480, 720, 1080}

\* Mutation of RenditionsForSourceHeight: a source exactly as high as a rung
\* does not get it.
RenditionsBelowSourceHeight(h) ==
    {r \in Rungs : r < h} \cup (IF h <= 240 THEN {240} ELSE {})

\* The rungs that need no upscaling, and the smallest one at least.
RenditionsForSourceHeight(h) ==
    LET fitting == {r \in Rungs : r <= h}
    IN  IF fitting = {} THEN {240} ELSE fitting

\* playlist.m3u8; the other files of a rung are its segments 1, 2, ...
Playlist == 0

Files == Rungs \X (Playlist .. MaxSegments)

\* The files of the output directory, apart from master.m3u8, when each rung
\* is cut into n segments; they are also the files its playlists name.
Transcode(renditions, n) == renditions \X (Playlist .. n)

\* The directories are walked by name: 1080p, 240p, 480p, 720p.
WalkPlace == [r \in Rungs |-> IF r = 1080 THEN 0 ELSE r]

\* filepath.Walk meets f before g: playlist.m3u8, then segment000.ts and on,
\* and master.m3u8 after every directory.
WalksBefore(f, g) ==
    \/ WalkPlace[f[1]] < WalkPlace[g[1]]
    \/ f[1] = g[1] /\ f[2] < g[2]

===============================================================================
