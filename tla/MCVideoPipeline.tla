---------------------------- MODULE MCVideoPipeline ----------------------------
(* Heights, lengths, symmetry and the specification of the runs in which an     *)
(* upload is held while it is in use.                                          *)
EXTENDS VideoPipeline, TLC

CONSTANT Low    \* contents lower than the lowest rung, and longer than the others

\* The others are exactly as high as a rung.
Heights == [c \in Contents |-> IF c \in Low THEN 144 ELSE 480]

Lengths == [c \in Contents |-> IF c \in Low THEN MaxSegments ELSE 1]

\* Requests and job slots are interchangeable: sound for the safety runs.
Symmetry == Permutations(Calls) \cup Permutations(TaskIds)

\* Whether a job goes on, and whether a ladder is complete, depends on which
\* files there are, not on what they show.
Presence == <<video.status, video.rawKey, raw, {f \in Files : hls[f] # None}, master, urls,
              call, task>>

\* The behaviours in which no upload is replaced or overwritten while in use.
HeldSpec == Init /\ [][Next /\ UploadHeld]_vars

================================================================================
