---------------------------- MODULE VideoLifecycle ----------------------------
(***************************************************************************)
(* What the video pipeline promises its readers: the one status a lesson   *)
(* shows (types.go, design §4) and the moves it may make.  The detailed    *)
(* specification VideoPipeline implements this one, with the status of the *)
(* lessons row as the status.                                              *)
(*                                                                         *)
(* ReuploadFrom is the set of statuses a new upload may replace.  The      *)
(* comments of the code promise that no in-flight video is replaced.       *)
(***************************************************************************)

CONSTANT ReuploadFrom

VARIABLE status

Move(from, to) ==
    /\ status \in from
    /\ status' = to

Init == status = "DRAFT"

Upload   == Move(ReuploadFrom, "UPLOADING")
Complete == Move({"UPLOADING"}, "QUEUED")
Claim    == Move({"QUEUED"}, "PROCESSING")
Finish   == Move({"PROCESSING"}, "READY")
Fail     == Move({"QUEUED", "PROCESSING"}, "FAILED")
Retry    == Move({"FAILED"}, "QUEUED")
Publish  == Move({"READY"}, "PUBLISHED")
Reset    == Move({"UPLOADING"}, "DRAFT")

Next ==
    \/ Upload
    \/ Complete
    \/ Claim
    \/ Finish
    \/ Fail
    \/ Retry
    \/ Publish
    \/ Reset

Spec == Init /\ [][Next]_status

===============================================================================
