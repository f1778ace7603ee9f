---------------------------------- MODULE Lease ----------------------------------
(* What short-lived playback promises, with no tokens, playlists, requests or      *)
(* pipeline in it.  A holder watches on a lease of a fixed life.  It is renewed    *)
(* while the holder is licensed, or within a grace after the licence lapsed, and   *)
(* so runs out one life after that at the latest.                                  *)
EXTENDS Naturals

CONSTANTS
    Holders,
    Life,       \* how long a lease lives
    Grace,      \* how long after its licence lapsed a holder may still renew
    Never       \* the time of what has not happened

VARIABLES
    now,
    licensed,   \* the holders with a licence
    lapsed,     \* when each holder last lost its licence
    until       \* when the lease of each holder runs out

Init ==
    /\ until \in [Holders -> Nat]
    /\ \A h \in Holders : until[h] < now
    /\ licensed \subseteq Holders
    /\ lapsed = [h \in Holders |-> Never]

\* Licences are granted and taken away, of one holder or of all of them.
License ==
    /\ licensed' \subseteq Holders
    /\ lapsed' = [h \in Holders |-> IF h \in licensed \ licensed' THEN now ELSE lapsed[h]]
    /\ UNCHANGED <<now, until>>

Renew(h) ==
    /\ h \in licensed \/ (lapsed[h] # Never /\ now <= lapsed[h] + Grace)
    /\ until' = [until EXCEPT ![h] = now + Life]
    /\ UNCHANGED <<now, licensed, lapsed>>

Pass ==
    /\ now' = now + 1
    /\ UNCHANGED <<licensed, lapsed, until>>

Next ==
    \/ License
    \/ \E h \in Holders : Renew(h)
    \/ Pass

Spec == Init /\ [][Next]_<<now, licensed, lapsed, until>>

================================================================================
