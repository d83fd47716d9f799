------------------------------ MODULE MCCallKit ------------------------------
EXTENDS CallKitCalls, TLC

Symmetry == Permutations(Calls)

\* Bound: a behaviour with a second call is followed while one of the two is not over,
\* the app is in the foreground, nothing is muted, no video is on, and no such action
\* is under way.
SwitchesOfOneCall ==
    \/ \E c \in Calls : state[c] = "unborn"
    \/ /\ \E c \in Calls : state[c] \notin Ended
       /\ foreground /\ ~isMuted /\ ~hasLocalVideo
       /\ \A action \in {"mute", "unmute", "hold"} :
            \A c \in Calls : <<action, c>> \notin Range(transactions)
=============================================================================
