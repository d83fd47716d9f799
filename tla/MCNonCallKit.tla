---------------------------- MODULE MCNonCallKit ----------------------------
EXTENDS NonCallKitCalls, TLC

Symmetry == Permutations(Calls) \cup Permutations(Contacts)

\* Bound: a behaviour with a second call is followed while the app is in the foreground.
BackgroundOfOneCall == foreground \/ \E c \in Calls : state[c] = "unborn"
=============================================================================
