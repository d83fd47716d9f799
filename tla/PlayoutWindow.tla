---------------------------- MODULE PlayoutWindow ----------------------------
(***************************************************************************)
(* What the jitter queue promises, with packets numbered 0, 1, 2, ... as   *)
(* they were recorded and no number that wraps: it plays what waits in     *)
(* that order, never looks back, holds no more than MaxSize packets, and   *)
(* goes to another place of the stream only after it has been silent for   *)
(* Patience turns.                                                         *)
(***************************************************************************)
EXTENDS Integers, FiniteSets

CONSTANTS
  Packet,    \* a set of integers
  MaxSize, Patience

VARIABLES
  waiting,   \* the packets that may be played
  head,      \* the packet whose turn it is
  silence    \* the turns since something was played or thrown away

windowVars == <<waiting, head, silence>>

First(S) == CHOOSE i \in S : \A j \in S : i <= j

Init == waiting = {} /\ silence = Patience /\ head = 0

Resync(i) ==
  /\ silence >= Patience
  /\ waiting' = {i} /\ head' = i /\ silence' = 0

Accept(i) ==
  /\ silence < Patience
  /\ i >= head /\ i \notin waiting
  /\ LET all == waiting \cup {i}
         rest == all \ {First(all)}
     IN IF Cardinality(all) <= MaxSize
        THEN waiting' = all /\ UNCHANGED <<head, silence>>
        ELSE waiting' = rest /\ head' = First(rest) /\ silence' = 0

Play ==
  /\ silence < Patience
  /\ waiting # {}
  /\ First(waiting) <= head + silence
  /\ waiting' = waiting \ {First(waiting)}
  /\ head' = First(waiting) + 1
  /\ silence' = 0

BeSilent ==
  /\ silence < Patience
  /\ waiting # {} => First(waiting) > head + silence
  /\ silence' = silence + 1
  /\ UNCHANGED <<waiting, head>>

Next == (\E i \in Packet : Resync(i) \/ Accept(i)) \/ Play \/ BeSilent

Spec == Init /\ [][Next]_windowVars
=============================================================================
