----------------------------- MODULE JitterQueue -----------------------------
(***************************************************************************)
(* The queue between the network and the speaker of a RedPhone call        *)
(* (Signal/src/audio/incall_audio/processing/JitterQueue.m).  Packets      *)
(* carry a 16 bit sequence number that wraps around; the queue gives them  *)
(* back in the order they were sent, drops what comes late, far too early  *)
(* or twice, and finds its place anew when it has had nothing to give for  *)
(* too long.                                                               *)
(*                                                                         *)
(* The sequence numbers are those modulo 2 * HalfRange.  The priority      *)
(* queue is the set of its packets; Heap (module AudioStream) is the array *)
(* that stores them.  Telling the watchers is left out.                    *)
(***************************************************************************)
EXTENDS Integers, FiniteSets

CONSTANTS
  HalfRange,              \* 2^15: half of the numbers a uint16_t holds
  TransitiveSafetyRange,  \* TRANSITIVE_SAFETY_RANGE
  MaxQueueAhead,          \* READ_HEAD_MAX_QUEUE_AHEAD
  BadSpanThreshold,       \* READ_HEAD_BAD_SPAN_THRESHOLD
  MaxSize,                \* MAXIMUM_JITTER_QUEUE_SIZE_BEFORE_DISCARDING
  AudioData               \* what a packet carries

\* What the values 0x8000, 0x4000, 0x1000, 0x100 and 25 of the code satisfy
\* and the queue relies on.
ASSUME JitterAssumption ==
  /\ HalfRange \in Nat /\ TransitiveSafetyRange \in Nat /\ MaxQueueAhead \in Nat
  /\ BadSpanThreshold \in Nat \ {0} /\ MaxSize \in Nat \ {0}
  /\ MaxQueueAhead <= TransitiveSafetyRange
  /\ TransitiveSafetyRange + 1 < HalfRange
  /\ BadSpanThreshold < HalfRange

VARIABLES
  resultPriorityQueue,    \* the packets that wait
  idsInJitterQueue,       \* their sequence numbers
  readHeadMin,            \* the number the next packet to play should have
  readHeadSpan,           \* how many numbers the next packet may have
  largestLatestEnqueued   \* the newest number taken since the last resync

jitterVars == <<resultPriorityQueue, idsInJitterQueue, readHeadMin, readHeadSpan,
                largestLatestEnqueued>>

SequenceNumber == 0 .. 2 * HalfRange - 1
EncodedAudioPacket == [sequenceNumber : SequenceNumber, audioData : AudioData]

\* s + 1, and s + n for a small n, in a uint16_t.
Wrap(n) == IF n >= 2 * HalfRange THEN n - 2 * HalfRange ELSE n
After(s) == Wrap(s + 1)

\* Defect: numbers are compared as if they did not wrap.
PlainDifference(s1, s2) == s2 - s1

\* The way from s1 to s2, the short way round the circle.
CongruentDifference(s1, s2) ==
  LET d == s2 - s1
  IN IF d >= HalfRange THEN d - 2 * HalfRange
     ELSE IF d < -HalfRange THEN d + 2 * HalfRange
     ELSE d

\* The packets no other packet of Q comes before: where the numbers of Q are
\* comparable there is one.
Firsts(Q) ==
  {p \in Q : \A q \in Q : CongruentDifference(q.sequenceNumber, p.sequenceNumber) <= 0}

-----------------------------------------------------------------------------

JitterInit ==
  /\ resultPriorityQueue = {}
  /\ idsInJitterQueue = {}
  /\ readHeadMin = 0
  /\ readHeadSpan = BadSpanThreshold + 1
  /\ largestLatestEnqueued = 0

OutOfSync == readHeadSpan > BadSpanThreshold

Stale(s) == CongruentDifference(readHeadMin, s) < 0

TooSoon(s) == CongruentDifference(readHeadMin, s) > MaxQueueAhead

\* A queue out of sync takes any packet, forgets what it held and starts over.
ForceSync(packet) ==
  /\ OutOfSync
  /\ resultPriorityQueue' = {packet}
  /\ idsInJitterQueue' = {packet.sequenceNumber}
  /\ readHeadMin' = packet.sequenceNumber
  /\ readHeadSpan' = 1
  /\ largestLatestEnqueued' = packet.sequenceNumber

\* Defect: the number of a discarded packet stays marked as queued.
DiscardOnlyPacket(Q, ids) ==
  IF Cardinality(Q) <= MaxSize
  THEN /\ resultPriorityQueue' = Q /\ idsInJitterQueue' = ids
       /\ UNCHANGED <<readHeadMin, readHeadSpan>>
  ELSE \E discarded \in Firsts(Q) :
         /\ resultPriorityQueue' = Q \ {discarded} /\ idsInJitterQueue' = ids
         /\ \E next \in Firsts(Q \ {discarded}) : readHeadMin' = next.sequenceNumber
         /\ readHeadSpan' = 1

\* discardExcess, which ends tryEnqueue: a queue that is too long loses its
\* first packet and reads on at the next.
DiscardExcess(Q, ids) ==
  IF Cardinality(Q) <= MaxSize
  THEN /\ resultPriorityQueue' = Q
       /\ idsInJitterQueue' = ids
       /\ UNCHANGED <<readHeadMin, readHeadSpan>>
  ELSE \E discarded \in Firsts(Q) :
         /\ resultPriorityQueue' = Q \ {discarded}
         /\ idsInJitterQueue' = ids \ {discarded.sequenceNumber}
         /\ \E next \in Firsts(Q \ {discarded}) : readHeadMin' = next.sequenceNumber
         /\ readHeadSpan' = 1

NewestTaken(s) ==
  IF CongruentDifference(largestLatestEnqueued, s) > 0 THEN s ELSE largestLatestEnqueued

Fit(packet) ==
  LET s == packet.sequenceNumber
  IN /\ ~OutOfSync
     /\ ~Stale(s) /\ ~TooSoon(s) /\ s \notin idsInJitterQueue
     /\ largestLatestEnqueued' = NewestTaken(s)
     /\ DiscardExcess(resultPriorityQueue \cup {packet}, idsInJitterQueue \cup {s})

Reject(packet) ==
  LET s == packet.sequenceNumber
  IN /\ ~OutOfSync
     /\ Stale(s) \/ TooSoon(s) \/ s \in idsInJitterQueue
     /\ UNCHANGED jitterVars

TryEnqueue(packet) == ForceSync(packet) \/ Fit(packet) \/ Reject(packet)

\* tryDequeue has nothing to give while it is out of sync...
DequeueOutOfSync ==
  /\ OutOfSync
  /\ UNCHANGED jitterVars

UnderReadHead(p) ==
  LET d == CongruentDifference(readHeadMin, p.sequenceNumber)
  IN d >= 0 /\ d < readHeadSpan

\* Defect: waits for the packet under the read head for as long as it takes.
DequeueNeverCounts ==
  /\ ~OutOfSync
  /\ \A p \in Firsts(resultPriorityQueue) : ~UnderReadHead(p)
  /\ UNCHANGED jitterVars

\* ... or empty, or before the first packet's turn: then that turn comes nearer.
DequeueNothing ==
  /\ ~OutOfSync
  /\ \A p \in Firsts(resultPriorityQueue) : ~UnderReadHead(p)
  /\ readHeadSpan' = readHeadSpan + 1
  /\ UNCHANGED <<resultPriorityQueue, idsInJitterQueue, readHeadMin, largestLatestEnqueued>>

DequeuePacket(p) ==
  /\ ~OutOfSync
  /\ p \in Firsts(resultPriorityQueue) /\ UnderReadHead(p)
  /\ resultPriorityQueue' = resultPriorityQueue \ {p}
  /\ idsInJitterQueue' = idsInJitterQueue \ {p.sequenceNumber}
  /\ readHeadMin' = After(p.sequenceNumber)
  /\ readHeadSpan' = 1
  /\ UNCHANGED largestLatestEnqueued

\* currentBufferDepth: how many numbers the queue is ahead of its reader.
CurrentBufferDepth ==
  IF OutOfSync THEN 0
  ELSE CongruentDifference(Wrap(readHeadMin + readHeadSpan - 1), largestLatestEnqueued)

JitterNext ==
  \/ \E packet \in EncodedAudioPacket : TryEnqueue(packet)
  \/ DequeueOutOfSync
  \/ DequeueNothing
  \/ \E p \in resultPriorityQueue : DequeuePacket(p)

JitterSpec == JitterInit /\ [][JitterNext]_jitterVars

-----------------------------------------------------------------------------

JitterTypeOK ==
  /\ resultPriorityQueue \in SUBSET EncodedAudioPacket
  /\ idsInJitterQueue \in SUBSET SequenceNumber
  /\ readHeadMin \in SequenceNumber
  /\ readHeadSpan \in 1 .. BadSpanThreshold + 1
  /\ largestLatestEnqueued \in SequenceNumber

(***************************************************************************)
(* The numbers in the queue can be put in one order: the comparator's      *)
(* requireState (JitterQueue.m:97) never fails, whatever packets come in   *)
(* whatever order, and there is one first packet whenever there is any.    *)
(***************************************************************************)
ComparatorNeverRaises ==
  \A p, q \in resultPriorityQueue :
    LET d == CongruentDifference(p.sequenceNumber, q.sequenceNumber)
    IN -TransitiveSafetyRange <= d /\ d <= TransitiveSafetyRange

(***************************************************************************)
(* The two collections stay in step through resyncs, discards and          *)
(* dequeues: each packet's number is marked as queued, no number is queued *)
(* twice, and none that is not queued is marked (it would be refused as a  *)
(* duplicate for ever).                                                    *)
(***************************************************************************)
IdsAreThoseQueued ==
  /\ idsInJitterQueue = {p.sequenceNumber : p \in resultPriorityQueue}
  /\ \A p, q \in resultPriorityQueue : p.sequenceNumber = q.sequenceNumber => p = q

(***************************************************************************)
(* Every packet that waits may still be played: none lies behind the read  *)
(* head, where it would block the queue's head for good.                   *)
(***************************************************************************)
NothingBehindReadHead ==
  \A p \in resultPriorityQueue :
    LET d == CongruentDifference(readHeadMin, p.sequenceNumber)
    IN 0 <= d /\ d <= MaxQueueAhead

(***************************************************************************)
(* The depth the stretching of the audio is steered by is that of the      *)
(* newest packet taken: it is never less than that of a packet that waits, *)
(* and the difference never wraps.                                         *)
(***************************************************************************)
DepthIsThatOfNewest ==
  ~OutOfSync =>
    /\ CurrentBufferDepth \in -BadSpanThreshold .. MaxQueueAhead
    /\ \A p \in resultPriorityQueue :
         CongruentDifference(Wrap(readHeadMin + readHeadSpan - 1), p.sequenceNumber)
           <= CurrentBufferDepth

(***************************************************************************)
(* The queue is sound: its numbers compare, the set of numbers is that of  *)
(* its packets, all of them may still be played, and its depth is right.   *)
(***************************************************************************)
QueueIsSound ==
  JitterTypeOK /\ ComparatorNeverRaises /\ IdsAreThoseQueued /\ NothingBehindReadHead
    /\ DepthIsThatOfNewest

(***************************************************************************)
(* The read head only moves forward while the queue is in sync, so that    *)
(* nothing it has given or passed over is ever given again.                *)
(***************************************************************************)
ReadHeadMovesOn ==
  [][~OutOfSync =>
       CongruentDifference(readHeadMin, readHeadMin') \in 0 .. MaxQueueAhead + 1]_jitterVars
=============================================================================
