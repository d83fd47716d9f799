---------------------------- MODULE PlayoutProofs ----------------------------
(***************************************************************************)
(* Proofs about the two ends of the playout.                               *)
(*                                                                         *)
(* The jitter queue, for every range of sequence numbers and every limit   *)
(* that satisfies JitterAssumption, whatever packets arrive and however    *)
(* often a packet is asked for.                                            *)
(*                                                                         *)
(* The stream of packets between the two ends, which number them alike:    *)
(* its queue implements a window on numbers that do not wrap, and the heap *)
(* that stores the queue holds what the queue holds.                       *)
(*                                                                         *)
(* The ring of bytes of CyclicalBuffer.m, which implements a queue of      *)
(* bytes for every capacity and every length of what is written, and the   *)
(* playback queue and the pool between the audio unit's and the low        *)
(* latency thread, with what that thread believes to be in the queue.      *)
(***************************************************************************)
EXTENDS AudioStream, RemoteIOAudio, Induction, FiniteSetTheorems, SequenceTheorems

-----------------------------------------------------------------------------
(* Sequence numbers on their circle *)

LEMMA DifferenceRange ==
  ASSUME NEW s \in SequenceNumber, NEW x \in SequenceNumber
  PROVE  CongruentDifference(s, x) \in -HalfRange .. HalfRange - 1
BY JitterAssumption DEF SequenceNumber, CongruentDifference

\* Ways that are short enough add up.
LEMMA DifferencesAdd ==
  ASSUME NEW s \in SequenceNumber, NEW x \in SequenceNumber, NEW y \in SequenceNumber,
         CongruentDifference(s, y) - CongruentDifference(s, x) \in -HalfRange .. HalfRange - 1
  PROVE  CongruentDifference(x, y) = CongruentDifference(s, y) - CongruentDifference(s, x)
BY JitterAssumption DEF SequenceNumber, CongruentDifference

LEMMA DifferenceFromWrapped ==
  ASSUME NEW s \in SequenceNumber, NEW x \in SequenceNumber, NEW n \in 0 .. HalfRange,
         CongruentDifference(s, x) - n \in -HalfRange .. HalfRange - 1
  PROVE  /\ Wrap(s + n) \in SequenceNumber
         /\ CongruentDifference(Wrap(s + n), x) = CongruentDifference(s, x) - n
BY JitterAssumption DEF SequenceNumber, CongruentDifference, Wrap

LEMMA DifferenceToSelf ==
  ASSUME NEW s \in SequenceNumber, NEW x \in SequenceNumber
  PROVE  /\ CongruentDifference(s, s) = 0
         /\ CongruentDifference(s, x) = 0 => s = x
         /\ After(s) \in SequenceNumber
         /\ CongruentDifference(s, After(s)) = 1
         /\ CongruentDifference(After(s), s) = -1
BY JitterAssumption DEF SequenceNumber, CongruentDifference, After, Wrap

-----------------------------------------------------------------------------
(* The inductive invariant *)

\* The newest number taken is at or ahead of every packet that waits, and at
\* most one behind the read head.
NewestAhead ==
  /\ CongruentDifference(readHeadMin, largestLatestEnqueued) \in -1 .. MaxQueueAhead
  /\ \A p \in resultPriorityQueue :
       CongruentDifference(readHeadMin, p.sequenceNumber)
         <= CongruentDifference(readHeadMin, largestLatestEnqueued)

JitterInv ==
  /\ JitterTypeOK
  /\ IdsAreThoseQueued
  /\ NothingBehindReadHead
  /\ ~OutOfSync => NewestAhead

LEMMA InitInv == JitterInit => JitterInv
BY JitterAssumption
DEF JitterInit, JitterInv, JitterTypeOK, IdsAreThoseQueued, NothingBehindReadHead, OutOfSync,
    SequenceNumber

\* In a window of the queue the first packet is behind none.
LEMMA FirstIsBehindNone ==
  ASSUME NEW s \in SequenceNumber, NEW Q \in SUBSET EncodedAudioPacket,
         \A p \in Q : CongruentDifference(s, p.sequenceNumber) \in 0 .. MaxQueueAhead,
         NEW first \in Firsts(Q), NEW p \in Q
  PROVE  CongruentDifference(first.sequenceNumber, p.sequenceNumber)
           = CongruentDifference(s, p.sequenceNumber)
               - CongruentDifference(s, first.sequenceNumber)
         /\ CongruentDifference(first.sequenceNumber, p.sequenceNumber) \in 0 .. MaxQueueAhead
<1>1. first \in Q /\ CongruentDifference(p.sequenceNumber, first.sequenceNumber) <= 0
  BY DEF Firsts
<1>2. p.sequenceNumber \in SequenceNumber /\ first.sequenceNumber \in SequenceNumber
  BY <1>1 DEF EncodedAudioPacket
<1> DEFINE a == CongruentDifference(s, first.sequenceNumber)
           b == CongruentDifference(s, p.sequenceNumber)
<1>3. a \in 0 .. MaxQueueAhead /\ b \in 0 .. MaxQueueAhead
  BY <1>1
<1>4. b - a \in -HalfRange .. HalfRange - 1 /\ a - b \in -HalfRange .. HalfRange - 1
  <2> HIDE DEF a, b
  <2> QED BY <1>3, JitterAssumption
<1>5. CongruentDifference(first.sequenceNumber, p.sequenceNumber) = b - a
  BY <1>2, <1>4, DifferencesAdd
<1>6. CongruentDifference(p.sequenceNumber, first.sequenceNumber) = a - b
  BY <1>2, <1>4, DifferencesAdd
<1>7. b - a \in 0 .. MaxQueueAhead
  <2> HIDE DEF a, b
  <2> QED BY <1>1, <1>3, <1>6, JitterAssumption
<1> QED BY <1>5, <1>7

-----------------------------------------------------------------------------
(* The steps *)

LEMMA ForceSyncInv ==
  ASSUME JitterInv, NEW packet \in EncodedAudioPacket, ForceSync(packet)
  PROVE  JitterInv'
<1>1. packet.sequenceNumber \in SequenceNumber
  BY DEF EncodedAudioPacket
<1>2. CongruentDifference(packet.sequenceNumber, packet.sequenceNumber) = 0
  BY <1>1, DifferenceToSelf
<1>3. JitterTypeOK'
  BY <1>1, JitterAssumption DEF ForceSync, JitterTypeOK
<1>4. IdsAreThoseQueued'
  BY DEF ForceSync, IdsAreThoseQueued
<1>5. NothingBehindReadHead' /\ NewestAhead'
  BY <1>2, JitterAssumption DEF ForceSync, NothingBehindReadHead, NewestAhead
<1> QED BY <1>3, <1>4, <1>5 DEF JitterInv

\* What Fit and the discarding that ends it leave.
LEMMA FitInv ==
  ASSUME JitterInv, NEW packet \in EncodedAudioPacket, Fit(packet)
  PROVE  /\ JitterInv'
         /\ CongruentDifference(readHeadMin, readHeadMin') \in 0 .. MaxQueueAhead
<1> DEFINE s == packet.sequenceNumber
           Q == resultPriorityQueue \cup {packet}
           ids == idsInJitterQueue \cup {s}
           D(x) == CongruentDifference(readHeadMin, x)
<1>1. /\ s \in SequenceNumber /\ readHeadMin \in SequenceNumber
      /\ largestLatestEnqueued \in SequenceNumber
      /\ Q \in SUBSET EncodedAudioPacket /\ ids \in SUBSET SequenceNumber
      /\ \A p \in Q : p.sequenceNumber \in SequenceNumber
  BY DEF JitterInv, JitterTypeOK, EncodedAudioPacket
<1>2. D(s) \in 0 .. MaxQueueAhead
  BY <1>1, DifferenceRange, JitterAssumption DEF Fit, Stale, TooSoon
<1>3. \A p \in Q : D(p.sequenceNumber) \in 0 .. MaxQueueAhead
  <2>1. \A p \in resultPriorityQueue : D(p.sequenceNumber) \in Int
    BY <1>1, DifferenceRange, JitterAssumption
  <2> QED BY <1>2, <2>1, JitterAssumption DEF JitterInv, NothingBehindReadHead
<1>4. /\ ids = {p.sequenceNumber : p \in Q}
      /\ \A p, q \in Q : p.sequenceNumber = q.sequenceNumber => p = q
  BY DEF Fit, JitterInv, IdsAreThoseQueued
<1>5. /\ largestLatestEnqueued' \in SequenceNumber
      /\ D(largestLatestEnqueued') \in 0 .. MaxQueueAhead
      /\ \A p \in Q : D(p.sequenceNumber) <= D(largestLatestEnqueued')
  <2> DEFINE l == D(largestLatestEnqueued)
  <2>1. l \in -1 .. MaxQueueAhead /\ \A p \in resultPriorityQueue : D(p.sequenceNumber) <= l
    BY DEF Fit, JitterInv, NewestAhead
  <2>2. CongruentDifference(largestLatestEnqueued, s) = D(s) - l
    <3>1. D(s) - l \in -HalfRange .. HalfRange - 1
      <4> DEFINE d == D(s)
      <4> HIDE DEF l, d
      <4> QED BY <1>2, <2>1, JitterAssumption DEF d
    <3> QED BY <1>1, <3>1, DifferencesAdd
  <2>3. largestLatestEnqueued' = IF D(s) - l > 0 THEN s ELSE largestLatestEnqueued
    BY <2>2 DEF Fit, NewestTaken
  <2>4. CASE D(s) - l > 0
    <3>1. largestLatestEnqueued' = s
      BY <2>3, <2>4
    <3>2. \A p \in resultPriorityQueue : D(p.sequenceNumber) <= D(s)
      <4> SUFFICES ASSUME NEW p \in resultPriorityQueue PROVE D(p.sequenceNumber) <= D(s)
        OBVIOUS
      <4> DEFINE d == D(s) e == D(p.sequenceNumber)
      <4>1. d \in Int /\ e \in Int /\ l \in Int /\ e <= l /\ d - l > 0
        BY <1>2, <1>3, <2>1, <2>4
      <4> HIDE DEF d, e, l
      <4>2. e <= d
        BY <4>1
      <4> QED BY <4>2 DEF d, e
    <3> QED BY <1>1, <1>2, <3>1, <3>2
  <2>5. CASE ~(D(s) - l > 0)
    <3>1. largestLatestEnqueued' = largestLatestEnqueued
      BY <2>3, <2>5
    <3>2. l \in 0 .. MaxQueueAhead /\ D(s) <= l
      <4> DEFINE d == D(s)
      <4>1. d \in 0 .. MaxQueueAhead /\ l \in -1 .. MaxQueueAhead /\ ~(d - l > 0)
        BY <1>2, <2>1, <2>5
      <4> HIDE DEF d, l
      <4>2. l \in 0 .. MaxQueueAhead /\ d <= l
        BY <4>1, JitterAssumption
      <4> QED BY <4>2 DEF d
    <3> QED BY <1>1, <2>1, <3>1, <3>2
  <2> QED BY <2>4, <2>5
<1>6. CASE Cardinality(Q) <= MaxSize
  <2>1. /\ resultPriorityQueue' = Q /\ idsInJitterQueue' = ids
        /\ readHeadMin' = readHeadMin /\ readHeadSpan' = readHeadSpan
    BY <1>6 DEF Fit, DiscardExcess
  <2>2. JitterTypeOK'
    BY <1>1, <1>5, <2>1 DEF JitterInv, JitterTypeOK
  <2>3. IdsAreThoseQueued'
    BY <1>4, <2>1 DEF IdsAreThoseQueued
  <2>4. NothingBehindReadHead'
    BY <1>3, <2>1 DEF NothingBehindReadHead
  <2>5. NewestAhead'
    BY <1>5, <2>1, JitterAssumption DEF NewestAhead
  <2>6. CongruentDifference(readHeadMin, readHeadMin') = 0
    BY <1>1, <2>1, DifferenceToSelf
  <2> QED BY <2>2, <2>3, <2>4, <2>5, <2>6, JitterAssumption DEF JitterInv
<1>7. CASE ~(Cardinality(Q) <= MaxSize)
  <2>1. PICK discarded \in Firsts(Q) :
          /\ resultPriorityQueue' = Q \ {discarded}
          /\ idsInJitterQueue' = ids \ {discarded.sequenceNumber}
          /\ \E next \in Firsts(Q \ {discarded}) : readHeadMin' = next.sequenceNumber
          /\ readHeadSpan' = 1
    BY <1>7 DEF Fit, DiscardExcess
  <2>2. PICK next \in Firsts(Q \ {discarded}) : readHeadMin' = next.sequenceNumber
    BY <2>1
  <2>3. discarded \in Q /\ next \in Q
    BY <2>1, <2>2 DEF Firsts
  <2>4. JitterTypeOK'
    BY <1>1, <1>5, <2>1, <2>2, <2>3, JitterAssumption DEF JitterTypeOK
  <2>5. IdsAreThoseQueued'
    BY <1>4, <2>1, <2>3 DEF IdsAreThoseQueued
  <2>6. \A p \in Q \ {discarded} :
          /\ CongruentDifference(readHeadMin', p.sequenceNumber)
               = D(p.sequenceNumber) - D(next.sequenceNumber)
          /\ CongruentDifference(readHeadMin', p.sequenceNumber) \in 0 .. MaxQueueAhead
    BY <1>1, <1>3, <2>2, FirstIsBehindNone
  <2>7. NothingBehindReadHead'
    BY <2>1, <2>6 DEF NothingBehindReadHead
  <2>8. NewestAhead'
    <3> DEFINE l == D(largestLatestEnqueued') n == D(next.sequenceNumber)
    <3>1. l \in 0 .. MaxQueueAhead /\ n \in 0 .. MaxQueueAhead /\ n <= l
      BY <1>3, <1>5, <2>3
    <3>2. l - n \in 0 .. MaxQueueAhead /\ l - n \in -HalfRange .. HalfRange - 1
      <4> HIDE DEF l, n
      <4> QED BY <3>1, JitterAssumption
    <3>3. CongruentDifference(readHeadMin', largestLatestEnqueued') = l - n
      BY <1>1, <1>5, <2>2, <2>3, <3>2, DifferencesAdd
    <3>4. \A p \in Q \ {discarded} : CongruentDifference(readHeadMin', p.sequenceNumber) <= l - n
      <4> SUFFICES ASSUME NEW p \in Q \ {discarded}
                   PROVE  CongruentDifference(readHeadMin', p.sequenceNumber) <= l - n
        OBVIOUS
      <4> DEFINE e == D(p.sequenceNumber)
      <4>1. /\ CongruentDifference(readHeadMin', p.sequenceNumber) = e - n
            /\ e \in 0 .. MaxQueueAhead /\ e <= l
        BY <1>3, <1>5, <2>6
      <4> HIDE DEF e, l, n
      <4> QED BY <3>1, <4>1
    <3>5. l - n \in -1 .. MaxQueueAhead
      <4> HIDE DEF l, n
      <4> QED BY <3>1, <3>2, JitterAssumption
    <3> HIDE DEF l, n
    <3> QED BY <2>1, <3>3, <3>4, <3>5 DEF NewestAhead
  <2>9. CongruentDifference(readHeadMin, readHeadMin') \in 0 .. MaxQueueAhead
    BY <1>3, <2>2, <2>3
  <2> QED BY <2>4, <2>5, <2>7, <2>8, <2>9 DEF JitterInv
<1> QED BY <1>6, <1>7

LEMMA DequeueNothingInv ==
  ASSUME JitterInv, DequeueNothing
  PROVE  JitterInv'
<1>1. JitterTypeOK'
  BY JitterAssumption DEF JitterInv, JitterTypeOK, DequeueNothing, OutOfSync
<1>2. IdsAreThoseQueued' /\ NothingBehindReadHead'
  BY DEF JitterInv, IdsAreThoseQueued, NothingBehindReadHead, DequeueNothing
<1>3. NewestAhead'
  BY DEF JitterInv, NewestAhead, DequeueNothing
<1> QED BY <1>1, <1>2, <1>3 DEF JitterInv

LEMMA DequeuePacketInv ==
  ASSUME JitterInv, NEW p \in resultPriorityQueue, DequeuePacket(p)
  PROVE  /\ JitterInv'
         /\ CongruentDifference(readHeadMin, readHeadMin') \in 0 .. MaxQueueAhead + 1
<1> DEFINE s == p.sequenceNumber
           D(x) == CongruentDifference(readHeadMin, x)
<1>1. /\ s \in SequenceNumber /\ readHeadMin \in SequenceNumber
      /\ largestLatestEnqueued \in SequenceNumber
      /\ resultPriorityQueue \in SUBSET EncodedAudioPacket
      /\ \A q \in resultPriorityQueue : q.sequenceNumber \in SequenceNumber
  BY DEF JitterInv, JitterTypeOK, EncodedAudioPacket
<1>2. \A q \in resultPriorityQueue : D(q.sequenceNumber) \in 0 .. MaxQueueAhead
  <2>1. \A q \in resultPriorityQueue : D(q.sequenceNumber) \in Int
    BY <1>1, DifferenceRange, JitterAssumption
  <2> QED BY <2>1, JitterAssumption DEF JitterInv, NothingBehindReadHead
<1>3. \A q \in resultPriorityQueue :
        /\ CongruentDifference(s, q.sequenceNumber) = D(q.sequenceNumber) - D(s)
        /\ CongruentDifference(s, q.sequenceNumber) \in 0 .. MaxQueueAhead
  BY <1>1, <1>2, FirstIsBehindNone DEF DequeuePacket
<1>4. readHeadMin' = Wrap(s + 1) /\ readHeadMin' \in SequenceNumber
  BY <1>1, DifferenceToSelf DEF DequeuePacket, After
<1>5. \A x \in SequenceNumber :
        CongruentDifference(s, x) \in 0 .. MaxQueueAhead
          => CongruentDifference(readHeadMin', x) = CongruentDifference(s, x) - 1
  <2> SUFFICES ASSUME NEW x \in SequenceNumber, CongruentDifference(s, x) \in 0 .. MaxQueueAhead
               PROVE  CongruentDifference(readHeadMin', x) = CongruentDifference(s, x) - 1
    OBVIOUS
  <2>1. CongruentDifference(s, x) - 1 \in -HalfRange .. HalfRange - 1 /\ 1 \in 0 .. HalfRange
    BY JitterAssumption
  <2> QED BY <1>1, <1>4, <2>1, DifferenceFromWrapped
<1>6. JitterTypeOK'
  BY <1>1, <1>4, JitterAssumption DEF DequeuePacket, JitterInv, JitterTypeOK
<1>7. IdsAreThoseQueued'
  BY DEF DequeuePacket, JitterInv, IdsAreThoseQueued
<1>8. NothingBehindReadHead'
  <2> SUFFICES ASSUME NEW q \in resultPriorityQueue \ {p}
               PROVE  CongruentDifference(readHeadMin', q.sequenceNumber) \in 0 .. MaxQueueAhead
    BY JitterAssumption DEF NothingBehindReadHead, DequeuePacket
  <2>1. CongruentDifference(s, q.sequenceNumber) # 0
    BY <1>1, DifferenceToSelf DEF JitterInv, IdsAreThoseQueued
  <2>2. CongruentDifference(s, q.sequenceNumber) \in 1 .. MaxQueueAhead
    BY <1>3, <2>1, JitterAssumption
  <2> QED BY <1>1, <1>5, <2>2, JitterAssumption
<1>9. NewestAhead'
  <2> DEFINE l == D(largestLatestEnqueued) n == D(s)
  <2>1. l \in -1 .. MaxQueueAhead /\ n \in 0 .. MaxQueueAhead /\ n <= l
    BY <1>2 DEF JitterInv, NewestAhead, DequeuePacket
  <2>2. l - n \in 0 .. MaxQueueAhead /\ l - n \in -HalfRange .. HalfRange - 1
    <3> HIDE DEF l, n
    <3> QED BY <2>1, JitterAssumption
  <2>3. CongruentDifference(s, largestLatestEnqueued) = l - n
    BY <1>1, <2>2, DifferencesAdd
  <2>4. CongruentDifference(readHeadMin', largestLatestEnqueued) = l - n - 1
    BY <1>1, <1>5, <2>2, <2>3
  <2>5. \A q \in resultPriorityQueue :
          CongruentDifference(readHeadMin', q.sequenceNumber) <= l - n - 1
    <3> SUFFICES ASSUME NEW q \in resultPriorityQueue
                 PROVE  CongruentDifference(readHeadMin', q.sequenceNumber) <= l - n - 1
      OBVIOUS
    <3> DEFINE e == D(q.sequenceNumber)
    <3>1. CongruentDifference(readHeadMin', q.sequenceNumber) = e - n - 1
      BY <1>1, <1>3, <1>5
    <3>2. e \in 0 .. MaxQueueAhead /\ e <= l
      BY <1>2 DEF JitterInv, NewestAhead, DequeuePacket
    <3> HIDE DEF e, l, n
    <3> QED BY <2>1, <3>1, <3>2
  <2>6. l - n - 1 \in -1 .. MaxQueueAhead
    <3> HIDE DEF l, n
    <3> QED BY <2>1, <2>2, JitterAssumption
  <2> HIDE DEF l, n
  <2> QED BY <2>4, <2>5, <2>6 DEF NewestAhead, DequeuePacket
<1>10. CongruentDifference(readHeadMin, readHeadMin') \in 0 .. MaxQueueAhead + 1
  <2> DEFINE n == D(s)
  <2>1. n \in 0 .. MaxQueueAhead
    BY <1>2
  <2>2. CongruentDifference(s, readHeadMin') = 1
    BY <1>1, DifferenceToSelf DEF DequeuePacket
  <2>3. D(readHeadMin') = n + 1
    <3>1. n \in 0 .. HalfRange - 2
      BY <2>1, JitterAssumption
    <3> HIDE DEF n
    <3>2. CongruentDifference(readHeadMin, s) = n
      BY DEF n
    <3> QED BY <1>1, <1>4, <3>1, <3>2, JitterAssumption
            DEF SequenceNumber, CongruentDifference, Wrap
  <2> HIDE DEF n
  <2> QED BY <2>1, <2>3, JitterAssumption
<1> QED BY <1>6, <1>7, <1>8, <1>9, <1>10 DEF JitterInv

LEMMA NextInv == JitterInv /\ [JitterNext]_jitterVars => JitterInv'
<1> SUFFICES ASSUME JitterInv, [JitterNext]_jitterVars PROVE JitterInv'
  OBVIOUS
<1>1. CASE UNCHANGED jitterVars
  BY <1>1 DEF jitterVars, JitterInv, JitterTypeOK, IdsAreThoseQueued, NothingBehindReadHead,
     NewestAhead, OutOfSync
<1>2. ASSUME NEW packet \in EncodedAudioPacket, TryEnqueue(packet)
      PROVE  JitterInv'
  BY <1>1, <1>2, ForceSyncInv, FitInv DEF TryEnqueue, Reject
<1>3. CASE DequeueOutOfSync
  BY <1>1, <1>3 DEF DequeueOutOfSync
<1>4. CASE DequeueNothing
  BY <1>4, DequeueNothingInv
<1>5. ASSUME NEW p \in resultPriorityQueue, DequeuePacket(p)
      PROVE  JitterInv'
  BY <1>5, DequeuePacketInv
<1> QED BY <1>1, <1>2, <1>3, <1>4, <1>5 DEF JitterNext

(***************************************************************************)
(* The queue keeps its invariant.                                          *)
(***************************************************************************)
THEOREM JitterInvariant == JitterSpec => []JitterInv
BY InitInv, NextInv, PTL DEF JitterSpec

(***************************************************************************)
(* Types: the numbers stay in the range of a uint16_t, and the span of the *)
(* read head never passes the threshold by more than one.                  *)
(***************************************************************************)
THEOREM JitterTypes == JitterSpec => []JitterTypeOK
<1>1. JitterInv => JitterTypeOK
  BY DEF JitterInv
<1> QED BY <1>1, JitterInvariant, PTL

(***************************************************************************)
(* requireState in the comparator of the priority queue never fails        *)
(* (JitterQueue.m:97): that no packet may be MaxQueueAhead ahead of the    *)
(* read head, and none behind it, is enough.                               *)
(***************************************************************************)
THEOREM ComparatorIsSafe == JitterSpec => []ComparatorNeverRaises
<1>1. JitterInv => ComparatorNeverRaises
  <2> SUFFICES ASSUME JitterInv, NEW p \in resultPriorityQueue, NEW q \in resultPriorityQueue
               PROVE  CongruentDifference(p.sequenceNumber, q.sequenceNumber)
                        \in -TransitiveSafetyRange .. TransitiveSafetyRange
    BY JitterAssumption DEF ComparatorNeverRaises
  <2> DEFINE a == CongruentDifference(readHeadMin, p.sequenceNumber)
             b == CongruentDifference(readHeadMin, q.sequenceNumber)
  <2>1. /\ readHeadMin \in SequenceNumber
        /\ p.sequenceNumber \in SequenceNumber /\ q.sequenceNumber \in SequenceNumber
    BY DEF JitterInv, JitterTypeOK, EncodedAudioPacket
  <2>2. a \in 0 .. MaxQueueAhead /\ b \in 0 .. MaxQueueAhead
    <3>1. a \in Int /\ b \in Int
      BY <2>1, DifferenceRange, JitterAssumption
    <3> QED BY <3>1, JitterAssumption DEF JitterInv, NothingBehindReadHead
  <2>3. /\ b - a \in -HalfRange .. HalfRange - 1
        /\ b - a \in -TransitiveSafetyRange .. TransitiveSafetyRange
    <3> HIDE DEF a, b
    <3> QED BY <2>2, JitterAssumption
  <2>4. CongruentDifference(p.sequenceNumber, q.sequenceNumber) = b - a
    BY <2>1, <2>3, DifferencesAdd
  <2> QED BY <2>3, <2>4
<1> QED BY <1>1, JitterInvariant, PTL

(***************************************************************************)
(* The set of queued numbers is that of the queue's packets, each number   *)
(* queued once, through every resync and discard.                          *)
(***************************************************************************)
THEOREM IdsFollowQueue == JitterSpec => []IdsAreThoseQueued
<1>1. JitterInv => IdsAreThoseQueued
  BY DEF JitterInv
<1> QED BY <1>1, JitterInvariant, PTL

(***************************************************************************)
(* No packet that waits lies behind the read head or out of its reach.     *)
(***************************************************************************)
THEOREM QueueIsAhead == JitterSpec => []NothingBehindReadHead
<1>1. JitterInv => NothingBehindReadHead
  BY DEF JitterInv
<1> QED BY <1>1, JitterInvariant, PTL

(***************************************************************************)
(* The depth by which the audio is stretched is that of the newest packet, *)
(* and its computation never wraps.                                        *)
(***************************************************************************)
THEOREM DepthIsRight == JitterSpec => []DepthIsThatOfNewest
<1>1. JitterInv => DepthIsThatOfNewest
  <2> SUFFICES ASSUME JitterInv, ~OutOfSync
               PROVE  /\ CurrentBufferDepth \in -BadSpanThreshold .. MaxQueueAhead
                      /\ \A p \in resultPriorityQueue :
                           CongruentDifference(Wrap(readHeadMin + readHeadSpan - 1),
                                               p.sequenceNumber) <= CurrentBufferDepth
    BY DEF DepthIsThatOfNewest
  <2> DEFINE n == readHeadSpan - 1
             l == CongruentDifference(readHeadMin, largestLatestEnqueued)
             top == Wrap(readHeadMin + readHeadSpan - 1)
  <2>1. n \in 0 .. BadSpanThreshold - 1 /\ n \in 0 .. HalfRange
    BY JitterAssumption DEF JitterInv, JitterTypeOK, OutOfSync
  <2>2. l \in -1 .. MaxQueueAhead
    BY DEF JitterInv, NewestAhead
  <2>3. /\ readHeadMin \in SequenceNumber /\ largestLatestEnqueued \in SequenceNumber
        /\ \A p \in resultPriorityQueue : p.sequenceNumber \in SequenceNumber
    BY DEF JitterInv, JitterTypeOK, EncodedAudioPacket
  <2>4. top = Wrap(readHeadMin + n)
    BY <2>3, JitterAssumption DEF JitterInv, JitterTypeOK, SequenceNumber
  <2>5. \A x \in SequenceNumber :
          CongruentDifference(readHeadMin, x) \in -1 .. MaxQueueAhead
            => CongruentDifference(top, x) = CongruentDifference(readHeadMin, x) - n
    <3> SUFFICES ASSUME NEW x \in SequenceNumber,
                        CongruentDifference(readHeadMin, x) \in -1 .. MaxQueueAhead
                 PROVE  CongruentDifference(top, x) = CongruentDifference(readHeadMin, x) - n
      OBVIOUS
    <3>1. CongruentDifference(readHeadMin, x) - n \in -HalfRange .. HalfRange - 1
      <4> HIDE DEF n
      <4> QED BY <2>1, JitterAssumption
    <3> HIDE DEF n
    <3> QED BY <2>1, <2>3, <2>4, <3>1, DifferenceFromWrapped
  <2>6. CurrentBufferDepth = l - n
    BY <2>2, <2>3, <2>5 DEF CurrentBufferDepth
  <2>7. l - n \in -BadSpanThreshold .. MaxQueueAhead
    <3> HIDE DEF l, n
    <3> QED BY <2>1, <2>2, JitterAssumption
  <2>8. ASSUME NEW p \in resultPriorityQueue
        PROVE  CongruentDifference(top, p.sequenceNumber) <= l - n
    <3> DEFINE e == CongruentDifference(readHeadMin, p.sequenceNumber)
    <3>1. e \in Int
      BY <2>3, DifferenceRange, JitterAssumption
    <3>2. e \in 0 .. MaxQueueAhead /\ e <= l
      BY <3>1, JitterAssumption DEF JitterInv, NothingBehindReadHead, NewestAhead
    <3>3. e \in -1 .. MaxQueueAhead
      <4> HIDE DEF e
      <4> QED BY <3>2, JitterAssumption
    <3>4. CongruentDifference(top, p.sequenceNumber) = e - n
      BY <2>3, <2>5, <3>3
    <3> HIDE DEF e, l, n
    <3> QED BY <2>1, <2>2, <3>2, <3>4
  <2> HIDE DEF l, n
  <2> QED BY <2>6, <2>7, <2>8
<1> QED BY <1>1, JitterInvariant, PTL

(***************************************************************************)
(* The queue is sound, for every sequence of packets and of requests for   *)
(* one (JitterQueue.m:43-147, 165-173).                                    *)
(***************************************************************************)
THEOREM JitterQueueIsSound == JitterSpec => []QueueIsSound
BY JitterTypes, ComparatorIsSafe, IdsFollowQueue, QueueIsAhead, DepthIsRight, PTL
   DEF QueueIsSound

(***************************************************************************)
(* While the queue is in sync its read head only moves forward, by no more *)
(* than the width of its window.                                           *)
(***************************************************************************)
THEOREM ReadHeadNeverReturns == JitterSpec => ReadHeadMovesOn
<1> DEFINE Moves == CongruentDifference(readHeadMin, readHeadMin') \in 0 .. MaxQueueAhead + 1
<1>1. JitterInv /\ [JitterNext]_jitterVars => [~OutOfSync => Moves]_jitterVars
  <2> SUFFICES ASSUME JitterInv, JitterNext, ~OutOfSync PROVE Moves
    OBVIOUS
  <2>1. CASE readHeadMin' = readHeadMin
    <3>1. readHeadMin \in SequenceNumber
      BY DEF JitterInv, JitterTypeOK
    <3> QED BY <2>1, <3>1, DifferenceToSelf, JitterAssumption
  <2>2. ASSUME NEW packet \in EncodedAudioPacket, TryEnqueue(packet)
        PROVE  Moves
    <3>1. CASE Fit(packet)
      BY <3>1, FitInv, JitterAssumption
    <3>2. CASE Reject(packet)
      BY <3>2, <2>1 DEF Reject, jitterVars
    <3> QED BY <2>2, <3>1, <3>2 DEF TryEnqueue, ForceSync
  <2>3. CASE DequeueNothing
    BY <2>1, <2>3 DEF DequeueNothing
  <2>4. ASSUME NEW p \in resultPriorityQueue, DequeuePacket(p)
        PROVE  Moves
    BY <2>4, DequeuePacketInv
  <2> QED BY <2>2, <2>3, <2>4 DEF JitterNext, DequeueOutOfSync
<1> QED BY <1>1, JitterInvariant, PTL DEF JitterSpec, ReadHeadMovesOn

-----------------------------------------------------------------------------
(* The ring of bytes *)

\* The k-th byte that is written lands k - 1 places after the write offset.
LEMMA WhereDataLands ==
  ASSUME NEW capacity \in Nat, NEW w \in 0 .. capacity - 1, NEW data \in Seq(Byte),
         Len(data) <= capacity, NEW bytes,
         NEW k \in 1 .. Len(data), NEW j \in 0 .. capacity - 1,
         j = w + k - 1 \/ j = w + k - 1 - capacity
  PROVE  Written(bytes, capacity, w, data)[j] = data[k]
<1> DEFINE slack == capacity - w
<1>0. /\ Len(data) \in Nat
      /\ Written(bytes, capacity, w, data)[j] =
           IF j \in w .. w + Least(slack, Len(data)) - 1 THEN data[j - w + 1]
           ELSE IF j < Len(data) - slack THEN data[j + slack + 1] ELSE bytes[j]
  BY DEF Written
<1>1. CASE j = w + k - 1
  <2>1. j \in w .. w + Least(slack, Len(data)) - 1  BY <1>0, <1>1 DEF Least
  <2>2. j - w + 1 = k  BY <1>1
  <2> QED  BY <1>0, <2>1, <2>2
<1>2. CASE j = w + k - 1 - capacity
  <2>1. j < w /\ j < Len(data) - slack  BY <1>0, <1>2
  <2>2. j \notin w .. w + Least(slack, Len(data)) - 1  BY <2>1, <1>0 DEF Least
  <2>3. j + slack + 1 = k  BY <1>2
  <2> QED  BY <1>0, <2>1, <2>2, <2>3
<1> QED  BY <1>1, <1>2

\* What is more than the data's length after the write offset stays.
LEMMA WhatIsKept ==
  ASSUME NEW capacity \in Nat, NEW w \in 0 .. capacity - 1, NEW data \in Seq(Byte),
         NEW bytes, NEW j \in 0 .. capacity - 1,
         \/ w + Len(data) <= j
         \/ j < w /\ w + Len(data) - capacity <= j
  PROVE  Written(bytes, capacity, w, data)[j] = bytes[j]
<1>0. /\ Len(data) \in Nat
      /\ Written(bytes, capacity, w, data)[j] =
           IF j \in w .. w + Least(capacity - w, Len(data)) - 1 THEN data[j - w + 1]
           ELSE IF j < Len(data) - (capacity - w)
                THEN data[j + (capacity - w) + 1] ELSE bytes[j]
  BY DEF Written
<1>1. j \notin w .. w + Least(capacity - w, Len(data)) - 1  BY <1>0 DEF Least
<1>2. ~(j < Len(data) - (capacity - w))  BY <1>0
<1> QED  BY <1>0, <1>1, <1>2

LEMMA WrittenType ==
  ASSUME NEW capacity \in Nat, NEW w \in 0 .. capacity - 1, NEW data \in Seq(Byte),
         Len(data) <= capacity,
         NEW bytes \in [0 .. capacity - 1 -> Byte \cup {NoByte}]
  PROVE  Written(bytes, capacity, w, data) \in [0 .. capacity - 1 -> Byte \cup {NoByte}]
<1> DEFINE value(j) == Written(bytes, capacity, w, data)[j]
<1>0. Len(data) \in Nat /\ \A k \in 1 .. Len(data) : data[k] \in Byte  OBVIOUS
<1>1. ASSUME NEW j \in 0 .. capacity - 1 PROVE value(j) \in Byte \cup {NoByte}
  <2>1. CASE w <= j /\ j < w + Len(data)
    <3>1. j - w + 1 \in 1 .. Len(data) /\ j = w + (j - w + 1) - 1  BY <1>0, <2>1
    <3>2. value(j) = data[j - w + 1]  BY <3>1, WhereDataLands
    <3> QED  BY <3>1, <3>2, <1>0
  <2>2. CASE j < w /\ j < w + Len(data) - capacity
    <3>1. /\ j + capacity - w + 1 \in 1 .. Len(data)
          /\ j = w + (j + capacity - w + 1) - 1 - capacity
      BY <1>0, <2>2
    <3>2. value(j) = data[j + capacity - w + 1]  BY <3>1, WhereDataLands
    <3> QED  BY <3>1, <3>2, <1>0
  <2>3. CASE \/ w + Len(data) <= j
             \/ j < w /\ w + Len(data) - capacity <= j
    <3>1. value(j) = bytes[j]  BY <2>3, WhatIsKept
    <3> QED  BY <3>1
  <2> QED  BY <1>0, <2>1, <2>2, <2>3
<1>2. Written(bytes, capacity, w, data) =
        [j \in 0 .. capacity - 1 |-> Written(bytes, capacity, w, data)[j]]
  BY DEF Written
<1> QED  BY <1>1, <1>2

LEMMA Wraps ==
  ASSUME NEW capacity \in Nat, NEW r \in 0 .. capacity - 1, NEW i \in 1 .. capacity
  PROVE  LET at == IF r + i - 1 < capacity THEN r + i - 1 ELSE r + i - 1 - capacity
         IN /\ at \in 0 .. capacity - 1
            /\ i <= capacity - r => r + i - 1 = at
            /\ ~(i <= capacity - r) => i - (capacity - r) - 1 = at
  OBVIOUS

\* The i-th byte that waits is i - 1 places after the read offset.
LEMMA PeekedByte ==
  ASSUME BufferTypeOK, NEW length \in 0 .. count, NEW i \in 1 .. length
  PROVE  /\ Offset(readOffset + i - 1) \in 0 .. bufferCapacity - 1
         /\ PeekData(length)[i] = buffer[Offset(readOffset + i - 1)]
  BY DEF BufferTypeOK, PeekData, Offset

LEMMA PeekLength ==
  ASSUME BufferTypeOK, NEW length \in 0 .. count
  PROVE  DOMAIN PeekData(length) = 1 .. length
  BY DEF PeekData

-----------------------------------------------------------------------------

LEMMA BufferTypesStep ==
  ASSUME BufferAssumption, BufferTypeOK, [BufferNext]_bufferVars
  PROVE  BufferTypeOK'
<1>1. ASSUME NEW data \in Chunk, EnqueueData(data) PROVE BufferTypeOK'
  <2>0. data \in Seq(Byte) /\ Len(data) \in Nat  BY BufferAssumption
  <2>1. CASE bufferCapacity - count >= Len(data)
    <3> DEFINE w == Offset(readOffset + count)
    <3>1. w \in 0 .. bufferCapacity - 1  BY DEF BufferTypeOK, Offset
    <3>2. /\ buffer' = Written(buffer, bufferCapacity, w, data)
          /\ bufferCapacity' = bufferCapacity /\ readOffset' = readOffset
          /\ count' = count + Len(data)
      BY <1>1, <2>1 DEF EnqueueData
    <3>3. Len(data) <= bufferCapacity  BY <2>0, <2>1 DEF BufferTypeOK
    <3> HIDE DEF w
    <3>4. buffer' \in [0 .. bufferCapacity - 1 -> Byte \cup {NoByte}]
      BY <2>0, <3>1, <3>2, <3>3, WrittenType DEF BufferTypeOK
    <3> QED  BY <2>0, <2>1, <3>2, <3>4 DEF BufferTypeOK
  <2>2. CASE ~(bufferCapacity - count >= Len(data))
    <3> DEFINE newCapacity == bufferCapacity * 2 + Len(data)
               newBuffer == [j \in 0 .. newCapacity - 1 |->
                               IF j < count THEN PeekData(count)[j + 1] ELSE NoByte]
    <3>1. /\ buffer' = Written(newBuffer, newCapacity, count, data)
          /\ bufferCapacity' = newCapacity /\ readOffset' = 0
          /\ count' = count + Len(data)
      BY <1>1, <2>2 DEF EnqueueData
    <3>2. /\ newCapacity \in Nat \ {0} /\ Len(data) <= newCapacity
          /\ count \in 0 .. newCapacity - 1 /\ count + Len(data) <= newCapacity
      BY <2>0, <2>2 DEF BufferTypeOK
    <3> HIDE DEF newCapacity
    <3>3. newBuffer \in [0 .. newCapacity - 1 -> Byte \cup {NoByte}]
      <4>1. ASSUME NEW j \in 0 .. newCapacity - 1, j < count
            PROVE  PeekData(count)[j + 1] \in Byte \cup {NoByte}
        <5>1. j + 1 \in 1 .. count /\ count \in 0 .. count  BY <4>1, <3>2
        <5>2. /\ PeekData(count)[j + 1] = buffer[Offset(readOffset + (j + 1) - 1)]
              /\ Offset(readOffset + (j + 1) - 1) \in 0 .. bufferCapacity - 1
          BY <5>1, PeekedByte
        <5> QED  BY <5>2 DEF BufferTypeOK
      <4> QED  BY <4>1
    <3> HIDE DEF newBuffer
    <3>4. buffer' \in [0 .. newCapacity - 1 -> Byte \cup {NoByte}]
      BY <2>0, <3>1, <3>2, <3>3, WrittenType
    <3> QED  BY <2>0, <3>1, <3>2, <3>4 DEF BufferTypeOK
  <2> QED  BY <2>1, <2>2
<1>2. ASSUME NEW length \in 0 .. count, Discard(length) PROVE BufferTypeOK'
  BY <1>2 DEF Discard, BufferTypeOK, Offset
<1>3. CASE UNCHANGED bufferVars
  BY <1>3 DEF bufferVars, BufferTypeOK
<1> QED  BY <1>1, <1>2, <1>3 DEF BufferNext

-----------------------------------------------------------------------------

\* What is written comes after all that waits, and what waits stays as it is.
LEMMA EnqueueAppends ==
  ASSUME BufferAssumption, BufferTypeOK, BufferTypeOK', NEW data \in Chunk, EnqueueData(data)
  PROVE  Contents' = Contents \o data
<1>0. data \in Seq(Byte) /\ Len(data) \in Nat /\ count \in Nat /\ count \in 0 .. count
  BY BufferAssumption DEF BufferTypeOK
<1>1. Contents' = [i \in 1 .. count + Len(data) |-> Contents'[i]]
  BY DEF Contents, PeekData, EnqueueData
<1>2. /\ Contents = [i \in 1 .. count |-> Contents[i]]
      /\ Contents \in Seq(Byte \cup {NoByte}) /\ Len(Contents) = count
  <2>1. \A i \in 1 .. count : Contents[i] \in Byte \cup {NoByte}
    BY <1>0, PeekedByte DEF Contents, BufferTypeOK
  <2>2. Contents = [i \in 1 .. count |-> Contents[i]]  BY DEF Contents, PeekData
  <2> QED  BY <1>0, <2>1, <2>2
<1>3. Contents \o data = [i \in 1 .. count + Len(data) |->
                            IF i <= count THEN Contents[i] ELSE data[i - count]]
  BY <1>0, <1>2
<1>4. ASSUME NEW i \in 1 .. count + Len(data)
      PROVE  Contents'[i] = IF i <= count THEN Contents[i] ELSE data[i - count]
  <2> DEFINE at == IF readOffset' + i - 1 < bufferCapacity' THEN readOffset' + i - 1
                   ELSE readOffset' + i - 1 - bufferCapacity'
  <2>1. /\ at \in 0 .. bufferCapacity' - 1
        /\ Contents'[i] = buffer'[at]
    <3>1. /\ bufferCapacity' \in Nat \ {0} /\ readOffset' \in 0 .. bufferCapacity' - 1
          /\ count' \in 0 .. bufferCapacity'
      BY DEF BufferTypeOK
    <3>2. count' = count + Len(data)  BY DEF EnqueueData
    <3>3. i \in 1 .. count' /\ i \in 1 .. bufferCapacity'  BY <1>0, <3>1, <3>2
    <3>4. Contents'[i] = IF i <= bufferCapacity' - readOffset'
                         THEN buffer'[readOffset' + i - 1]
                         ELSE buffer'[i - (bufferCapacity' - readOffset') - 1]
      BY <3>3 DEF Contents, PeekData
    <3>5. /\ at \in 0 .. bufferCapacity' - 1
          /\ i <= bufferCapacity' - readOffset' => readOffset' + i - 1 = at
          /\ ~(i <= bufferCapacity' - readOffset')
               => i - (bufferCapacity' - readOffset') - 1 = at
      BY <3>1, <3>3, Wraps
    <3> HIDE DEF at
    <3> QED  BY <3>4, <3>5
  <2>2. CASE bufferCapacity - count >= Len(data)
    <3> DEFINE w == Offset(readOffset + count)
    <3>0. /\ bufferCapacity \in Nat \ {0} /\ readOffset \in 0 .. bufferCapacity - 1
          /\ count \in 0 .. bufferCapacity
      BY DEF BufferTypeOK
    <3>1. /\ w \in 0 .. bufferCapacity - 1
          /\ w = readOffset + count \/ w = readOffset + count - bufferCapacity
          /\ w = readOffset + count - bufferCapacity => readOffset + count >= bufferCapacity
      BY <3>0 DEF Offset
    <3>2. /\ buffer' = Written(buffer, bufferCapacity, w, data)
          /\ bufferCapacity' = bufferCapacity /\ readOffset' = readOffset
      BY <2>2 DEF EnqueueData
    <3>3. Len(data) <= bufferCapacity  BY <1>0, <2>2, <3>0
    <3>4. /\ at \in 0 .. bufferCapacity - 1
          /\ at = readOffset + i - 1 \/ at = readOffset + i - 1 - bufferCapacity
      BY <2>1, <3>2
    <3> HIDE DEF w, at
    <3>5. CASE i <= count
      <4>1. \/ w + Len(data) <= at
            \/ at < w /\ w + Len(data) - bufferCapacity <= at
        BY <1>0, <2>2, <3>0, <3>1, <3>4, <3>5
      <4>2. Contents'[i] = buffer[at]  BY <1>0, <2>1, <3>0, <3>1, <3>2, <3>4, <4>1, WhatIsKept
      <4>3. at = Offset(readOffset + i - 1)  BY <3>2, <3>0, <1>0 DEF at, Offset
      <4>4. Contents[i] = buffer[at]  BY <1>0, <3>5, <4>3, PeekedByte DEF Contents
      <4> QED  BY <3>5, <4>2, <4>4
    <3>6. CASE i > count
      <4>1. /\ i - count \in 1 .. Len(data)
            /\ \/ at = w + (i - count) - 1
               \/ at = w + (i - count) - 1 - bufferCapacity
        BY <1>0, <2>2, <3>0, <3>1, <3>4, <3>6
      <4>2. Contents'[i] = data[i - count]
        BY <1>0, <2>1, <3>0, <3>1, <3>2, <3>3, <3>4, <4>1, WhereDataLands
      <4> QED  BY <1>0, <3>6, <4>2
    <3> QED  BY <1>0, <3>5, <3>6
  <2>3. CASE ~(bufferCapacity - count >= Len(data))
    <3> DEFINE newCapacity == bufferCapacity * 2 + Len(data)
               newBuffer == [j \in 0 .. newCapacity - 1 |->
                               IF j < count THEN PeekData(count)[j + 1] ELSE NoByte]
    <3>1. /\ buffer' = Written(newBuffer, newCapacity, count, data)
          /\ bufferCapacity' = newCapacity /\ readOffset' = 0
      BY <2>3 DEF EnqueueData
    <3>2. /\ newCapacity \in Nat \ {0} /\ Len(data) <= newCapacity
          /\ count \in 0 .. newCapacity - 1 /\ count + Len(data) <= newCapacity
      BY <1>0, <2>3 DEF BufferTypeOK
    <3>3. \A j \in 0 .. newCapacity - 1 : j < count => newBuffer[j] = Contents[j + 1]
      BY DEF Contents
    <3> HIDE DEF newCapacity, newBuffer
    <3>4. at = i - 1  BY <1>0, <3>1, <3>2
    <3> HIDE DEF at
    <3>5. CASE i <= count
      <4>1. /\ i - 1 \in 0 .. newCapacity - 1
            /\ i - 1 < count /\ count + Len(data) - newCapacity <= i - 1
        BY <1>0, <3>2, <3>5
      <4>2. buffer'[i - 1] = newBuffer[i - 1]  BY <1>0, <3>1, <3>2, <4>1, WhatIsKept
      <4>3. newBuffer[i - 1] = Contents[(i - 1) + 1]  BY <3>3, <4>1
      <4> QED  BY <2>1, <3>4, <3>5, <4>2, <4>3
    <3>6. CASE i > count
      <4>1. i - count \in 1 .. Len(data) /\ i - 1 \in 0 .. newCapacity - 1
            /\ i - 1 = count + (i - count) - 1
        BY <1>0, <3>2, <3>6
      <4>2. buffer'[i - 1] = data[i - count]
        BY <1>0, <3>1, <3>2, <4>1, WhereDataLands
      <4> QED  BY <1>0, <2>1, <3>4, <3>6, <4>2
    <3> QED  BY <1>0, <3>5, <3>6
  <2> QED  BY <2>2, <2>3
<1> QED  BY <1>1, <1>3, <1>4

\* What is read leaves the rest as it is.
LEMMA DiscardDrops ==
  ASSUME BufferTypeOK, BufferTypeOK', NEW length \in 0 .. count, Discard(length)
  PROVE  /\ length \in 0 .. Len(Contents)
         /\ Contents' = SubSeq(Contents, length + 1, Len(Contents))
<1>0. /\ bufferCapacity \in Nat \ {0} /\ readOffset \in 0 .. bufferCapacity - 1
      /\ count \in 0 .. bufferCapacity /\ count \in 0 .. count
  BY DEF BufferTypeOK
<1>1. /\ count' = count - length /\ readOffset' = Offset(readOffset + length)
      /\ buffer' = buffer /\ bufferCapacity' = bufferCapacity
  BY DEF Discard
<1>2. Contents \in Seq(Byte \cup {NoByte}) /\ Len(Contents) = count
  <2>1. \A i \in 1 .. count : Contents[i] \in Byte \cup {NoByte}
    BY <1>0, PeekedByte DEF Contents, BufferTypeOK
  <2>2. Contents = [i \in 1 .. count |-> Contents[i]]  BY DEF Contents, PeekData
  <2> QED  BY <1>0, <2>1, <2>2
<1>3. SubSeq(Contents, length + 1, count) =
        [i \in 1 .. count - length |-> Contents[i + length]]
  BY <1>0, <1>2
<1>4. Contents' = [i \in 1 .. count - length |-> Contents'[i]]
  BY <1>1 DEF Contents, PeekData
<1>5. ASSUME NEW i \in 1 .. count - length PROVE Contents'[i] = Contents[i + length]
  <2>1. Contents'[i] = IF i <= bufferCapacity - readOffset'
                       THEN buffer[readOffset' + i - 1]
                       ELSE buffer[i - (bufferCapacity - readOffset') - 1]
    BY <1>1 DEF Contents, PeekData
  <2>2. /\ i + length \in 1 .. count
        /\ Contents[i + length] = buffer[Offset(readOffset + (i + length) - 1)]
    BY <1>0, PeekedByte DEF Contents
  <2>3. Offset(readOffset + (i + length) - 1) =
          IF i <= bufferCapacity - readOffset' THEN readOffset' + i - 1
          ELSE i - (bufferCapacity - readOffset') - 1
    BY <1>0, <1>1, <2>2 DEF Offset
  <2> QED  BY <2>1, <2>2, <2>3
<1> QED  BY <1>0, <1>2, <1>3, <1>4, <1>5

LEMMA BufferStepIsFifoStep ==
  ASSUME BufferAssumption, BufferTypeOK, BufferTypeOK', [BufferNext]_bufferVars
  PROVE  [Bytes!Next]_Contents
<1>1. ASSUME NEW data \in Chunk, EnqueueData(data) PROVE Bytes!Next
  BY <1>1, EnqueueAppends DEF Bytes!Next, Bytes!Enqueue
<1>2. ASSUME NEW length \in 0 .. count, Discard(length) PROVE Bytes!Next
  BY <1>2, DiscardDrops DEF Bytes!Next, Bytes!Dequeue
<1>3. CASE UNCHANGED bufferVars
  BY <1>3 DEF bufferVars, Contents, PeekData
<1> QED  BY <1>1, <1>2, <1>3 DEF BufferNext

(***************************************************************************)
(* The ring is a queue of bytes (CyclicalBuffer.m:19-82).                  *)
(***************************************************************************)
THEOREM RingIsQueue == ASSUME BufferAssumption PROVE BufferSpec => ReadsWhatWasWritten
<1>1. BufferInit => BufferTypeOK /\ Bytes!Init
  BY BufferAssumption DEF BufferInit, BufferTypeOK, Bytes!Init, Contents, PeekData
<1>2. BufferTypeOK /\ [BufferNext]_bufferVars => BufferTypeOK'
  BY BufferAssumption, BufferTypesStep
<1>3. BufferTypeOK /\ BufferTypeOK' /\ [BufferNext]_bufferVars => [Bytes!Next]_Contents
  BY BufferAssumption, BufferStepIsFifoStep
<1> QED  BY <1>1, <1>2, <1>3, PTL DEF BufferSpec, ReadsWhatWasWritten, Bytes!Spec

-----------------------------------------------------------------------------

\* Neither thread touches the playback queue but to write and to read.
LEMMA AudioStepIsBufferStep == [AudioNext]_audioVars => [BufferNext]_bufferVars
<1> SUFFICES ASSUME [AudioNext]_audioVars PROVE [BufferNext]_bufferVars  OBVIOUS
<1>1. ASSUME NEW requested \in Requests, PlaybackCallback(requested)
      PROVE  [BufferNext]_bufferVars
  BY <1>1 DEF PlaybackCallback, BufferNext, Discard
<1>2. CASE PopulatePlaybackQueue
  BY <1>2 DEF PopulatePlaybackQueue, BufferNext
<1>3. CASE \/ \E buf \in Buffers : RecordingCallback(buf)
           \/ OnRequestedPlaybackData \/ QueueIsFilled \/ FirstPacket
           \/ OnRecordedData \/ Terminate \/ UNCHANGED audioVars
  BY <1>3 DEF RecordingCallback, OnRequestedPlaybackData, QueueIsFilled, FirstPacket,
              OnRecordedData, Terminate, audioVars
<1> QED  BY <1>1, <1>2, <1>3 DEF AudioNext

(***************************************************************************)
(* The amounts and buffers of the tasks are those the audio unit's thread  *)
(* gave, and the ring stays within its bytes (RemoteIOAudio.m:206-294).    *)
(***************************************************************************)
THEOREM AudioTypes ==
  ASSUME BufferAssumption, AudioAssumption PROVE AudioSpec => []AudioTypeOK
<1> USE BufferAssumption, AudioAssumption
<1>1. AudioInit => AudioTypeOK
  <2>1. AudioInit => BufferTypeOK  BY DEF AudioInit, BufferInit, BufferTypeOK, BufferAssumption
  <2>2. 0 \in 0 .. DecodedFrameSize - 1  BY DEF AudioAssumption
  <2>3. <<>> \in Seq(Task)  OBVIOUS
  <2> SUFFICES ASSUME AudioInit PROVE AudioTypeOK  OBVIOUS
  <2>4. bytesInPlaybackBuffer \in Nat /\ recordingQueue \in 0 .. DecodedFrameSize - 1
    BY <2>2 DEF AudioInit
  <2> QED  BY <2>1, <2>3, <2>4 DEF AudioInit, AudioTypeOK
<1>2. AudioTypeOK /\ [AudioNext]_audioVars => AudioTypeOK'
  <2> SUFFICES ASSUME AudioTypeOK, [AudioNext]_audioVars PROVE AudioTypeOK'  OBVIOUS
  <2>0. BufferTypeOK'
    BY BufferTypesStep, AudioStepIsBufferStep DEF AudioTypeOK
  <2>1. ASSUME NEW requested \in Requests, PlaybackCallback(requested) PROVE AudioTypeOK'
    <3>1. [kind |-> "playback", requested |-> requested, available |-> count] \in Task
      BY DEF AudioTypeOK, BufferTypeOK, Task
    <3> QED  BY <2>0, <2>1, <3>1
             DEF PlaybackCallback, AudioTypeOK, poolVars, managerVars
  <2>2. ASSUME NEW buf \in Buffers, RecordingCallback(buf) PROVE AudioTypeOK'
    <3>1. [kind |-> "recorded", buffer |-> buf] \in Task  BY DEF Task
    <3> QED  BY <2>0, <2>2, <3>1
             DEF RecordingCallback, AudioTypeOK, managerVars
  <2>3. CASE OnRequestedPlaybackData
    <3>1. tasks # <<>> /\ Head(tasks) \in Task /\ tasks' \in Seq(Task)
      BY <2>3 DEF OnRequestedPlaybackData, NextTask, AudioTypeOK
    <3>2. Head(tasks).requested \in Requests
      BY <2>3, <3>1 DEF OnRequestedPlaybackData, NextTask, Task
    <3>3. /\ Head(tasks).requested \in Nat
          /\ filling \in Requests \cup {0} /\ bytesInPlaybackBuffer \in Nat
      BY <3>2 DEF AudioTypeOK, AudioAssumption
    <3>4. filling' \in Requests \cup {0} /\ bytesInPlaybackBuffer' \in Nat
      <4>1. CASE state = "TERMINATED"
        BY <2>3, <3>3, <4>1 DEF OnRequestedPlaybackData
      <4>2. CASE state # "TERMINATED"
        <5>1. /\ filling' = Head(tasks).requested
              /\ bytesInPlaybackBuffer' =
                   IF bytesInPlaybackBuffer >= Head(tasks).requested
                   THEN bytesInPlaybackBuffer - Head(tasks).requested
                   ELSE bytesInPlaybackBuffer
          BY <2>3, <4>2 DEF OnRequestedPlaybackData
        <5> QED  BY <3>2, <3>3, <5>1
      <4> QED  BY <4>1, <4>2
    <3> QED  BY <2>0, <2>3, <3>1, <3>4 DEF OnRequestedPlaybackData, AudioTypeOK, poolVars
  <2>4. CASE PopulatePlaybackQueue
    <3>1. bytesInPlaybackBuffer' \in Nat
      BY <2>4 DEF PopulatePlaybackQueue, AudioTypeOK, BufferAssumption
    <3> QED  BY <2>0, <2>4, <3>1 DEF PopulatePlaybackQueue, AudioTypeOK, poolVars
  <2>5. CASE QueueIsFilled
    BY <2>0, <2>5 DEF QueueIsFilled, AudioTypeOK, poolVars
  <2>6. CASE FirstPacket
    BY <2>0, <2>6 DEF FirstPacket, AudioTypeOK, poolVars
  <2>7. CASE OnRecordedData
    <3>1. tasks # <<>> /\ Head(tasks) \in Task /\ tasks' \in Seq(Task)
      BY <2>7 DEF OnRecordedData, NextTask, AudioTypeOK
    <3>2. Head(tasks).buffer \in Buffers
      BY <2>7, <3>1 DEF OnRecordedData, NextTask, Task
    <3>3. recordingQueue' \in 0 .. DecodedFrameSize - 1
      BY <2>7 DEF OnRecordedData, AudioTypeOK
    <3> QED  BY <2>0, <2>7, <3>1, <3>2, <3>3 DEF OnRecordedData, AudioTypeOK, managerVars
  <2>8. CASE Terminate
    BY <2>0, <2>8 DEF Terminate, AudioTypeOK, managerVars
  <2>9. CASE UNCHANGED audioVars
    BY <2>0, <2>9 DEF audioVars, AudioTypeOK, poolVars, managerVars
  <2> QED  BY <2>1, <2>2, <2>3, <2>4, <2>5, <2>6, <2>7, <2>8, <2>9 DEF AudioNext
<1> QED  BY <1>1, <1>2, PTL DEF AudioSpec

\* A task is posted at the end.
LEMMA PostedTask ==
  ASSUME NEW s \in Seq(Task), NEW task \in Task
  PROVE  /\ Append(s, task) \in Seq(Task)
         /\ DOMAIN Append(s, task) = DOMAIN s \cup {Len(s) + 1} /\ Len(s) + 1 \notin DOMAIN s
         /\ \A i \in DOMAIN s : Append(s, task)[i] = s[i]
         /\ Append(s, task)[Len(s) + 1] = task
  OBVIOUS

\* The task that was posted first runs, and the others move up.
LEMMA TaskRuns ==
  ASSUME NEW s \in Seq(Task), s # <<>>
  PROVE  /\ DOMAIN Tail(s) = {i \in Nat : i + 1 \in DOMAIN s /\ i > 0}
         /\ \A i \in DOMAIN Tail(s) : i \in Int /\ Tail(s)[i] = s[i + 1]
         /\ 1 \in DOMAIN s /\ Head(s) = s[1] /\ 1 \notin {i + 1 : i \in DOMAIN Tail(s)}
         /\ \A i \in DOMAIN s : i = 1 \/ (i - 1 \in DOMAIN Tail(s) /\ i = (i - 1) + 1)
  OBVIOUS

(***************************************************************************)
(* A recording buffer is in the pool or with one recording, whoever is     *)
(* scheduled when and whenever the call ends (RemoteIOAudio.m:160-172,     *)
(* 206, 230).                                                              *)
(***************************************************************************)
THEOREM BuffersConserved ==
  ASSUME BufferAssumption, AudioAssumption PROVE AudioSpec => []BuffersAreConserved
<1> USE BufferAssumption, AudioAssumption
<1>1. AudioInit => BuffersAreConserved
  BY DEF AudioInit, BuffersAreConserved
<1>2. AudioTypeOK /\ BuffersAreConserved /\ [AudioNext]_audioVars => BuffersAreConserved'
  <2> SUFFICES ASSUME AudioTypeOK, BuffersAreConserved, [AudioNext]_audioVars
               PROVE  BuffersAreConserved'
    OBVIOUS
  <2>0. tasks \in Seq(Task) /\ unusedBuffers \subseteq Buffers /\ state \in {"STARTED", "TERMINATED"}
    BY DEF AudioTypeOK
  <2>1. ASSUME NEW requested \in Requests, PlaybackCallback(requested)
        PROVE  BuffersAreConserved'
    <3> DEFINE task == [kind |-> "playback", requested |-> requested, available |-> count]
    <3>1. task \in Task /\ task.kind # "recorded"  BY DEF AudioTypeOK, BufferTypeOK, Task
    <3>2. tasks' = Append(tasks, task) /\ UNCHANGED <<state, unusedBuffers>>
      BY <2>1 DEF PlaybackCallback, poolVars
    <3> HIDE DEF task
    <3> QED  BY <2>0, <3>1, <3>2, PostedTask DEF BuffersAreConserved
  <2>2. ASSUME NEW buf \in Buffers, RecordingCallback(buf) PROVE BuffersAreConserved'
    <3> DEFINE task == [kind |-> "recorded", buffer |-> buf]
    <3>1. task \in Task /\ task.kind = "recorded" /\ task.buffer = buf  BY DEF Task
    <3>2. /\ tasks' = Append(tasks, task) /\ state' = state /\ state = "STARTED"
          /\ buf \in unusedBuffers /\ unusedBuffers' = unusedBuffers \ {buf}
      BY <2>2 DEF RecordingCallback
    <3> HIDE DEF task
    <3> QED  BY <2>0, <3>1, <3>2, PostedTask DEF BuffersAreConserved
  <2>3. CASE OnRequestedPlaybackData
    <3>1. /\ tasks # <<>> /\ tasks' = Tail(tasks) /\ Head(tasks).kind # "recorded"
          /\ UNCHANGED <<state, unusedBuffers>>
      BY <2>3 DEF OnRequestedPlaybackData, NextTask, poolVars
    <3> QED  BY <2>0, <3>1, TaskRuns DEF BuffersAreConserved
  <2>4. CASE OnRecordedData
    <3>1. /\ tasks # <<>> /\ tasks' = Tail(tasks) /\ Head(tasks).kind = "recorded"
          /\ state' = state
          /\ unusedBuffers' = IF state = "TERMINATED" THEN unusedBuffers
                              ELSE unusedBuffers \cup {Head(tasks).buffer}
      BY <2>4 DEF OnRecordedData, NextTask
    <3>2. Head(tasks).buffer \in Buffers  BY <2>0, <3>1 DEF Task
    <3> DEFINE recorded == {i \in DOMAIN tasks : tasks[i].kind = "recorded"}
               left == {i \in DOMAIN Tail(tasks) : Tail(tasks)[i].kind = "recorded"}
    <3>3. /\ \A i, j \in recorded : tasks[i].buffer = tasks[j].buffer => i = j
          /\ state = "STARTED" => unusedBuffers = Buffers \ {tasks[i].buffer : i \in recorded}
          /\ state # "STARTED" => unusedBuffers = {}
      BY DEF BuffersAreConserved
    <3>4. /\ \A i \in left : i \in Int /\ i + 1 \in recorded /\ i + 1 # 1
                           /\ Tail(tasks)[i].buffer = tasks[i + 1].buffer
          /\ \A i \in recorded : i = 1 \/ (i - 1 \in left /\ i = (i - 1) + 1)
          /\ 1 \in recorded /\ Head(tasks).buffer = tasks[1].buffer
      BY <2>0, <3>1, TaskRuns
    <3> HIDE DEF recorded, left
    <3>5. ASSUME NEW i \in left, NEW j \in left, Tail(tasks)[i].buffer = Tail(tasks)[j].buffer
          PROVE  i = j
      <4>1. i + 1 \in recorded /\ j + 1 \in recorded /\ i \in Int /\ j \in Int  BY <3>4
      <4>2. tasks[i + 1].buffer = tasks[j + 1].buffer  BY <3>4, <3>5
      <4>3. i + 1 = j + 1  BY <3>3, <4>1, <4>2
      <4> QED  BY <4>1, <4>3
    <3>6. {tasks[i].buffer : i \in recorded}
            = {Tail(tasks)[i].buffer : i \in left} \cup {tasks[1].buffer}
      <4>1. ASSUME NEW i \in left
            PROVE  Tail(tasks)[i].buffer \in {tasks[j].buffer : j \in recorded}
        <5>1. i + 1 \in recorded /\ Tail(tasks)[i].buffer = tasks[i + 1].buffer  BY <3>4
        <5> QED  BY <5>1
      <4>2. ASSUME NEW i \in recorded, i # 1
            PROVE  tasks[i].buffer \in {Tail(tasks)[j].buffer : j \in left}
        <5>1. i - 1 \in left /\ i = (i - 1) + 1  BY <3>4, <4>2
        <5>2. Tail(tasks)[i - 1].buffer = tasks[(i - 1) + 1].buffer  BY <3>4, <5>1
        <5> QED  BY <5>1, <5>2
      <4>3. tasks[1].buffer \in {tasks[j].buffer : j \in recorded}
        BY <3>4
      <4> QED  BY <4>1, <4>2, <4>3
    <3>7. tasks[1].buffer \notin {Tail(tasks)[i].buffer : i \in left}
      <4>1. ASSUME NEW i \in left, Tail(tasks)[i].buffer = tasks[1].buffer PROVE FALSE
        <5>1. i + 1 \in recorded /\ i + 1 # 1 /\ tasks[i + 1].buffer = tasks[1].buffer
          BY <3>4, <4>1
        <5> QED  BY <3>3, <3>4, <5>1
      <4> QED  BY <4>1
    <3>8. unusedBuffers' = IF state' = "STARTED"
                           THEN Buffers \ {Tail(tasks)[i].buffer : i \in left} ELSE {}
      <4>1. CASE state = "STARTED"
        <5> DEFINE before == {tasks[i].buffer : i \in recorded}
                   after == {Tail(tasks)[i].buffer : i \in left}
                   returned == tasks[1].buffer
        <5>1. /\ unusedBuffers = Buffers \ before /\ returned \in Buffers
              /\ unusedBuffers' = unusedBuffers \cup {returned}
              /\ before = after \cup {returned} /\ returned \notin after
          BY <3>1, <3>2, <3>3, <3>4, <3>6, <3>7, <4>1
        <5> HIDE DEF before, after, returned
        <5>2. unusedBuffers' = Buffers \ after  BY <5>1
        <5> QED  BY <3>1, <4>1, <5>2 DEF after
      <4>2. CASE state = "TERMINATED"  BY <3>1, <3>3, <4>2
      <4> QED  BY <2>0, <4>1, <4>2
    <3>9. \A i, j \in left : Tail(tasks)[i].buffer = Tail(tasks)[j].buffer => i = j
      BY <3>5
    <3>10. tasks' = Tail(tasks)  BY <3>1
    <3>11. left = {i \in DOMAIN tasks' : tasks'[i].kind = "recorded"}  BY <3>10 DEF left
    <3> QED  BY <3>8, <3>9, <3>10, <3>11 DEF BuffersAreConserved
  <2>5. CASE PopulatePlaybackQueue \/ QueueIsFilled \/ FirstPacket \/ UNCHANGED audioVars
    BY <2>5 DEF PopulatePlaybackQueue, QueueIsFilled, FirstPacket, audioVars, poolVars,
                BuffersAreConserved
  <2>6. CASE Terminate
    BY <2>6 DEF Terminate, BuffersAreConserved
  <2> QED  BY <2>1, <2>2, <2>3, <2>4, <2>5, <2>6 DEF AudioNext
<1>3. AudioSpec => []AudioTypeOK  BY AudioTypes
<1> QED  BY <1>1, <1>2, <1>3, PTL DEF AudioSpec

(***************************************************************************)
(* The two audio threads keep their state typed and the pool of buffers    *)
(* whole (RemoteIOAudio.m:160-172, 206, 230).                              *)
(***************************************************************************)
THEOREM PoolIsKept == ASSUME BufferAssumption, AudioAssumption PROVE AudioSpec => []PoolInv
BY AudioTypes, BuffersConserved, PTL DEF PoolInv

(***************************************************************************)
(* What the speaker plays is what the low latency thread decoded, in order *)
(* and whole, whatever the two threads' steps (RemoteIOAudio.m:206-228,    *)
(* 253-294).                                                               *)
(***************************************************************************)
THEOREM SpeakerPlaysWhatWasDecoded ==
  ASSUME BufferAssumption PROVE AudioSpec => ReadsWhatWasWritten
<1>1. AudioInit => BufferInit  BY DEF AudioInit
<1>2. BufferSpec => ReadsWhatWasWritten  BY RingIsQueue
<1>3. [AudioNext]_audioVars => [BufferNext]_bufferVars  BY AudioStepIsBufferStep
<1> QED  BY <1>1, <1>2, <1>3, PTL DEF AudioSpec, BufferSpec
-----------------------------------------------------------------------------
(* What the tasks of a sequence are still to account for *)

LEMMA ConsumedType ==
  ASSUME NEW task \in Task
  PROVE  Consumed(task) \in Nat
BY AudioAssumption DEF AudioAssumption, Task, Consumed

\* f is the sums over the beginnings of s.
AddsUp(s, f) ==
  /\ f \in [0 .. Len(s) -> Nat] /\ f[0] = 0
  /\ \A n \in 1 .. Len(s) : f[n] = f[n - 1] + Consumed(s[n])

LEMMA SumExists ==
  ASSUME NEW s \in Seq(Task)
  PROVE  \E f : AddsUp(s, f) /\ Unaccounted(s) = f[Len(s)]
<1> DEFINE next == [n \in 1 .. Len(s) |-> [v \in Nat |-> v + Consumed(s[n])]]
           Of(f) == [n \in 0 .. Len(s) |-> IF n = 0 THEN 0 ELSE f[n - 1] + Consumed(s[n])]
           of == CHOOSE f : f = Of(f)
<1>1. Len(s) \in Nat /\ \A n \in 1 .. Len(s) : Consumed(s[n]) \in Nat
  BY ConsumedType
<1>2. next \in [1 .. Len(s) -> [Nat -> Nat]]
  BY <1>1
<1>3. PICK f \in [0 .. Len(s) -> Nat] :
        f[0] = 0 /\ \A n \in 1 .. Len(s) : f[n] = next[n][f[n - 1]]
  <2>1. PICK V, base, m, steps : V = Nat /\ base = 0 /\ m = Len(s) /\ steps = next
    OBVIOUS
  <2>2. base \in V /\ m \in Nat /\ steps \in [1 .. m -> [V -> V]]
    BY <1>1, <1>2, <2>1
  <2>3. \E f \in [0 .. m -> V] : f[0] = base /\ \A n \in 1 .. m : f[n] = steps[n][f[n - 1]]
    BY <2>2, RecursionExists, SMTT(60)
  <2> HIDE DEF next
  <2> QED  BY <2>1, <2>3
<1>4. \A n \in 1 .. Len(s) : f[n] = f[n - 1] + Consumed(s[n])
  <2> SUFFICES ASSUME NEW n \in 1 .. Len(s) PROVE f[n] = f[n - 1] + Consumed(s[n])
    OBVIOUS
  <2>1. n - 1 \in 0 .. Len(s)
    BY <1>1
  <2>2. f[n - 1] \in Nat
    BY <2>1
  <2> QED  BY <1>3, <2>2
<1>5. f = Of(f)
  <2>1. \A n \in 0 .. Len(s) : n = 0 \/ n \in 1 .. Len(s)
    BY <1>1
  <2>2. \A n \in 0 .. Len(s) : f[n] = Of(f)[n]
    BY <1>3, <1>4, <2>1
  <2>3. /\ DOMAIN f = 0 .. Len(s) /\ f = [n \in 0 .. Len(s) |-> f[n]]
        /\ DOMAIN Of(f) = 0 .. Len(s) /\ Of(f) = [n \in 0 .. Len(s) |-> Of(f)[n]]
    BY <1>3
  <2> HIDE DEF Of
  <2> QED  BY <2>2, <2>3
<1> HIDE DEF Of
<1>6. of = Of(of)
  BY <1>5
<1>7. Unaccounted(s) = of[Len(s)]
  BY DEF Unaccounted, Of
<1> HIDE DEF of
<1>8. \A n \in 0 .. Len(s) : of[n] = IF n = 0 THEN 0 ELSE of[n - 1] + Consumed(s[n])
  BY <1>6 DEF Of
<1>9. f[0] = of[0] /\ \A n \in 1 .. Len(s) : f[n - 1] = of[n - 1] => f[n] = of[n]
  <2>1. 0 \in 0 .. Len(s) /\ f[0] = of[0]
    BY <1>1, <1>3, <1>8
  <2>2. ASSUME NEW n \in 1 .. Len(s), f[n - 1] = of[n - 1] PROVE f[n] = of[n]
    <3>1. n \in 0 .. Len(s) /\ n # 0
      BY <1>1
    <3>2. of[n] = of[n - 1] + Consumed(s[n])
      BY <1>8, <3>1
    <3> QED  BY <1>4, <2>2, <3>2
  <2> QED  BY <2>1, <2>2
<1>10. f[Len(s)] = of[Len(s)]
  <2>1. \A n \in 0 .. Len(s) : f[n] = of[n]
    BY <1>1, <1>9, RecursionUnique, ZenonT(60)
  <2> QED  BY <1>1, <2>1
<1> QED
  BY <1>3, <1>4, <1>7, <1>10 DEF AddsUp

LEMMA SumType == \A s \in Seq(Task) : Unaccounted(s) \in Nat
<1> SUFFICES ASSUME NEW s \in Seq(Task) PROVE Unaccounted(s) \in Nat
  OBVIOUS
<1>1. PICK f : AddsUp(s, f) /\ Unaccounted(s) = f[Len(s)]
  BY SumExists
<1>2. Len(s) \in 0 .. Len(s)
  OBVIOUS
<1> QED  BY <1>1, <1>2 DEF AddsUp

LEMMA SumOfNone ==
  Unaccounted(<<>>) = 0
<1>1. <<>> \in Seq(Task) /\ Len(<<>>) = 0
  OBVIOUS
<1>2. PICK f : AddsUp(<<>>, f) /\ Unaccounted(<<>>) = f[Len(<<>>)]
  BY <1>1, SumExists
<1> QED
  BY <1>1, <1>2 DEF AddsUp

\* A task is posted.
LEMMA SumOfAppend ==
  ASSUME NEW s \in Seq(Task), NEW task \in Task
  PROVE  /\ Unaccounted(s) \in Nat
         /\ Unaccounted(Append(s, task)) = Unaccounted(s) + Consumed(task)
<1> DEFINE t == Append(s, task)
           l == Len(s)
<1>1. /\ t \in Seq(Task) /\ Len(t) = l + 1 /\ l \in Nat /\ t[l + 1] = task
      /\ \A n \in 1 .. l : t[n] = s[n]
  OBVIOUS
<1> HIDE DEF t
<1>2. PICK f : AddsUp(s, f) /\ Unaccounted(s) = f[l]
  BY SumExists
<1>3. PICK g : AddsUp(t, g) /\ Unaccounted(t) = g[l + 1]
  BY <1>1, SumExists
<1> HIDE DEF l
<1>4. f[0] = g[0] /\ \A n \in 1 .. l : f[n - 1] = g[n - 1] => f[n] = g[n]
  <2>1. f[0] = g[0]
    BY <1>2, <1>3 DEF AddsUp
  <2>2. ASSUME NEW n \in 1 .. l, f[n - 1] = g[n - 1] PROVE f[n] = g[n]
    <3>1. n \in 1 .. l + 1 /\ t[n] = s[n]
      BY <1>1
    <3> QED  BY <1>1, <1>2, <1>3, <2>2, <3>1 DEF AddsUp, l
  <2> QED  BY <2>1, <2>2
<1>5. f[l] = g[l]
  <2>1. \A n \in 0 .. l : f[n] = g[n]
    <3>1. l \in Nat
      BY <1>1
    <3> QED  BY <3>1, <1>4, RecursionUnique, ZenonT(60)
  <2> QED  BY <1>1, <2>1
<1>6. l + 1 \in 1 .. l + 1 /\ (l + 1) - 1 = l /\ l \in 0 .. l
  BY <1>1
<1>7. f[l] \in Nat
  BY <1>2, <1>6 DEF AddsUp, l
<1>8. g[l + 1] = g[l] + Consumed(task)
  BY <1>1, <1>3, <1>6 DEF AddsUp
<1> QED
  BY <1>2, <1>3, <1>5, <1>7, <1>8 DEF t

LEMMA SumOfTail ==
  ASSUME NEW s \in Seq(Task), s # <<>>
  PROVE  Unaccounted(s) = Consumed(Head(s)) + Unaccounted(Tail(s))
<1> DEFINE Holds(n) == \A u \in Seq(Task) : Len(u) = n + 1 =>
                         Unaccounted(u) = Consumed(Head(u)) + Unaccounted(Tail(u))
           S == {n \in Nat : Holds(n)}
<1>0. \A t \in Task : Consumed(t) \in Nat
  BY ConsumedType
<1>1. 0 \in S
  <2>1. ASSUME NEW u \in Seq(Task), Len(u) = 1
        PROVE  Unaccounted(u) = Consumed(Head(u)) + Unaccounted(Tail(u))
    <3>1. u # <<>> /\ <<>> \in Seq(Task)
      <4>1. Len(<<>>) = 0 /\ <<>> \in Seq(Task) /\ 0 # 1
        OBVIOUS
      <4>2. u # <<>>
        BY <2>1, <4>1, Zenon
      <4> QED  BY <4>1, <4>2
    <3>2. PICK v \in Seq(Task), t \in Task : u = Append(v, t)
      BY <3>1, SequenceEmptyOrAppend
    <3>3. v = <<>>
      BY <2>1, <3>2
    <3>4. Head(u) = t /\ Tail(u) = <<>>
      BY <3>2, <3>3
    <3>5. Unaccounted(u) = Unaccounted(<<>>) + Consumed(t)
      BY <3>1, <3>2, <3>3, SumOfAppend
    <3>6. Consumed(t) \in Nat
      BY <1>0
    <3>7. Unaccounted(u) = Consumed(t) + Unaccounted(<<>>)
      BY <3>5, <3>6, SumOfNone
    <3> QED  BY <3>4, <3>7, Zenon
  <2> QED  BY <2>1
<1>2. ASSUME NEW n \in Nat, n \in S PROVE n + 1 \in S
  <2> SUFFICES ASSUME NEW u \in Seq(Task), Len(u) = (n + 1) + 1
               PROVE  Unaccounted(u) = Consumed(Head(u)) + Unaccounted(Tail(u))
    OBVIOUS
  <2>1. PICK v \in Seq(Task), t \in Task : u = Append(v, t)
    <3>1. u # <<>>
      OBVIOUS
    <3> QED  BY <3>1, SequenceEmptyOrAppend
  <2>2. /\ Len(v) = n + 1 /\ v # <<>> /\ Head(v) \in Task /\ Tail(v) \in Seq(Task)
        /\ Head(u) = Head(v) /\ Tail(u) = Append(Tail(v), t)
    BY <2>1
  <2>3. Unaccounted(v) = Consumed(Head(v)) + Unaccounted(Tail(v))
    BY <1>2, <2>2
  <2>4. /\ Unaccounted(u) = Unaccounted(v) + Consumed(t)
        /\ Unaccounted(Tail(u)) = Unaccounted(Tail(v)) + Consumed(t)
        /\ Unaccounted(Tail(v)) \in Nat
    BY <2>1, <2>2, SumOfAppend
  <2> QED  BY <1>0, <2>2, <2>3, <2>4
<1>3. Len(s) - 1 \in Nat /\ Len(s) = (Len(s) - 1) + 1
  OBVIOUS
<1> HIDE DEF S
<1>4. Len(s) - 1 \in S
  BY <1>1, <1>2, <1>3, InductionOnNat
<1> QED
  BY <1>3, <1>4 DEF S

\* The tasks of s that are requests.
Late(s) == {i \in DOMAIN s : s[i].kind = "playback"}

\* With at most two of them that is at most two requests' amount.
LEMMA LateAmount ==
  ASSUME NEW m \in Nat, \A r \in Requests : r <= m,
         NEW s \in Seq(Task)
  PROVE  /\ IsFiniteSet(Late(s)) /\ Cardinality(Late(s)) \in Nat
         /\ Unaccounted(s) \in Nat
         /\ Cardinality(Late(s)) = 0 => Unaccounted(s) = 0
         /\ Cardinality(Late(s)) = 1 => Unaccounted(s) <= m
         /\ Cardinality(Late(s)) = 2 => Unaccounted(s) <= 2 * m
<1> DEFINE Bounded(u) == /\ IsFiniteSet(Late(u)) /\ Cardinality(Late(u)) \in Nat
                         /\ Unaccounted(u) \in Nat
                         /\ Cardinality(Late(u)) = 0 => Unaccounted(u) = 0
                         /\ Cardinality(Late(u)) = 1 => Unaccounted(u) <= m
                         /\ Cardinality(Late(u)) = 2 => Unaccounted(u) <= 2 * m
           S == {n \in Nat : \A u \in Seq(Task) : Len(u) = n => Bounded(u)}
<1>1. 0 \in S
  <2>1. Late(<<>>) = {} /\ Unaccounted(<<>>) = 0
    BY SumOfNone DEF Late
  <2>2. Bounded(<<>>)
    <3>1. IsFiniteSet({}) /\ Cardinality({}) = 0
      BY FS_EmptySet
    <3>2. IsFiniteSet(Late(<<>>)) /\ Cardinality(Late(<<>>)) = 0
      BY <2>1, <3>1, Zenon
    <3> QED  BY <2>1, <3>2
  <2>3. \A u \in Seq(Task) : Len(u) = 0 => u = <<>>
    OBVIOUS
  <2> HIDE DEF Bounded
  <2> QED  BY <2>2, <2>3
<1>2. ASSUME NEW n \in Nat, n \in S PROVE n + 1 \in S
  <2> SUFFICES ASSUME NEW u \in Seq(Task), Len(u) = n + 1 PROVE Bounded(u)
    OBVIOUS
  <2>1. PICK v \in Seq(Task), t \in Task : u = Append(v, t)
    <3>1. u # <<>>
      OBVIOUS
    <3> QED  BY <3>1, SequenceEmptyOrAppend
  <2>2. Len(v) = n /\ Bounded(v)
    BY <1>2, <2>1
  <2>3. Unaccounted(u) = Unaccounted(v) + Consumed(t) /\ Unaccounted(v) \in Nat
    BY <2>1, SumOfAppend
  <2>4. CASE t.kind = "playback"
    <3>1. Consumed(t) \in Nat /\ Consumed(t) <= m
      <4>1. t.requested \in Requests
        BY <2>4 DEF Task
      <4>2. t.requested \in Nat /\ t.requested <= m
        BY <4>1, AudioAssumption DEF AudioAssumption
      <4>3. Consumed(t) = t.requested \/ Consumed(t) = 0
        BY DEF Consumed
      <4> QED  BY <4>2, <4>3
    <3>2. Late(u) = Late(v) \cup {n + 1} /\ n + 1 \notin Late(v)
      BY <2>1, <2>2, <2>4, PostedTask DEF Late
    <3>3. IsFiniteSet(Late(u)) /\ Cardinality(Late(u)) = Cardinality(Late(v)) + 1
      BY <2>2, <3>2, FS_AddElement
    <3> QED  BY <2>2, <2>3, <3>1, <3>3
  <2>5. CASE t.kind # "playback"
    <3>1. Consumed(t) = 0
      BY <2>5 DEF Consumed
    <3>2. Late(u) = Late(v)
      BY <2>1, <2>2, <2>5, PostedTask DEF Late
    <3> QED  BY <2>2, <2>3, <3>1, <3>2
  <2> QED  BY <2>4, <2>5
<1> HIDE DEF S
<1>3. Len(s) \in S
  <2>1. Len(s) \in Nat
    OBVIOUS
  <2> QED  BY <1>1, <1>2, <2>1, InductionOnNat
<1> QED
  BY <1>3 DEF S
-----------------------------------------------------------------------------
(* The refill keeps ahead *)

\* Between two requests the low latency thread believes in nothing or in
\* enough for one more, and in nothing before the first packet.
RefillInv ==
  /\ ~haveReceivedDataYet => bytesInPlaybackBuffer = 0
  /\ filling = 0 /\ bytesInPlaybackBuffer > 0 =>
       \A r \in Requests : /\ bytesInPlaybackBuffer >= r
                           /\ SteadyRequests => bytesInPlaybackBuffer >= MinSafeBufferSize(r)
  /\ NeverOverestimates

LEMMA Amounts ==
  ASSUME AudioTypeOK
  PROVE  /\ count \in Nat /\ bytesInPlaybackBuffer \in Nat /\ tasks \in Seq(Task)
         /\ Unaccounted(tasks) \in Nat
         /\ Requests \subseteq Nat \ {0} /\ DecodedFrameSize \in Nat
<1>1. tasks \in Seq(Task) /\ bytesInPlaybackBuffer \in Nat /\ count \in Nat
  BY DEF AudioTypeOK, BufferTypeOK
<1>2. Unaccounted(tasks) \in Nat
  BY <1>1, SumType
<1> QED  BY <1>1, <1>2, AudioAssumption DEF AudioAssumption

\* A request comes, in time or too late.
LEMMA PlaybackCallbackRefill ==
  ASSUME AudioTypeOK, RefillInv, NEW requested \in Requests, PlaybackCallback(requested)
  PROVE  RefillInv'
<1> DEFINE task == [kind |-> "playback", requested |-> requested, available |-> count]
<1>1. requested \in Nat /\ task \in Task
  BY Amounts DEF Task
<1>2. /\ tasks' = Append(tasks, task)
      /\ count' = IF count < requested THEN count ELSE count - requested
      /\ UNCHANGED <<state, filling, bytesInPlaybackBuffer, haveReceivedDataYet>>
  BY DEF PlaybackCallback, Discard, bufferVars, managerVars
<1>3. Consumed(task) = IF count < requested THEN 0 ELSE requested
  BY <1>1, Amounts DEF Consumed
<1> HIDE DEF task
<1>4. Unaccounted(Append(tasks, task)) = Unaccounted(tasks) + Consumed(task)
  BY <1>1, Amounts, SumOfAppend
<1>5. count' + Unaccounted(tasks') = count + Unaccounted(tasks)
  BY <1>1, <1>2, <1>3, <1>4, Amounts
<1>6. NeverOverestimates'
  BY <1>2, <1>5 DEF RefillInv, NeverOverestimates
<1> QED
  BY <1>2, <1>6 DEF RefillInv

LEMMA RequestedDataRefill ==
  ASSUME AudioTypeOK, RefillInv, OnRequestedPlaybackData
  PROVE  RefillInv'
<1>1. /\ filling = 0 /\ tasks # <<>> /\ Head(tasks).kind = "playback"
      /\ tasks' = Tail(tasks)
      /\ UNCHANGED <<count, state, haveReceivedDataYet>>
  BY DEF OnRequestedPlaybackData, NextTask, bufferVars
<1>2. CASE state = "TERMINATED"
  BY <1>1, <1>2 DEF OnRequestedPlaybackData, RefillInv, NeverOverestimates
<1>3. CASE state # "TERMINATED"
  <2>1. PICK r \in Requests : r = Head(tasks).requested
    <3>1. Head(tasks) \in Task
      BY <1>1, Amounts
    <3> QED  BY <1>1, <3>1 DEF Task
  <2>2. /\ filling' = r
        /\ bytesInPlaybackBuffer' = IF bytesInPlaybackBuffer >= r
                                    THEN bytesInPlaybackBuffer - r
                                    ELSE bytesInPlaybackBuffer
    BY <1>3, <2>1 DEF OnRequestedPlaybackData
  <2>3. r \in Nat /\ r # 0
    BY Amounts
  <2>4. bytesInPlaybackBuffer = 0 \/ bytesInPlaybackBuffer >= r
    BY <1>1, Amounts DEF RefillInv
  <2>5. Consumed(Head(tasks)) = r \/ Consumed(Head(tasks)) = 0
    BY <2>1 DEF Consumed
  <2>6. Unaccounted(tasks) = Consumed(Head(tasks)) + Unaccounted(tasks')
    BY <1>1, Amounts, SumOfTail
  <2>7. Unaccounted(tasks') \in Nat
    <3>1. Tail(tasks) \in Seq(Task)
      BY <1>1, Amounts
    <3> QED  BY <1>1, <3>1, SumType
  <2>8. NeverOverestimates'
    BY <1>1, <2>2, <2>3, <2>4, <2>5, <2>6, <2>7, Amounts DEF RefillInv, NeverOverestimates
  <2>9. ~haveReceivedDataYet' => bytesInPlaybackBuffer' = 0
    BY <1>1, <2>2, <2>3 DEF RefillInv
  <2> QED  BY <2>2, <2>3, <2>8, <2>9 DEF RefillInv
<1> QED  BY <1>2, <1>3

LEMMA PopulateRefill ==
  ASSUME AudioTypeOK, RefillInv, PopulatePlaybackQueue
  PROVE  RefillInv'
<1>1. PICK data \in Chunk : /\ Len(data) \in FrameLengths /\ count' = count + Len(data)
                            /\ bytesInPlaybackBuffer' = bytesInPlaybackBuffer + Len(data)
  BY DEF PopulatePlaybackQueue, EnqueueData
<1>2. /\ filling # 0 /\ haveReceivedDataYet
      /\ UNCHANGED <<state, tasks, filling, haveReceivedDataYet>>
  BY DEF PopulatePlaybackQueue
<1>3. Len(data) \in Nat
  BY <1>1, AudioAssumption DEF AudioAssumption
<1> QED  BY <1>1, <1>2, <1>3, Amounts DEF RefillInv, NeverOverestimates

\* What is enough for this request is enough for another.
LEMMA FilledRefill ==
  ASSUME AudioTypeOK, RefillInv, QueueIsFilled
  PROVE  RefillInv'
<1>1. /\ filling # 0 /\ filling' = 0
      /\ bytesInPlaybackBuffer >= MinSafeBufferSize(filling) \/ ~haveReceivedDataYet
      /\ UNCHANGED <<count, state, tasks, bytesInPlaybackBuffer, haveReceivedDataYet>>
  BY DEF QueueIsFilled, bufferVars
<1>2. CASE ~haveReceivedDataYet
  BY <1>1, <1>2, Amounts DEF RefillInv, NeverOverestimates
<1>3. CASE bytesInPlaybackBuffer >= MinSafeBufferSize(filling)
  <2>1. filling \in Requests
    BY <1>1 DEF AudioTypeOK
  <2>2. ASSUME NEW r \in Requests
        PROVE  /\ bytesInPlaybackBuffer >= r
               /\ SteadyRequests => bytesInPlaybackBuffer >= MinSafeBufferSize(r)
    <3>1. /\ r \in Nat /\ filling \in Nat /\ DecodedFrameSize \in Nat
          /\ bytesInPlaybackBuffer \in Nat
      BY <2>1, Amounts
    <3>2. r <= 3 * filling \/ r <= 3 * DecodedFrameSize
      BY <2>1, AudioAssumption DEF AudioAssumption
    <3>3. SteadyRequests => r <= Greatest(filling, DecodedFrameSize)
      BY <2>1 DEF SteadyRequests
    <3> QED  BY <1>3, <3>1, <3>2, <3>3 DEF MinSafeBufferSize, Greatest
  <2> QED  BY <1>1, <2>2 DEF RefillInv, NeverOverestimates
<1> QED  BY <1>1, <1>2, <1>3

LEMMA RecordingRefill ==
  ASSUME AudioTypeOK, RefillInv, NEW buf \in Buffers, RecordingCallback(buf)
  PROVE  RefillInv'
<1> DEFINE task == [kind |-> "recorded", buffer |-> buf]
<1>1. task \in Task /\ Consumed(task) = 0
  BY DEF Task, Consumed
<1>2. /\ tasks' = Append(tasks, task)
      /\ UNCHANGED <<count, state, filling, bytesInPlaybackBuffer, haveReceivedDataYet>>
  BY DEF RecordingCallback, bufferVars, managerVars
<1> HIDE DEF task
<1>3. Unaccounted(Append(tasks, task)) = Unaccounted(tasks) + Consumed(task)
  BY <1>1, Amounts, SumOfAppend
<1>4. Unaccounted(tasks') = Unaccounted(tasks)
  BY <1>1, <1>2, <1>3, Amounts
<1>5. NeverOverestimates'
  BY <1>2, <1>4 DEF RefillInv, NeverOverestimates
<1> QED
  BY <1>2, <1>5 DEF RefillInv

LEMMA RecordedRefill ==
  ASSUME AudioTypeOK, RefillInv, OnRecordedData
  PROVE  RefillInv'
<1>1. /\ tasks # <<>> /\ Head(tasks).kind = "recorded" /\ tasks' = Tail(tasks)
      /\ UNCHANGED <<count, state, filling, bytesInPlaybackBuffer, haveReceivedDataYet>>
  BY DEF OnRecordedData, NextTask, bufferVars, managerVars
<1>2. Consumed(Head(tasks)) = 0
  BY <1>1 DEF Consumed
<1>3. Unaccounted(tasks) = Consumed(Head(tasks)) + Unaccounted(tasks')
  BY <1>1, Amounts, SumOfTail
<1>4. Unaccounted(tasks') \in Nat
  <2>1. Tail(tasks) \in Seq(Task)
    BY <1>1, Amounts
  <2> QED  BY <1>1, <2>1, SumType
<1>5. Unaccounted(tasks') = Unaccounted(tasks)
  BY <1>2, <1>3, <1>4
<1>6. NeverOverestimates'
  BY <1>1, <1>5 DEF RefillInv, NeverOverestimates
<1> QED
  BY <1>1, <1>6 DEF RefillInv

LEMMA RefillStep == AudioTypeOK /\ RefillInv /\ [AudioNext]_audioVars => RefillInv'
<1> SUFFICES ASSUME AudioTypeOK, RefillInv, [AudioNext]_audioVars PROVE RefillInv'
  OBVIOUS
<1>1. ASSUME NEW requested \in Requests, PlaybackCallback(requested) PROVE RefillInv'
  BY <1>1, PlaybackCallbackRefill
<1>2. ASSUME NEW buf \in Buffers, RecordingCallback(buf) PROVE RefillInv'
  BY <1>2, RecordingRefill
<1>3. CASE OnRequestedPlaybackData
  BY <1>3, RequestedDataRefill
<1>4. CASE PopulatePlaybackQueue
  BY <1>4, PopulateRefill
<1>5. CASE QueueIsFilled
  BY <1>5, FilledRefill
<1>6. CASE OnRecordedData
  BY <1>6, RecordedRefill
<1>7. CASE FirstPacket
  <2>1. /\ ~haveReceivedDataYet /\ haveReceivedDataYet'
        /\ UNCHANGED <<count, state, tasks, filling, bytesInPlaybackBuffer>>
    BY <1>7 DEF FirstPacket, bufferVars
  <2> QED  BY <2>1, Amounts DEF RefillInv, NeverOverestimates
<1>8. CASE Terminate
  <2>1. /\ state' = "TERMINATED"
        /\ UNCHANGED <<count, tasks, filling, bytesInPlaybackBuffer, haveReceivedDataYet>>
    BY <1>8 DEF Terminate, bufferVars, managerVars
  <2> QED  BY <2>1 DEF RefillInv, NeverOverestimates
<1>9. CASE UNCHANGED audioVars
  <2>1. UNCHANGED <<count, state, tasks, filling, bytesInPlaybackBuffer, haveReceivedDataYet>>
    BY <1>9 DEF audioVars, bufferVars, managerVars
  <2> QED  BY <2>1 DEF RefillInv, NeverOverestimates
<1> QED
  BY <1>1, <1>2, <1>3, <1>4, <1>5, <1>6, <1>7, <1>8, <1>9 DEF AudioNext

\* At most two requests wait, each of at most the larger of a request and a
\* frame, and three such amounts were there.
LEMMA RefillSuffices == AudioTypeOK /\ RefillInv => RefillKeepsAhead
<1> SUFFICES ASSUME AudioTypeOK, RefillInv PROVE RefillKeepsAhead
  OBVIOUS
<1>1. NeverOverestimates
  BY DEF RefillInv
<1>2. StarvesOnlyWhenLate
  <2> SUFFICES ASSUME SteadyRequests, state = "STARTED", filling = 0,
                      bytesInPlaybackBuffer > 0, Cardinality(Late(tasks)) < 3,
                      NEW r \in Requests
               PROVE  count >= r
    BY DEF StarvesOnlyWhenLate, Late
  <2> DEFINE m == Greatest(r, DecodedFrameSize)
  <2>1. m \in Nat /\ r <= m /\ r \in Nat
    BY Amounts DEF Greatest
  <2>2. \A q \in Requests : q <= m
    BY DEF SteadyRequests
  <2>3. bytesInPlaybackBuffer >= 3 * m
    BY DEF RefillInv, MinSafeBufferSize
  <2>4. bytesInPlaybackBuffer <= count + Unaccounted(tasks)
    BY <1>1 DEF NeverOverestimates
  <2> HIDE DEF m
  <2>5. PICK q \in Nat : q = Cardinality(Late(tasks))
    BY <2>1, <2>2, Amounts, LateAmount
  <2>6. /\ q = 0 => Unaccounted(tasks) = 0
        /\ q = 1 => Unaccounted(tasks) <= m
        /\ q = 2 => Unaccounted(tasks) <= 2 * m
    BY <2>1, <2>2, <2>5, Amounts, LateAmount
  <2>7. q = 0 \/ q = 1 \/ q = 2
    BY <2>5
  <2> QED  BY <2>1, <2>3, <2>4, <2>6, <2>7, Amounts
<1> QED  BY <1>1, <1>2 DEF RefillKeepsAhead

(***************************************************************************)
(* However the requests, refills and late callbacks overlap, the low       *)
(* latency thread never believes in more sound than there is, and lets     *)
(* the speaker starve only when it is three requests behind                *)
(* (CallAudioManager.m:42-55, RemoteIOAudio.m:251-294).                    *)
(***************************************************************************)
THEOREM RefillIsAhead == AudioSpec => []RefillKeepsAhead
<1>1. AudioInit => RefillInv
  <2>1. AudioInit => Unaccounted(tasks) = 0
    BY SumOfNone DEF AudioInit
  <2> QED  BY <2>1 DEF AudioInit, BufferInit, RefillInv, NeverOverestimates
<1>2. AudioSpec => []AudioTypeOK
  BY AudioTypes, BufferAssumption, AudioAssumption
<1> QED
  BY <1>1, <1>2, RefillStep, RefillSuffices, PTL DEF AudioSpec
-----------------------------------------------------------------------------
(* The numbers of the packets of a stream *)

LEMMA TurnsAdd ==
  ASSUME NEW n \in Nat, NEW j \in Int, NEW k \in Int
  PROVE  j * n \in Int /\ (j + 1) * n = j * n + n /\ (j - k) * n = j * n - k * n
<1>1. j * n \in Int
  OBVIOUS
<1>2. (j + 1) * n = j * n + n
  OBVIOUS
<1>3. (j - k) * n = j * n - k * n
  OBVIOUS
<1> QED  BY <1>1, <1>2, <1>3

LEMMA FewTurns ==
  ASSUME NEW n \in Nat, NEW j \in Int, j * n < 2 * n, -(2 * n) < j * n
  PROVE  j \in {-1, 0, 1}
<1>1. CASE j >= 2
  <2>1. (j - 2) * n >= 0
    BY <1>1
  <2>2. (j - 2) * n = j * n - 2 * n
    OBVIOUS
  <2> QED  BY <2>1, <2>2
<1>2. CASE j <= -2
  <2>1. (-2 - j) * n >= 0
    BY <1>2
  <2>2. (-2 - j) * n = -(2 * n) - j * n
    OBVIOUS
  <2> QED  BY <2>1, <2>2
<1> QED  BY <1>1, <1>2

\* s is what the circle makes of the number long.
Shortens(s, long) ==
  /\ s \in SequenceNumber /\ long \in Int
  /\ \E k \in Int : long = s + k * (2 * HalfRange)

LEMMA ShortensAfter ==
  ASSUME NEW s, NEW long, Shortens(s, long)
  PROVE  Shortens(After(s), long + 1)
<1>1. 2 * HalfRange \in Nat /\ HalfRange \in Nat /\ HalfRange > 0
  BY JitterAssumption
<1>2. PICK n \in Nat : n = 2 * HalfRange
  BY <1>1
<1>3. PICK k \in Int : long = s + k * n
  BY <1>2 DEF Shortens
<1>4. s \in 0 .. n - 1 /\ long \in Int
  BY <1>2 DEF Shortens, SequenceNumber
<1>5. k * n \in Int /\ (k + 1) * n = k * n + n
  BY TurnsAdd
<1>6. CASE s + 1 < n
  <2>1. After(s) = s + 1 /\ After(s) \in SequenceNumber
    BY <1>1, <1>2, <1>4, <1>6 DEF After, Wrap, SequenceNumber
  <2>2. long + 1 = (s + 1) + k * n
    BY <1>3, <1>4, <1>5
  <2> QED  BY <1>2, <1>4, <2>1, <2>2 DEF Shortens
<1>7. CASE s + 1 = n
  <2>1. After(s) = 0 /\ After(s) \in SequenceNumber
    BY <1>1, <1>2, <1>4, <1>7 DEF After, Wrap, SequenceNumber
  <2>2. long + 1 = 0 + (k + 1) * n /\ k + 1 \in Int
    BY <1>3, <1>4, <1>5, <1>7
  <2> QED  BY <1>2, <1>4, <2>1, <2>2 DEF Shortens
<1> QED  BY <1>4, <1>6, <1>7

\* The short way is the long one, where that is less than half of the circle.
LEMMA ShortWay ==
  ASSUME NEW s1, NEW long1, Shortens(s1, long1), NEW s2, NEW long2, Shortens(s2, long2),
         long2 - long1 \in -HalfRange .. HalfRange - 1
  PROVE  CongruentDifference(s1, s2) = long2 - long1
<1>1. 2 * HalfRange \in Nat /\ HalfRange \in Nat /\ HalfRange > 0
  BY JitterAssumption
<1>2. PICK n \in Nat : n = 2 * HalfRange
  BY <1>1
<1>3. PICK j \in Int : long1 = s1 + j * n
  BY <1>2 DEF Shortens
<1>4. PICK k \in Int : long2 = s2 + k * n
  BY <1>2 DEF Shortens
<1>5. s1 \in 0 .. n - 1 /\ s2 \in 0 .. n - 1
  BY <1>2 DEF Shortens, SequenceNumber
<1>6. PICK a \in Int, b \in Int : a = j * n /\ b = k * n
  BY TurnsAdd
<1>7. (k - j) * n = b - a /\ k - j \in Int
  BY <1>6, TurnsAdd
<1>8. b - a < 2 * n /\ -(2 * n) < b - a
  BY <1>1, <1>2, <1>3, <1>4, <1>5, <1>6
<1>9. k - j \in {-1, 0, 1}
  BY <1>7, <1>8, FewTurns
<1>10. b - a = -n \/ b - a = 0 \/ b - a = n
  <2>1. (-1) * n = -n /\ 0 * n = 0 /\ 1 * n = n
    OBVIOUS
  <2> QED  BY <1>7, <1>9, <2>1
<1> QED
  BY <1>1, <1>2, <1>3, <1>4, <1>5, <1>6, <1>10 DEF CongruentDifference
-----------------------------------------------------------------------------
(* The inductive invariant of the stream *)

LEMMA Quarters ==
  /\ HalfRange \in Nat /\ QuarterRange \in Nat /\ QuarterRange >= 1
  /\ HalfRange = 2 * QuarterRange
BY JitterAssumption, StreamAssumption DEF QuarterRange

\* The stream began with the number begin, and the two ends count alike.
Numbered(begin) ==
  /\ Shortens(nextSequenceNumber, begin + sent)
  /\ Shortens(outgoing.prevShortId, outgoing.prevLongId)
  /\ begin + sent - outgoing.prevLongId \in 0 .. QuarterRange
  /\ Shortens(incoming.prevShortId, incoming.prevLongId)
  /\ begin + latest - incoming.prevLongId \in 0 .. QuarterRange - 1
  /\ \A m \in network : m.iv = begin + m.index /\ Shortens(m.sequenceNumber, m.iv)

\* Every packet that waits is where its index says, and so is the read head
\* once there was a packet.
Placed(begin) ==
  /\ \A p \in resultPriorityQueue :
       /\ p.audioData \in 0 .. MaxPackets - 1
       /\ Shortens(p.sequenceNumber, begin + p.audioData)
       /\ CongruentDifference(readHeadMin, p.sequenceNumber) = p.audioData - head
  /\ Shortens(readHeadMin, begin + head) \/ (OutOfSync /\ resultPriorityQueue = {})

PacketsInv ==
  /\ StreamTypeOK /\ JitterInv
  /\ \E begin \in 0 .. QuarterRange - 1 : Numbered(begin) /\ Placed(begin)

LEMMA StreamStarts == StreamInit => PacketsInv
<1> SUFFICES ASSUME StreamInit PROVE PacketsInv
  OBVIOUS
<1>1. JitterInit /\ JitterInv
  BY InitInv DEF StreamInit
<1>2. 0 \in SequenceNumber /\ nextSequenceNumber \in SequenceNumber
  BY Quarters DEF StreamInit, SequenceNumber
<1>3. StreamTypeOK
  <2>1. IsFiniteSet({})
    BY FS_EmptySet
  <2>2. outgoing \in SequenceCounter /\ incoming \in SequenceCounter
    BY <1>2 DEF StreamInit, SequenceCounter
  <2>3. sent \in 0 .. MaxPackets /\ latest \in 0 .. MaxPackets - 1 /\ head \in Int
    BY StreamAssumption DEF StreamInit
  <2> QED  BY <1>1, <1>2, <2>1, <2>2, <2>3 DEF StreamTypeOK, StreamInit, JitterInv
<1>4. ASSUME NEW s \in SequenceNumber PROVE Shortens(s, s)
  <2>1. s \in Int /\ s = s + 0 * (2 * HalfRange)
    BY Quarters DEF SequenceNumber
  <2> QED  BY <2>1 DEF Shortens
<1>5. Numbered(nextSequenceNumber)
  <2>1. /\ nextSequenceNumber + sent = nextSequenceNumber
        /\ nextSequenceNumber + sent - outgoing.prevLongId \in 0 .. QuarterRange
        /\ nextSequenceNumber + latest - incoming.prevLongId \in 0 .. QuarterRange - 1
        /\ network = {}
        /\ outgoing.prevShortId = 0 /\ outgoing.prevLongId = 0
        /\ incoming.prevShortId = 0 /\ incoming.prevLongId = 0
    BY Quarters DEF StreamInit
  <2>2. Shortens(0, 0) /\ Shortens(nextSequenceNumber, nextSequenceNumber)
    BY <1>2, <1>4
  <2> QED  BY <2>1, <2>2 DEF Numbered
<1>6. Placed(nextSequenceNumber)
  BY <1>1, JitterAssumption DEF JitterInit, Placed, OutOfSync
<1>7. nextSequenceNumber \in 0 .. QuarterRange - 1
  BY DEF StreamInit
<1> QED  BY <1>1, <1>3, <1>5, <1>6, <1>7 DEF PacketsInv

LEMMA SendPacketInv ==
  ASSUME PacketsInv, SendPacket PROVE PacketsInv'
<1>1. PICK begin \in 0 .. QuarterRange - 1 : Numbered(begin) /\ Placed(begin)
  BY DEF PacketsInv
<1>2. /\ nextSequenceNumber \in SequenceNumber /\ outgoing \in SequenceCounter
      /\ sent \in Nat /\ sent < MaxPackets /\ begin \in Nat
      /\ outgoing.prevShortId \in SequenceNumber /\ outgoing.prevLongId \in Int
  BY <1>1, Quarters, StreamAssumption
     DEF PacketsInv, StreamTypeOK, SendPacket, SequenceCounter
<1>3. CongruentDifference(outgoing.prevShortId, nextSequenceNumber)
        = begin + sent - outgoing.prevLongId
  <2>1. begin + sent - outgoing.prevLongId \in -HalfRange .. HalfRange - 1
    BY <1>1, <1>2, Quarters DEF Numbered
  <2>2. PICK s \in SequenceNumber, long \in Int, x \in SequenceNumber, y \in Int :
          /\ s = nextSequenceNumber /\ long = begin + sent
          /\ x = outgoing.prevShortId /\ y = outgoing.prevLongId
    BY <1>2
  <2>3. Shortens(s, long) /\ Shortens(x, y) /\ long - y \in -HalfRange .. HalfRange - 1
    BY <1>1, <1>2, <2>1, <2>2 DEF Numbered
  <2>4. CongruentDifference(x, s) = long - y
    BY <2>3, ShortWay
  <2> QED  BY <1>2, <2>2, <2>4
<1>4. outgoing' = [prevShortId |-> nextSequenceNumber, prevLongId |-> begin + sent]
  <2>1. outgoing.prevLongId + (begin + sent - outgoing.prevLongId) = begin + sent
    BY <1>2
  <2> QED  BY <1>3, <2>1 DEF SendPacket, ConvertNext
<1> DEFINE m == [index |-> sent, sequenceNumber |-> nextSequenceNumber, iv |-> begin + sent]
<1>5. /\ nextSequenceNumber' = After(nextSequenceNumber) /\ sent' = sent + 1
      /\ network' = network \cup {m}
      /\ UNCHANGED <<jitterVars, head, incoming, latest>>
  BY <1>4 DEF SendPacket, readerVars
<1>6. After(nextSequenceNumber) \in SequenceNumber
  BY <1>2, DifferenceToSelf
<1>7. StreamTypeOK'
  <2>1. JitterTypeOK'
    BY <1>5 DEF PacketsInv, StreamTypeOK, JitterTypeOK, jitterVars
  <2>2. m \in Message
    BY <1>2, StreamAssumption DEF Message
  <2>3. IsFiniteSet(network') /\ network' \subseteq Message
    <3> HIDE DEF m
    <3> QED  BY <1>5, <2>2, FS_AddElement DEF PacketsInv, StreamTypeOK
  <2>4. outgoing' \in SequenceCounter /\ sent' \in 0 .. MaxPackets
    BY <1>2, <1>4, <1>5, StreamAssumption DEF SequenceCounter
  <2> QED  BY <1>5, <1>6, <2>1, <2>3, <2>4 DEF PacketsInv, StreamTypeOK
<1>8. JitterInv'
  BY <1>5 DEF PacketsInv, jitterVars, JitterInv, JitterTypeOK, IdsAreThoseQueued,
              NothingBehindReadHead, OutOfSync, NewestAhead
<1>9. Numbered(begin)'
  <2>1. Shortens(nextSequenceNumber, begin + sent)
    BY <1>1 DEF Numbered
  <2>2. Shortens(nextSequenceNumber', begin + sent')
    <3>1. begin + sent' = (begin + sent) + 1
      BY <1>2, <1>5
    <3> QED  BY <1>5, <2>1, <3>1, ShortensAfter
  <2>3. begin + sent' - outgoing'.prevLongId \in 0 .. QuarterRange
    BY <1>2, <1>4, <1>5, Quarters
  <2>4. \A n \in network' : n.iv = begin + n.index /\ Shortens(n.sequenceNumber, n.iv)
    BY <1>1, <1>5, <2>1 DEF Numbered
  <2> QED  BY <1>1, <1>4, <1>5, <2>1, <2>2, <2>3, <2>4 DEF Numbered
<1>10. Placed(begin)'
  BY <1>1, <1>5 DEF Placed, jitterVars, OutOfSync
<1> QED  BY <1>1, <1>7, <1>8, <1>9, <1>10 DEF PacketsInv, QuarterRange

\* Nothing but the network changes, and that only loses packets.
LEMMA NothingArrivesInv ==
  ASSUME PacketsInv, network' \subseteq network,
         UNCHANGED <<jitterVars, head, senderVars, incoming, latest>>
  PROVE  PacketsInv'
<1>1. PICK begin \in 0 .. QuarterRange - 1 : Numbered(begin) /\ Placed(begin)
  BY DEF PacketsInv
<1>2. UNCHANGED <<jitterVars, head, nextSequenceNumber, outgoing, sent, incoming, latest>>
  BY DEF senderVars
<1>3. StreamTypeOK'
  <2>1. IsFiniteSet(network')
    BY FS_Subset DEF PacketsInv, StreamTypeOK
  <2> QED  BY <1>2, <2>1 DEF PacketsInv, StreamTypeOK, JitterTypeOK, jitterVars
<1>4. JitterInv'
  BY <1>2 DEF PacketsInv, jitterVars, JitterInv, JitterTypeOK, IdsAreThoseQueued,
              NothingBehindReadHead, OutOfSync, NewestAhead
<1>5. Numbered(begin)'
  BY <1>1, <1>2 DEF Numbered
<1>6. Placed(begin)'
  BY <1>1, <1>2 DEF Placed, jitterVars, OutOfSync
<1> QED  BY <1>1, <1>3, <1>4, <1>5, <1>6 DEF PacketsInv, QuarterRange
\* The packet that comes out of the message m.
Decrypted(m) == [sequenceNumber |-> m.sequenceNumber, audioData |-> m.index]

\* The receiver makes of the number what the sender had made of it.
LEMMA ReceiveDecrypts ==
  ASSUME PacketsInv, NEW begin \in 0 .. QuarterRange - 1, Numbered(begin),
         NEW m \in network, Receive(m)
  PROVE  /\ Decrypted(m) \in EncodedAudioPacket
         /\ incoming' = [prevShortId |-> m.sequenceNumber, prevLongId |-> begin + m.index]
         /\ \/ ForceSync(Decrypted(m)) /\ items' = <<Decrypted(m)>> /\ head' = m.index
            \/ /\ Fit(Decrypted(m)) /\ HeadMoves
               /\ items' = IF Len(PQ!Enqueue(items, Decrypted(m))) > MaxSize
                           THEN PQ!Dequeue(PQ!Enqueue(items, Decrypted(m)))
                           ELSE PQ!Enqueue(items, Decrypted(m))
            \/ Reject(Decrypted(m)) /\ UNCHANGED <<items, head>>
<1>1. /\ m.index \in 0 .. MaxPackets - 1 /\ m.sequenceNumber \in SequenceNumber
      /\ m.iv = begin + m.index /\ Shortens(m.sequenceNumber, m.iv)
      /\ begin \in Int /\ latest \in Int /\ m.index \in Int /\ m.iv \in Int
      /\ incoming.prevShortId \in SequenceNumber /\ incoming.prevLongId \in Int
      /\ Shortens(incoming.prevShortId, incoming.prevLongId)
  BY StreamAssumption, Quarters DEF PacketsInv, StreamTypeOK, Message, Numbered, SequenceCounter
<1>2. m.index - latest \in -QuarterRange .. QuarterRange
  BY DEF Receive, InTime
<1>3. CongruentDifference(incoming.prevShortId, m.sequenceNumber) = m.iv - incoming.prevLongId
  <2>1. begin + latest - incoming.prevLongId \in 0 .. QuarterRange - 1
    BY DEF Numbered
  <2>2. m.iv - incoming.prevLongId \in -HalfRange .. HalfRange - 1
    BY <1>1, <1>2, <2>1, Quarters
  <2>3. PICK s \in SequenceNumber, long \in Int, x \in SequenceNumber, y \in Int :
          /\ s = m.sequenceNumber /\ long = m.iv
          /\ x = incoming.prevShortId /\ y = incoming.prevLongId
    BY <1>1
  <2>4. Shortens(s, long) /\ Shortens(x, y) /\ long - y \in -HalfRange .. HalfRange - 1
    BY <1>1, <2>2, <2>3
  <2>5. CongruentDifference(x, s) = long - y
    BY <2>4, ShortWay
  <2> QED  BY <1>1, <2>3, <2>5
<1>4. incoming' = [prevShortId |-> m.sequenceNumber, prevLongId |-> m.iv]
  <2>1. incoming.prevLongId + (m.iv - incoming.prevLongId) = m.iv
    BY <1>1
  <2> QED  BY <1>3, <2>1 DEF Receive, ConvertNext
<1>5. Decrypted(m) \in EncodedAudioPacket
  BY <1>1, StreamAssumption DEF Decrypted, EncodedAudioPacket
<1>6. [sequenceNumber |-> m.sequenceNumber,
       audioData |-> IF incoming'.prevLongId = m.iv THEN m.index ELSE Garbled] = Decrypted(m)
  BY <1>4 DEF Decrypted
<1>7. \/ ForceSync(Decrypted(m)) /\ items' = <<Decrypted(m)>> /\ head' = m.index
      \/ /\ Fit(Decrypted(m)) /\ HeadMoves
         /\ items' = IF Len(PQ!Enqueue(items, Decrypted(m))) > MaxSize
                     THEN PQ!Dequeue(PQ!Enqueue(items, Decrypted(m)))
                     ELSE PQ!Enqueue(items, Decrypted(m))
      \/ Reject(Decrypted(m)) /\ UNCHANGED <<items, head>>
  BY <1>6, Zenon DEF Receive
<1> QED  BY <1>1, <1>4, <1>5, <1>7

\* The packets of Q are where their indices say, seen from the read head.
InPlace(begin, Q) ==
  /\ \A p \in Q :
       /\ p \in EncodedAudioPacket
       /\ p.audioData \in 0 .. MaxPackets - 1 /\ Shortens(p.sequenceNumber, begin + p.audioData)
       /\ CongruentDifference(readHeadMin, p.sequenceNumber) = p.audioData - head
       /\ CongruentDifference(readHeadMin, p.sequenceNumber) \in 0 .. MaxQueueAhead
  /\ \A p, q \in Q : p.sequenceNumber = q.sequenceNumber => p = q

LEMMA QueueInPlace ==
  ASSUME PacketsInv, NEW begin \in 0 .. QuarterRange - 1, Placed(begin)
  PROVE  InPlace(begin, resultPriorityQueue)
<1>1. \A p \in resultPriorityQueue : p \in EncodedAudioPacket
  BY DEF PacketsInv, JitterInv, JitterTypeOK
<1>2. ASSUME NEW p \in resultPriorityQueue
      PROVE  CongruentDifference(readHeadMin, p.sequenceNumber) \in 0 .. MaxQueueAhead
  <2>1. p.sequenceNumber \in SequenceNumber /\ readHeadMin \in SequenceNumber
    BY <1>1 DEF PacketsInv, JitterInv, JitterTypeOK, EncodedAudioPacket
  <2>2. CongruentDifference(readHeadMin, p.sequenceNumber) \in -HalfRange .. HalfRange - 1
    BY <2>1, DifferenceRange
  <2>3. 0 <= CongruentDifference(readHeadMin, p.sequenceNumber)
        /\ CongruentDifference(readHeadMin, p.sequenceNumber) <= MaxQueueAhead
    BY DEF PacketsInv, JitterInv, NothingBehindReadHead
  <2> QED  BY <2>2, <2>3, Quarters, JitterAssumption
<1> QED  BY <1>1, <1>2 DEF Placed, InPlace, PacketsInv, JitterInv, IdsAreThoseQueued

\* From one packet in place to another it is as far as their indices say.
LEMMA Distances ==
  ASSUME NEW begin, NEW Q, InPlace(begin, Q), readHeadMin \in SequenceNumber, head \in Int,
         NEW p \in Q, NEW q \in Q
  PROVE  /\ CongruentDifference(p.sequenceNumber, q.sequenceNumber) = q.audioData - p.audioData
         /\ p.audioData = q.audioData => p = q
<1>1. /\ p.sequenceNumber \in SequenceNumber /\ q.sequenceNumber \in SequenceNumber
      /\ p.audioData \in Int /\ q.audioData \in Int
      /\ CongruentDifference(readHeadMin, p.sequenceNumber) = p.audioData - head
      /\ CongruentDifference(readHeadMin, q.sequenceNumber) = q.audioData - head
      /\ p.audioData - head \in 0 .. MaxQueueAhead /\ q.audioData - head \in 0 .. MaxQueueAhead
  BY StreamAssumption DEF InPlace, EncodedAudioPacket
<1>2. (q.audioData - head) - (p.audioData - head) \in -HalfRange .. HalfRange - 1
  BY <1>1, JitterAssumption
<1>3. CongruentDifference(p.sequenceNumber, q.sequenceNumber)
        = (q.audioData - head) - (p.audioData - head)
  BY <1>1, <1>2, DifferencesAdd
<1>4. CongruentDifference(p.sequenceNumber, q.sequenceNumber) = q.audioData - p.audioData
  BY <1>1, <1>3
<1>5. ASSUME p.audioData = q.audioData PROVE p = q
  <2>1. CongruentDifference(p.sequenceNumber, q.sequenceNumber) = 0
    BY <1>1, <1>4, <1>5
  <2>2. p.sequenceNumber = q.sequenceNumber
    BY <1>1, <2>1, DifferenceToSelf
  <2> QED  BY <2>2 DEF InPlace
<1> QED  BY <1>4, <1>5

\* A packet that fits is in place with the others.
LEMMA FitsInPlace ==
  ASSUME PacketsInv, NEW begin \in 0 .. QuarterRange - 1, Numbered(begin), Placed(begin),
         NEW m \in network, InTime(m), Fit(Decrypted(m))
  PROVE  InPlace(begin, resultPriorityQueue \cup {Decrypted(m)})
<1> DEFINE r == Decrypted(m)
<1>1. /\ m.index \in 0 .. MaxPackets - 1 /\ m.sequenceNumber \in SequenceNumber
      /\ m.iv = begin + m.index /\ Shortens(m.sequenceNumber, m.iv)
      /\ r.sequenceNumber = m.sequenceNumber /\ r.audioData = m.index
      /\ r \in EncodedAudioPacket
      /\ begin \in Int /\ head \in Int /\ m.index \in Int
      /\ readHeadMin \in SequenceNumber
  BY StreamAssumption, Quarters
     DEF PacketsInv, StreamTypeOK, JitterTypeOK, Message, Numbered, Decrypted, EncodedAudioPacket
<1> HIDE DEF r
<1>2. /\ Shortens(readHeadMin, begin + head)
      /\ m.index - head \in -HalfRange .. HalfRange - 1
  BY DEF Fit, Placed, InTime
<1>3. CongruentDifference(readHeadMin, m.sequenceNumber) = m.index - head
  <2>1. PICK s \in SequenceNumber, long \in Int, x \in SequenceNumber, y \in Int :
          s = m.sequenceNumber /\ long = begin + m.index /\ x = readHeadMin /\ y = begin + head
    BY <1>1
  <2>2. Shortens(s, long) /\ Shortens(x, y) /\ long - y \in -HalfRange .. HalfRange - 1
    BY <1>1, <1>2, <2>1
  <2>3. CongruentDifference(x, s) = long - y
    BY <2>2, ShortWay
  <2> QED  BY <1>1, <2>1, <2>3
<1>4. CongruentDifference(readHeadMin, m.sequenceNumber) \in 0 .. MaxQueueAhead
  <2>1. /\ ~Stale(m.sequenceNumber) /\ ~TooSoon(m.sequenceNumber)
        /\ m.sequenceNumber \notin idsInJitterQueue
    BY DEF Fit, Decrypted
  <2>2. m.index - head \in Int
    BY <1>1
  <2> QED  BY <1>3, <2>1, <2>2, JitterAssumption DEF Stale, TooSoon
<1>5. \A p \in resultPriorityQueue : p.sequenceNumber # m.sequenceNumber
  BY DEF Fit, Decrypted, PacketsInv, JitterInv, IdsAreThoseQueued
<1>6. InPlace(begin, resultPriorityQueue)
  BY QueueInPlace
<1> QED  BY <1>1, <1>3, <1>4, <1>5, <1>6 DEF InPlace, r
-----------------------------------------------------------------------------
(* The stream plays in order *)

Indices(Q) == {p.audioData : p \in Q}

LEMMA WindowFirst ==
  ASSUME NEW S, S \subseteq Int, NEW i \in S, \A j \in S : i <= j
  PROVE  Window!First(S) = i
<1>1. \E k \in S : \A j \in S : k <= j
  OBVIOUS
<1>2. PICK k \in S : k = Window!First(S) /\ \A j \in S : k <= j
  BY <1>1 DEF Window!First
<1>3. k \in Int /\ i \in Int /\ i <= k /\ k <= i
  BY <1>2
<1> QED  BY <1>2, <1>3

LEMMA InPlaceSize ==
  ASSUME NEW begin, NEW Q, InPlace(begin, Q), readHeadMin \in SequenceNumber, head \in Int
  PROVE  /\ IsFiniteSet(Q) /\ Cardinality(Indices(Q)) = Cardinality(Q)
         /\ Indices(Q) \subseteq 0 .. MaxPackets - 1
<1> DEFINE f == [p \in Q |-> p.audioData]
<1>1. Indices(Q) \subseteq 0 .. MaxPackets - 1
  BY DEF InPlace, Indices
<1>2. f \in [Q -> Indices(Q)] /\ \A i \in Indices(Q) : \E p \in Q : f[p] = i
  BY DEF Indices
<1>3. \A p, q \in Q : f[p] = f[q] => p = q
  BY Distances
<1>4. IsFiniteSet(Indices(Q))
  <2>1. IsFiniteSet(0 .. MaxPackets - 1)
    BY StreamAssumption, FS_Interval
  <2> QED  BY <1>1, <2>1, FS_Subset
<1> HIDE DEF f
<1>5. f \in Injection(Q, Indices(Q)) /\ f \in Surjection(Q, Indices(Q))
  BY <1>2, <1>3, Zenon DEF Injection, IsInjective, Surjection
<1>6. IsFiniteSet(Q) /\ Cardinality(Q) = Cardinality(Indices(Q))
  BY <1>4, <1>5, FS_Injection, Zenon
<1> QED  BY <1>1, <1>6

\* What the comparator puts first has the lowest index.
LEMMA FirstIsLowest ==
  ASSUME NEW begin, NEW Q, InPlace(begin, Q), readHeadMin \in SequenceNumber, head \in Int,
         NEW p \in Firsts(Q)
  PROVE  /\ p \in Q /\ Window!First(Indices(Q)) = p.audioData
         /\ Indices(Q \ {p}) = Indices(Q) \ {p.audioData}
         /\ InPlace(begin, Q \ {p})
<1>1. p \in Q /\ \A q \in Q : CongruentDifference(q.sequenceNumber, p.sequenceNumber) <= 0
  BY DEF Firsts
<1>2. \A q \in Q : q.audioData \in Int
  BY StreamAssumption DEF InPlace
<1>3. ASSUME NEW q \in Q PROVE p.audioData <= q.audioData
  <2>1. CongruentDifference(q.sequenceNumber, p.sequenceNumber) = p.audioData - q.audioData
    BY <1>1, Distances
  <2>2. p.audioData - q.audioData <= 0
    BY <1>1, <2>1
  <2> QED  BY <1>1, <1>2, <2>2
<1>4. Window!First(Indices(Q)) = p.audioData
  <2>1. Indices(Q) \subseteq Int /\ p.audioData \in Indices(Q)
        /\ \A j \in Indices(Q) : p.audioData <= j
    BY <1>1, <1>2, <1>3 DEF Indices
  <2> QED  BY <2>1, WindowFirst
<1>5. \A q \in Q : q.audioData = p.audioData => q = p
  BY <1>1, Distances
<1>6. Indices(Q \ {p}) = Indices(Q) \ {p.audioData}
  BY <1>1, <1>5 DEF Indices
<1>7. InPlace(begin, Q \ {p})
  BY DEF InPlace
<1> QED  BY <1>1, <1>4, <1>6, <1>7

LEMMA FirstExists ==
  ASSUME NEW begin, NEW Q, InPlace(begin, Q), readHeadMin \in SequenceNumber, head \in Int,
         Q # {}
  PROVE  Firsts(Q) # {}
<1>1. Indices(Q) \subseteq Nat /\ Indices(Q) # {}
  BY StreamAssumption DEF InPlace, Indices
<1>2. PICK i \in Indices(Q) : \A j \in Indices(Q) : i <= j
  BY <1>1, LeastExists
<1>3. PICK p \in Q : p.audioData = i
  BY DEF Indices
<1>4. ASSUME NEW q \in Q
      PROVE  CongruentDifference(q.sequenceNumber, p.sequenceNumber) <= 0
  <2>1. q.audioData \in Indices(Q) /\ q.audioData \in Nat /\ p.audioData \in Nat
    BY <1>1, <1>3 DEF Indices
  <2>2. CongruentDifference(q.sequenceNumber, p.sequenceNumber) = p.audioData - q.audioData
    BY Distances
  <2> QED  BY <1>2, <1>3, <2>1, <2>2
<1> QED  BY <1>3, <1>4 DEF Firsts

\* Whoever is in place has the room the window gives, and is not in it twice.
LEMMA WindowHasRoom ==
  ASSUME PacketsInv, NEW begin \in 0 .. QuarterRange - 1, Numbered(begin), Placed(begin),
         NEW m \in network, InTime(m), Fit(Decrypted(m))
  PROVE  /\ m.index >= head /\ m.index \notin Indices(resultPriorityQueue)
         /\ Indices(resultPriorityQueue \cup {Decrypted(m)})
              = Indices(resultPriorityQueue) \cup {m.index}
<1> DEFINE Q == resultPriorityQueue \cup {Decrypted(m)}
<1>1. /\ readHeadMin \in SequenceNumber /\ head \in Int /\ m.index \in Int
      /\ Decrypted(m) \in Q /\ Decrypted(m).audioData = m.index
      /\ Decrypted(m).sequenceNumber = m.sequenceNumber
  BY StreamAssumption DEF PacketsInv, StreamTypeOK, JitterTypeOK, Message, Decrypted
<1>2. InPlace(begin, Q)
  BY FitsInPlace
<1>3. Decrypted(m) \notin resultPriorityQueue
  BY <1>1 DEF Fit, PacketsInv, JitterInv, IdsAreThoseQueued
<1>4. m.index - head \in 0 .. MaxQueueAhead
  BY <1>1, <1>2 DEF InPlace
<1>5. ASSUME NEW p \in resultPriorityQueue PROVE p.audioData # m.index
  <2>1. p.audioData = Decrypted(m).audioData => p = Decrypted(m)
    <3>1. p \in Q
      OBVIOUS
    <3> HIDE DEF Q
    <3> QED  BY <1>1, <1>2, <3>1, Distances
  <2> QED  BY <1>1, <1>3, <2>1
<1> HIDE DEF Q
<1>6. m.index >= head
  BY <1>1, <1>4, JitterAssumption
<1>7. m.index \notin Indices(resultPriorityQueue)
  BY <1>5 DEF Indices
<1>8. Indices(resultPriorityQueue \cup {Decrypted(m)})
              = Indices(resultPriorityQueue) \cup {m.index}
  BY <1>1 DEF Indices
<1> QED  BY <1>6, <1>7, <1>8

\* What an arrival changes besides the queue.
LEMMA ReceiveNumbers ==
  ASSUME PacketsInv, NEW begin \in 0 .. QuarterRange - 1, Numbered(begin),
         NEW m \in network, Receive(m), JitterInv', head' \in Int
  PROVE  StreamTypeOK' /\ Numbered(begin)'
<1>1. incoming' = [prevShortId |-> m.sequenceNumber, prevLongId |-> begin + m.index]
  BY ReceiveDecrypts
<1>2. UNCHANGED <<nextSequenceNumber, outgoing, sent, network>> /\ latest' = m.index
  BY DEF Receive, senderVars
<1>3. /\ m.index \in 0 .. MaxPackets - 1 /\ m.sequenceNumber \in SequenceNumber
      /\ m.iv = begin + m.index /\ Shortens(m.sequenceNumber, m.iv)
      /\ begin \in Int /\ m.index \in Int
  BY StreamAssumption, Quarters DEF PacketsInv, StreamTypeOK, Message, Numbered
<1>4. StreamTypeOK'
  <2>1. incoming' \in SequenceCounter
    BY <1>1, <1>3 DEF SequenceCounter
  <2>2. JitterTypeOK'
    BY DEF JitterInv
  <2> QED  BY <1>2, <1>3, <2>1, <2>2 DEF PacketsInv, StreamTypeOK
<1>5. Numbered(begin)'
  <2>1. Shortens(incoming'.prevShortId, incoming'.prevLongId)
    BY <1>1, <1>3
  <2>2. begin + latest' - incoming'.prevLongId \in 0 .. QuarterRange - 1
    <3>1. incoming'.prevLongId = begin + m.index
      BY <1>1
    <3> QED  BY <1>2, <1>3, <3>1, Quarters
  <2> QED  BY <1>2, <2>1, <2>2 DEF Numbered
<1> QED  BY <1>4, <1>5

\* What is shown of every step: the invariant, and that the window makes it.
Follows == PacketsInv' /\ [Window!Next]_(Window!windowVars)

LEMMA ForceSyncFollows ==
  ASSUME PacketsInv, NEW begin \in 0 .. QuarterRange - 1, Numbered(begin),
         NEW m \in network, Receive(m), ForceSync(Decrypted(m)), head' = m.index
  PROVE  Follows
<1>1. /\ m.index \in 0 .. MaxPackets - 1 /\ m.index \in Int
      /\ m.sequenceNumber \in SequenceNumber
      /\ Shortens(m.sequenceNumber, begin + m.index)
      /\ Decrypted(m).sequenceNumber = m.sequenceNumber /\ Decrypted(m).audioData = m.index
  BY StreamAssumption DEF PacketsInv, StreamTypeOK, Message, Numbered, Decrypted
<1>2. JitterInv'
  BY ReceiveDecrypts, ForceSyncInv DEF PacketsInv
<1>3. /\ OutOfSync /\ resultPriorityQueue' = {Decrypted(m)}
      /\ readHeadMin' = m.sequenceNumber /\ readHeadSpan' = 1
  BY <1>1 DEF ForceSync
<1>4. StreamTypeOK' /\ Numbered(begin)'
  BY <1>1, <1>2, ReceiveNumbers
<1>5. CongruentDifference(m.sequenceNumber, m.sequenceNumber) = m.index - m.index
  BY <1>1, DifferenceToSelf
<1>6. Placed(begin)'
  BY <1>1, <1>3, <1>5 DEF Placed
<1>7. PacketsInv'
  BY <1>2, <1>4, <1>6 DEF PacketsInv, QuarterRange
<1>8. Window!Resync(m.index)
  <2>1. readHeadSpan \in Int /\ BadSpanThreshold \in Int /\ readHeadSpan > BadSpanThreshold
    BY <1>3, JitterAssumption DEF OutOfSync, PacketsInv, StreamTypeOK, JitterTypeOK
  <2>2. readHeadSpan - 1 >= BadSpanThreshold /\ readHeadSpan' - 1 = 0
    BY <1>3, <2>1
  <2>3. {p.audioData : p \in resultPriorityQueue'} = {m.index}
    BY <1>1, <1>3
  <2> QED  BY <2>2, <2>3 DEF Window!Resync
<1> QED  BY <1>1, <1>7, <1>8 DEF Follows, Window!Next

LEMMA WindowCardinality == \A S : Window!Cardinality(S) = Cardinality(S)
BY Zenon DEF Cardinality, Window!Cardinality, IsFiniteSet, Window!IsFiniteSet

LEMMA FitFollows ==
  ASSUME PacketsInv, NEW begin \in 0 .. QuarterRange - 1, Numbered(begin), Placed(begin),
         NEW m \in network, Receive(m), Fit(Decrypted(m)), HeadMoves
  PROVE  Follows
<1> DEFINE Q == resultPriorityQueue \cup {Decrypted(m)}
<1>1. /\ m.index \in 0 .. MaxPackets - 1 /\ m.index \in Int /\ InTime(m)
      /\ readHeadMin \in SequenceNumber /\ head \in Int
      /\ readHeadSpan \in Int /\ BadSpanThreshold \in Int /\ MaxSize \in Int
      /\ ~OutOfSync
  BY StreamAssumption, JitterAssumption
     DEF PacketsInv, StreamTypeOK, JitterTypeOK, Message, Receive, Fit
<1>2. JitterInv'
  BY ReceiveDecrypts, FitInv DEF PacketsInv
<1>3. InPlace(begin, Q)
  BY <1>1, FitsInPlace
<1>4. /\ m.index >= head /\ m.index \notin Indices(resultPriorityQueue)
      /\ Indices(Q) = Indices(resultPriorityQueue) \cup {m.index}
  BY <1>1, WindowHasRoom
<1>5. Shortens(readHeadMin, begin + head)
  BY <1>1 DEF Placed
<1>6. Cardinality(Indices(Q)) = Cardinality(Q)
  BY <1>1, <1>3, InPlaceSize
<1>7. /\ Cardinality(Q) <= MaxSize =>
           /\ resultPriorityQueue' = Q /\ UNCHANGED <<readHeadMin, readHeadSpan>>
      /\ ~(Cardinality(Q) <= MaxSize) =>
           \E discarded \in Firsts(Q) :
             /\ resultPriorityQueue' = Q \ {discarded}
             /\ \E next \in Firsts(Q \ {discarded}) : readHeadMin' = next.sequenceNumber
             /\ readHeadSpan' = 1
  BY DEF Fit, DiscardExcess
<1>8. readHeadSpan - 1 < BadSpanThreshold
  BY <1>1 DEF OutOfSync
<1> HIDE DEF Q
<1>9. CASE Cardinality(Q) <= MaxSize
  <2>1. head' = head
    <3>1. CongruentDifference(readHeadMin, readHeadMin') = 0
      BY <1>1, <1>7, <1>9, DifferenceToSelf
    <3> QED  BY <1>1, <3>1 DEF HeadMoves
  <2>2. Placed(begin)'
    BY <1>3, <1>5, <1>7, <1>9, <2>1 DEF Placed, InPlace
  <2>3. StreamTypeOK' /\ Numbered(begin)'
    BY <1>1, <1>2, <2>1, ReceiveNumbers
  <2>4. Window!Accept(m.index)
    <3>1. Indices(resultPriorityQueue') = Indices(resultPriorityQueue) \cup {m.index}
      BY <1>4, <1>7, <1>9
    <3>2. Window!Cardinality(Indices(resultPriorityQueue) \cup {m.index}) <= MaxSize
      BY WindowCardinality, <1>4, <1>6, <1>9
    <3> QED  BY <1>4, <1>7, <1>8, <1>9, <2>1, <3>1, <3>2 DEF Window!Accept, Indices
  <2> QED  BY <1>1, <1>2, <2>2, <2>3, <2>4 DEF Follows, PacketsInv, QuarterRange, Window!Next
<1>10. CASE ~(Cardinality(Q) <= MaxSize)
  <2>1. PICK discarded \in Firsts(Q) :
          /\ resultPriorityQueue' = Q \ {discarded}
          /\ \E next \in Firsts(Q \ {discarded}) : readHeadMin' = next.sequenceNumber
          /\ readHeadSpan' = 1
    BY <1>7, <1>10
  <2> DEFINE R == Q \ {discarded}
  <2>2. PICK next \in Firsts(R) : readHeadMin' = next.sequenceNumber
    BY <2>1
  <2>3. /\ InPlace(begin, R) /\ Indices(R) = Indices(Q) \ {discarded.audioData}
        /\ Window!First(Indices(Q)) = discarded.audioData
    BY <1>1, <1>3, <2>1, FirstIsLowest
  <2> HIDE DEF R
  <2>4. next \in R /\ Window!First(Indices(R)) = next.audioData
    BY <1>1, <2>2, <2>3, FirstIsLowest
  <2>5. next.audioData \in Int
        /\ CongruentDifference(readHeadMin, next.sequenceNumber) = next.audioData - head
    BY <2>3, <2>4 DEF InPlace
  <2>6. head' = next.audioData
    BY <1>1, <2>2, <2>5 DEF HeadMoves
  <2>7. \A p \in R :
          /\ p.audioData \in 0 .. MaxPackets - 1
          /\ Shortens(p.sequenceNumber, begin + p.audioData)
          /\ CongruentDifference(next.sequenceNumber, p.sequenceNumber)
               = p.audioData - next.audioData
    <3> SUFFICES ASSUME NEW p \in R
                 PROVE  CongruentDifference(next.sequenceNumber, p.sequenceNumber)
                          = p.audioData - next.audioData
      BY <2>3 DEF InPlace
    <3> QED  BY <1>1, <2>3, <2>4, Distances
  <2>8. Placed(begin)'
    BY <2>1, <2>2, <2>4, <2>6, <2>7 DEF Placed, R
  <2>9. StreamTypeOK' /\ Numbered(begin)'
    BY <1>1, <1>2, <2>5, <2>6, ReceiveNumbers
  <2>10. Window!Accept(m.index)
    <3>1. /\ Indices(resultPriorityQueue')
               = (Indices(resultPriorityQueue) \cup {m.index})
                   \ {Window!First(Indices(resultPriorityQueue) \cup {m.index})}
          /\ head' = Window!First(Indices(resultPriorityQueue'))
      BY <1>4, <2>1, <2>3, <2>4, <2>6 DEF R
    <3>2. ~(Window!Cardinality(Indices(resultPriorityQueue) \cup {m.index}) <= MaxSize)
      BY WindowCardinality, <1>4, <1>6, <1>10
    <3>3. readHeadSpan' - 1 = 0
      BY <2>1
    <3>4. Window!First(Indices(resultPriorityQueue'))
            = Window!First((Indices(resultPriorityQueue) \cup {m.index})
                   \ {Window!First(Indices(resultPriorityQueue) \cup {m.index})})
      BY <3>1, Zenon
    <3> QED  BY <1>4, <1>8, <3>1, <3>2, <3>3, <3>4 DEF Window!Accept, Indices
  <2> QED  BY <1>1, <1>2, <2>8, <2>9, <2>10 DEF Follows, PacketsInv, QuarterRange, Window!Next
<1> QED  BY <1>9, <1>10

LEMMA NothingFollows ==
  ASSUME PacketsInv, UNCHANGED jitterVars, UNCHANGED head
  PROVE  [Window!Next]_(Window!windowVars)
<1>1. UNCHANGED <<resultPriorityQueue, readHeadSpan>>
  BY DEF jitterVars
<1> QED  BY <1>1 DEF Window!windowVars

LEMMA ReceiveFollows ==
  ASSUME PacketsInv, NEW m \in network, Receive(m)
  PROVE  Follows
<1>1. PICK begin \in 0 .. QuarterRange - 1 : Numbered(begin) /\ Placed(begin)
  BY DEF PacketsInv
<1>2. CASE ForceSync(Decrypted(m)) /\ head' = m.index
  BY <1>1, <1>2, ForceSyncFollows
<1>3. CASE Fit(Decrypted(m)) /\ HeadMoves
  BY <1>1, <1>3, FitFollows
<1>4. CASE Reject(Decrypted(m)) /\ UNCHANGED head
  <2>1. UNCHANGED jitterVars
    BY <1>4 DEF Reject
  <2>2. JitterInv' /\ head' \in Int
    BY <1>4, <2>1, NextInv DEF PacketsInv, StreamTypeOK
  <2>3. StreamTypeOK' /\ Numbered(begin)'
    BY <1>1, <2>2, ReceiveNumbers
  <2>4. Placed(begin)'
    BY <1>1, <1>4, <2>1 DEF Placed, jitterVars, OutOfSync
  <2> QED  BY <1>1, <1>4, <2>1, <2>2, <2>3, <2>4, NothingFollows
           DEF Follows, PacketsInv, QuarterRange
<1> QED  BY <1>1, <1>2, <1>3, <1>4, ReceiveDecrypts

LEMMA PullNothingFollows ==
  ASSUME PacketsInv, DequeueNothing, HeadMoves, UNCHANGED <<senderVars, incoming, network, latest>>
  PROVE  Follows
<1>1. PICK begin \in 0 .. QuarterRange - 1 : Numbered(begin) /\ Placed(begin)
  BY DEF PacketsInv
<1>2. /\ readHeadMin \in SequenceNumber /\ head \in Int
      /\ readHeadSpan \in Int /\ BadSpanThreshold \in Int /\ readHeadSpan <= BadSpanThreshold
  BY JitterAssumption
     DEF PacketsInv, StreamTypeOK, JitterTypeOK, DequeueNothing, OutOfSync
<1>3. /\ readHeadSpan' = readHeadSpan + 1
      /\ UNCHANGED <<resultPriorityQueue, readHeadMin, nextSequenceNumber, outgoing, sent,
                     incoming, network, latest>>
  BY DEF DequeueNothing, senderVars
<1>4. head' = head
  <2>1. CongruentDifference(readHeadMin, readHeadMin') = 0
    BY <1>2, <1>3, DifferenceToSelf
  <2> QED  BY <1>2, <2>1 DEF HeadMoves
<1>5. PacketsInv'
  <2>1. JitterInv'
    BY DequeueNothingInv DEF PacketsInv
  <2>2. StreamTypeOK'
    <3>1. JitterTypeOK'
      BY <2>1 DEF JitterInv
    <3> QED  BY <1>3, <1>4, <3>1 DEF PacketsInv, StreamTypeOK
  <2>3. Numbered(begin)'
    BY <1>1, <1>3 DEF Numbered
  <2>4. Placed(begin)'
    <3>1. Shortens(readHeadMin, begin + head)
      BY <1>1 DEF Placed, DequeueNothing
    <3> QED  BY <1>1, <1>3, <1>4, <3>1 DEF Placed
  <2> QED  BY <1>1, <2>1, <2>2, <2>3, <2>4 DEF PacketsInv, QuarterRange
<1>6. ASSUME resultPriorityQueue # {}
      PROVE  Window!First(Indices(resultPriorityQueue)) > head + (readHeadSpan - 1)
  <2>1. InPlace(begin, resultPriorityQueue)
    BY <1>1, QueueInPlace
  <2>2. PICK p \in Firsts(resultPriorityQueue) : TRUE
    BY <1>2, <1>6, <2>1, FirstExists
  <2>3. p \in resultPriorityQueue
        /\ Window!First(Indices(resultPriorityQueue)) = p.audioData
    BY <1>2, <2>1, <2>2, FirstIsLowest
  <2>4. /\ p.audioData \in Int
        /\ CongruentDifference(readHeadMin, p.sequenceNumber) = p.audioData - head
        /\ p.audioData - head \in 0 .. MaxQueueAhead
    BY <2>1, <2>3, StreamAssumption DEF InPlace
  <2>5. ~UnderReadHead(p)
    BY <2>2 DEF DequeueNothing
  <2>6. p.audioData - head >= readHeadSpan
    BY <1>2, <2>4, <2>5, JitterAssumption DEF UnderReadHead
  <2> QED  BY <1>2, <2>3, <2>4, <2>6
<1>7. Window!BeSilent
  <2>1. readHeadSpan - 1 < BadSpanThreshold
    BY <1>2
  <2>2. readHeadSpan' - 1 = (readHeadSpan - 1) + 1
    BY <1>2, <1>3
  <2>3. {p.audioData : p \in resultPriorityQueue} # {} => resultPriorityQueue # {}
    OBVIOUS
  <2>4. {p.audioData : p \in resultPriorityQueue'} = {p.audioData : p \in resultPriorityQueue}
    BY <1>3
  <2> QED  BY <1>4, <1>6, <2>1, <2>2, <2>3, <2>4 DEF Window!BeSilent, Indices
<1> QED  BY <1>5, <1>7 DEF Follows, Window!Next

LEMMA PullPacketFollows ==
  ASSUME PacketsInv, NEW p \in resultPriorityQueue, DequeuePacket(p), HeadMoves,
         UNCHANGED <<senderVars, incoming, network, latest>>
  PROVE  Follows
<1>1. PICK begin \in 0 .. QuarterRange - 1 : Numbered(begin) /\ Placed(begin)
  BY DEF PacketsInv
<1>2. /\ readHeadMin \in SequenceNumber /\ head \in Int /\ begin \in Int
      /\ readHeadSpan \in Int /\ BadSpanThreshold \in Int /\ readHeadSpan <= BadSpanThreshold
      /\ p \in Firsts(resultPriorityQueue) /\ UnderReadHead(p)
  BY JitterAssumption, Quarters
     DEF PacketsInv, StreamTypeOK, JitterTypeOK, DequeuePacket, OutOfSync
<1>3. /\ readHeadMin' = After(p.sequenceNumber) /\ readHeadSpan' = 1
      /\ resultPriorityQueue' = resultPriorityQueue \ {p}
      /\ UNCHANGED <<nextSequenceNumber, outgoing, sent, incoming, network, latest>>
  BY DEF DequeuePacket, senderVars
<1>4. InPlace(begin, resultPriorityQueue)
  BY <1>1, QueueInPlace
<1>5. /\ Window!First(Indices(resultPriorityQueue)) = p.audioData
      /\ Indices(resultPriorityQueue \ {p}) = Indices(resultPriorityQueue) \ {p.audioData}
  BY <1>2, <1>4, FirstIsLowest
<1>6. /\ p.audioData \in Int /\ p.sequenceNumber \in SequenceNumber
      /\ Shortens(p.sequenceNumber, begin + p.audioData)
      /\ CongruentDifference(readHeadMin, p.sequenceNumber) = p.audioData - head
      /\ p.audioData - head \in 0 .. MaxQueueAhead
  BY <1>4, StreamAssumption DEF InPlace, EncodedAudioPacket
<1>7. Shortens(readHeadMin', begin + (p.audioData + 1)) /\ readHeadMin' \in SequenceNumber
  <2>1. (begin + p.audioData) + 1 = begin + (p.audioData + 1)
    BY <1>2, <1>6
  <2>2. Shortens(After(p.sequenceNumber), (begin + p.audioData) + 1)
    BY <1>6, ShortensAfter
  <2> QED  BY <1>3, <2>1, <2>2 DEF Shortens
<1>8. head' = p.audioData + 1
  <2>1. Shortens(readHeadMin, begin + head)
    BY <1>1 DEF Placed, DequeuePacket
  <2>2. PICK x \in SequenceNumber, y \in Int, s \in SequenceNumber, long \in Int :
          /\ x = readHeadMin /\ y = begin + head
          /\ s = readHeadMin' /\ long = begin + (p.audioData + 1)
    <3>1. begin + head \in Int /\ begin + (p.audioData + 1) \in Int
      BY <1>2, <1>6
    <3> QED  BY <1>2, <1>7, <3>1
  <2>3. Shortens(s, long) /\ Shortens(x, y) /\ long - y \in -HalfRange .. HalfRange - 1
    BY <1>2, <1>6, <1>7, <2>1, <2>2, JitterAssumption
  <2>4. CongruentDifference(x, s) = long - y
    BY <2>3, ShortWay
  <2>5. CongruentDifference(readHeadMin, readHeadMin') = p.audioData + 1 - head
    <3>1. CongruentDifference(readHeadMin, readHeadMin') = long - y
      BY <2>2, <2>4
    <3>2. long - y = p.audioData + 1 - head
      <4>1. begin \in Int /\ head \in Int /\ p.audioData \in Int
        BY <1>2, <1>6
      <4>2. y = begin + head /\ long = begin + (p.audioData + 1)
        BY <2>2
      <4> QED  BY <4>1, <4>2
    <3> QED  BY <3>1, <3>2, Zenon
  <2> QED  BY <1>2, <1>6, <2>5 DEF HeadMoves
<1>9. ASSUME NEW q \in resultPriorityQueue \ {p}
      PROVE  CongruentDifference(readHeadMin', q.sequenceNumber) = q.audioData - head'
  <2>1. /\ q.audioData \in Int /\ q.sequenceNumber \in SequenceNumber
        /\ Shortens(q.sequenceNumber, begin + q.audioData)
        /\ q.audioData - head \in 0 .. MaxQueueAhead
    BY <1>4, StreamAssumption DEF InPlace, EncodedAudioPacket
  <2>2. PICK x \in SequenceNumber, y \in Int, s \in SequenceNumber, long \in Int :
          /\ x = readHeadMin' /\ y = begin + (p.audioData + 1)
          /\ s = q.sequenceNumber /\ long = begin + q.audioData
    BY <1>2, <1>6, <1>7, <2>1
  <2>3. Shortens(s, long) /\ Shortens(x, y) /\ long - y \in -HalfRange .. HalfRange - 1
    BY <1>2, <1>6, <1>7, <2>1, <2>2, JitterAssumption
  <2>4. CongruentDifference(x, s) = long - y
    BY <2>3, ShortWay
  <2> QED  BY <1>2, <1>6, <1>8, <2>1, <2>2, <2>4
<1>10. PacketsInv'
  <2>1. JitterInv'
    BY DequeuePacketInv DEF PacketsInv
  <2>2. StreamTypeOK'
    <3>1. JitterTypeOK' /\ head' \in Int
      BY <1>6, <1>8, <2>1 DEF JitterInv
    <3> QED  BY <1>3, <3>1 DEF PacketsInv, StreamTypeOK
  <2>3. Numbered(begin)'
    BY <1>1, <1>3 DEF Numbered
  <2>4. Placed(begin)'
    BY <1>1, <1>3, <1>7, <1>8, <1>9 DEF Placed
  <2> QED  BY <1>1, <2>1, <2>2, <2>3, <2>4 DEF PacketsInv, QuarterRange
<1>11. Window!Play
  <2>1. readHeadSpan - 1 < BadSpanThreshold /\ readHeadSpan' - 1 = 0
    BY <1>2, <1>3
  <2>2. p.audioData <= head + (readHeadSpan - 1)
    BY <1>2, <1>6 DEF UnderReadHead
  <2>3. Indices(resultPriorityQueue) # {}
    BY DEF Indices
  <2>4. Indices(resultPriorityQueue')
          = Indices(resultPriorityQueue) \ {Window!First(Indices(resultPriorityQueue))}
    BY <1>3, <1>5
  <2> QED  BY <1>5, <1>8, <2>1, <2>2, <2>3, <2>4 DEF Window!Play, Indices
<1> QED  BY <1>10, <1>11 DEF Follows, Window!Next

LEMMA StreamFollows == PacketsInv /\ [StreamNext]_streamVars => Follows
<1> SUFFICES ASSUME PacketsInv, [StreamNext]_streamVars PROVE Follows
  OBVIOUS
<1>1. ASSUME UNCHANGED readerVars, PacketsInv' PROVE Follows
  BY <1>1, NothingFollows DEF Follows, readerVars
<1>2. CASE SendPacket
  BY <1>1, <1>2, SendPacketInv DEF SendPacket
<1>3. ASSUME NEW m \in network, Lose(m) PROVE Follows
  BY <1>1, <1>3, NothingArrivesInv DEF Lose, readerVars
<1>4. ASSUME NEW m \in network, Receive(m) PROVE Follows
  BY <1>4, ReceiveFollows
<1>5. ASSUME UNCHANGED streamVars PROVE Follows
  BY <1>1, <1>5, NothingArrivesInv DEF streamVars, readerVars
<1>6. CASE PullPacket
  <2>1. HeadMoves /\ UNCHANGED <<senderVars, incoming, network, latest>>
    BY <1>6 DEF PullPacket
  <2>2. CASE DequeueOutOfSync
    <3>1. UNCHANGED jitterVars
      BY <2>2 DEF DequeueOutOfSync
    <3>2. UNCHANGED head
      <4>1. readHeadMin \in SequenceNumber /\ readHeadMin' = readHeadMin /\ head \in Int
        BY <3>1 DEF PacketsInv, StreamTypeOK, JitterTypeOK, jitterVars
      <4>2. CongruentDifference(readHeadMin, readHeadMin') = 0
        BY <4>1, DifferenceToSelf
      <4> QED  BY <2>1, <4>1, <4>2 DEF HeadMoves
    <3>3. PacketsInv'
      BY <2>1, <3>1, <3>2, NothingArrivesInv
    <3> QED  BY <3>1, <3>2, <3>3, NothingFollows DEF Follows
  <2>3. CASE DequeueNothing
    BY <2>1, <2>3, PullNothingFollows
  <2>4. ASSUME NEW p \in resultPriorityQueue, DequeuePacket(p) PROVE Follows
    BY <2>1, <2>4, PullPacketFollows
  <2> QED  BY <1>6, <2>2, <2>3, <2>4 DEF PullPacket
<1> QED
  BY <1>2, <1>3, <1>4, <1>5, <1>6 DEF StreamNext, ReceiveUnauthentic

(***************************************************************************)
(* Whatever the network loses, repeats or reorders, as long as fewer than  *)
(* 2^14 packets in a row are missing, the receiver decrypts every packet   *)
(* with the vector it was encrypted with (SequenceCounter.m:19-34,         *)
(* SrtpStream.m:24-60, AudioPacker.m:16-71).                               *)
(***************************************************************************)
THEOREM AudioIsDecrypted == StreamSpec => [](StreamTypeOK /\ DecryptsWhatWasSent)
<1>1. PacketsInv => StreamTypeOK /\ DecryptsWhatWasSent
  BY StreamAssumption DEF PacketsInv, Placed, DecryptsWhatWasSent
<1>2. PacketsInv /\ [StreamNext]_streamVars => PacketsInv'
  BY StreamFollows DEF Follows
<1> QED
  BY <1>1, <1>2, StreamStarts, PTL DEF StreamSpec

(***************************************************************************)
(* The queue with 16 bit numbers that wrap implements the window of a      *)
(* stream whose numbers never wrap: audio is played in the order it was    *)
(* recorded, and the place in the stream is given up only after the        *)
(* silence the code waits for (JitterQueue.m:43-147).                      *)
(***************************************************************************)
THEOREM AudioPlaysInOrder == StreamSpec => PlaysInOrder
<1>1. StreamInit => Window!Init
  BY JitterAssumption DEF StreamInit, JitterInit, Window!Init
<1>2. PacketsInv /\ [StreamNext]_streamVars => PacketsInv' /\ [Window!Next]_(Window!windowVars)
  BY StreamFollows DEF Follows
<1> QED
  BY <1>1, <1>2, StreamStarts, PTL DEF StreamSpec, PlaysInOrder, Window!Spec
-----------------------------------------------------------------------------
(* The heap *)

LEMMA PathWalks ==
  ASSUME NEW n \in Nat, NEW turn \in [1 .. n -> 1 .. n], NEW start \in 1 .. n
  PROVE  Walks(PQ!Path(turn, start, n), turn, start, n, 1 .. n)
<1> DEFINE Of(f) == [k \in 0 .. n |-> IF k = 0 THEN start ELSE turn[f[k - 1]]]
           at == CHOOSE f : f = Of(f)
<1>1. PICK f : Walks(f, turn, start, n, 1 .. n)
  BY TurnsExist
<1>2. f = Of(f)
  <2>1. \A k \in 0 .. n : f[k] = Of(f)[k]
    <3>1. \A k \in 0 .. n : k = 0 \/ k \in 1 .. n
      OBVIOUS
    <3> QED  BY <1>1, <3>1 DEF Walks
  <2>2. /\ DOMAIN f = 0 .. n /\ f = [k \in 0 .. n |-> f[k]]
        /\ DOMAIN Of(f) = 0 .. n /\ Of(f) = [k \in 0 .. n |-> Of(f)[k]]
    BY <1>1 DEF Walks
  <2> HIDE DEF Of
  <2> QED  BY <2>1, <2>2
<1> HIDE DEF Of
<1>3. at = Of(at)
  BY <1>2
<1>4. PQ!Path(turn, start, n) = at
  BY DEF PQ!Path, Of
<1> HIDE DEF at
<1>5. at[0] = start /\ \A k \in 1 .. n : at[k] = turn[at[k - 1]]
  <2>1. \A k \in 0 .. n : at[k] = IF k = 0 THEN start ELSE turn[at[k - 1]]
    BY <1>3 DEF Of
  <2>2. 0 \in 0 .. n /\ \A k \in 1 .. n : k \in 0 .. n /\ k # 0
    OBVIOUS
  <2> QED  BY <2>1, <2>2
<1>6. at \in [0 .. n -> 1 .. n]
  <2> DEFINE S == {k \in Nat : k <= n => at[k] \in 1 .. n}
  <2>1. 0 \in S
    BY <1>5
  <2>2. ASSUME NEW k \in Nat, k \in S PROVE k + 1 \in S
    <3> SUFFICES ASSUME k + 1 <= n PROVE at[k + 1] \in 1 .. n
      OBVIOUS
    <3>1. k + 1 \in 1 .. n /\ (k + 1) - 1 = k /\ at[k] \in 1 .. n
      BY <2>2
    <3>2. at[k + 1] = turn[at[(k + 1) - 1]]
      BY <1>5, <3>1
    <3> QED  BY <3>1, <3>2
  <2> HIDE DEF S
  <2>3. \A k \in Nat : k \in S
    BY <2>1, <2>2, InductionOnNat
  <2>4. at = [k \in 0 .. n |-> at[k]]
    BY <1>3 DEF Of
  <2>5. \A k \in 0 .. n : at[k] \in 1 .. n
    BY <2>3 DEF S
  <2> QED  BY <2>4, <2>5
<1> QED  BY <1>4, <1>5, <1>6 DEF Walks

\* The places a walk comes to.
Places(at, n) == {at[k] : k \in 0 .. n}

\* A walk that has come to rest stays there.
LEMMA WalkRests ==
  ASSUME NEW n \in Nat, NEW turn, NEW start, NEW at, Walks(at, turn, start, n, 1 .. n),
         NEW k \in 0 .. n, turn[at[k]] = at[k]
  PROVE  at[n] = at[k]
<1> DEFINE S == {l \in Nat : k + l <= n => at[k + l] = at[k]}
<1>1. 0 \in S
  OBVIOUS
<1>2. ASSUME NEW l \in Nat, l \in S PROVE l + 1 \in S
  <2> SUFFICES ASSUME k + (l + 1) <= n PROVE at[k + (l + 1)] = at[k]
    OBVIOUS
  <2>1. k + (l + 1) \in 1 .. n /\ k + (l + 1) - 1 = k + l
    OBVIOUS
  <2>2. at[k + l] = at[k]
    BY <1>2
  <2>3. at[k + (l + 1)] = turn[at[k + (l + 1) - 1]]
    BY <2>1 DEF Walks
  <2> QED  BY <2>1, <2>2, <2>3
<1> HIDE DEF S
<1>3. n - k \in S
  BY <1>1, <1>2, InductionOnNat
<1> QED  BY <1>3 DEF S

\* Every place of a walk but the last has its turn among them, every one but
\* the first is the turn of another.
LEMMA WalkGoesOn ==
  ASSUME NEW n \in Nat, NEW turn, NEW start, NEW at, Walks(at, turn, start, n, 1 .. n)
  PROVE  /\ start \in Places(at, n) /\ at[n] \in Places(at, n) /\ Places(at, n) \subseteq 1 .. n
         /\ \A j \in Places(at, n) : j # at[n] => turn[j] \in Places(at, n) /\ turn[j] # j
         /\ \A j \in Places(at, n) : j # start => \E c \in Places(at, n) : c # j /\ turn[c] = j
<1>1. start \in Places(at, n) /\ at[n] \in Places(at, n) /\ Places(at, n) \subseteq 1 .. n
  <2>1. 0 \in 0 .. n /\ n \in 0 .. n
    OBVIOUS
  <2> QED  BY <2>1 DEF Walks, Places
<1>2. ASSUME NEW j \in Places(at, n), j # at[n]
      PROVE  turn[j] \in Places(at, n) /\ turn[j] # j
  <2>1. PICK k \in 0 .. n : j = at[k]
    BY DEF Places
  <2>2. k + 1 \in 1 .. n /\ (k + 1) - 1 = k
    BY <1>2, <2>1
  <2>3. turn[j] = at[k + 1]
    BY <2>1, <2>2 DEF Walks
  <2>4. turn[j] # j
    BY <1>2, <2>1, WalkRests
  <2>5. k + 1 \in 0 .. n
    BY <2>2
  <2> QED  BY <2>3, <2>4, <2>5 DEF Places
<1>3. ASSUME NEW j \in Places(at, n), j # start
      PROVE  \E c \in Places(at, n) : c # j /\ turn[c] = j
  <2> DEFINE Reached(k) == at[k] = start \/ \E c \in Places(at, n) : c # at[k] /\ turn[c] = at[k]
             S == {k \in Nat : k <= n => Reached(k)}
  <2>1. 0 \in S
    BY DEF Walks
  <2>2. ASSUME NEW k \in Nat, k \in S PROVE k + 1 \in S
    <3> SUFFICES ASSUME k + 1 <= n PROVE Reached(k + 1)
      OBVIOUS
    <3>1. k + 1 \in 1 .. n /\ (k + 1) - 1 = k /\ k \in 0 .. n /\ Reached(k)
      BY <2>2
    <3>2. at[k + 1] = turn[at[k]] /\ at[k] \in Places(at, n)
      BY <3>1 DEF Walks, Places
    <3>3. CASE at[k + 1] = at[k]
      BY <3>1, <3>3
    <3>4. CASE at[k + 1] # at[k]
      BY <3>2, <3>4
    <3> QED  BY <3>3, <3>4
  <2>3. PICK k \in 0 .. n : j = at[k]
    BY DEF Places
  <2> HIDE DEF S
  <2>4. k \in S
    BY <2>1, <2>2, InductionOnNat
  <2> QED  BY <1>3, <2>3, <2>4 DEF S
<1> QED  BY <1>1, <1>2, <1>3

\* A walk that only goes up, or only down, comes to rest.
LEMMA WalkEnds ==
  ASSUME NEW n \in Nat, NEW turn, NEW start, NEW at, Walks(at, turn, start, n, 1 .. n),
         \/ \A i \in 1 .. n : turn[i] <= i
         \/ \A i \in 1 .. n : turn[i] >= i
  PROVE  turn[at[n]] = at[n]
<1>1. \A k \in 0 .. n : at[k] \in 1 .. n
  BY DEF Walks
<1>2. ASSUME NEW k \in Nat, k + 1 <= n
      PROVE  k \in 0 .. n /\ k + 1 \in 0 .. n /\ at[k + 1] = turn[at[k]]
  <2>1. k + 1 \in 1 .. n /\ (k + 1) - 1 = k /\ k \in 0 .. n /\ k + 1 \in 0 .. n
    BY <1>2
  <2>2. at[k + 1] = turn[at[(k + 1) - 1]]
    BY <2>1 DEF Walks
  <2> QED  BY <2>1, <2>2
<1>3. CASE \A i \in 1 .. n : turn[i] <= i
  <2> DEFINE S == {k \in Nat : k <= n => at[k] <= n - k \/ turn[at[k]] = at[k]}
  <2>1. 0 \in S
    BY <1>1
  <2>2. ASSUME NEW k \in Nat, k \in S PROVE k + 1 \in S
    <3> SUFFICES ASSUME k + 1 <= n, ~(turn[at[k + 1]] = at[k + 1]) PROVE at[k + 1] <= n - (k + 1)
      OBVIOUS
    <3>1. /\ at[k] \in 1 .. n /\ at[k + 1] \in 1 .. n /\ at[k + 1] = turn[at[k]]
          /\ at[k + 1] # at[k]
      BY <1>1, <1>2
    <3>2. at[k] <= n - k
      BY <2>2, <3>1
    <3> QED  BY <1>3, <3>1, <3>2
  <2> HIDE DEF S
  <2>3. n \in S
    BY <2>1, <2>2, InductionOnNat
  <2> QED  BY <1>1, <2>3 DEF S
<1>4. CASE \A i \in 1 .. n : turn[i] >= i
  <2> DEFINE S == {k \in Nat : k <= n => at[k] > k \/ turn[at[k]] = at[k]}
  <2>1. 0 \in S
    BY <1>1
  <2>2. ASSUME NEW k \in Nat, k \in S PROVE k + 1 \in S
    <3> SUFFICES ASSUME k + 1 <= n, ~(turn[at[k + 1]] = at[k + 1]) PROVE at[k + 1] > k + 1
      OBVIOUS
    <3>1. /\ at[k] \in 1 .. n /\ at[k + 1] \in 1 .. n /\ at[k + 1] = turn[at[k]]
          /\ at[k + 1] # at[k]
      BY <1>1, <1>2
    <3>2. at[k] > k
      BY <2>2, <3>1
    <3> QED  BY <1>4, <3>1, <3>2
  <2> HIDE DEF S
  <2>3. n \in S
    BY <2>1, <2>2, InductionOnNat
  <2> QED  BY <1>1, <2>3 DEF S
<1> QED  BY <1>3, <1>4

\* The packets of R come in the order of their indices.
Ranked(R) ==
  \A p, q \in R : p.audioData \in Int /\ ComparePackets(p, q) = p.audioData - q.audioData

\* No packet of the array comes before the one above it.
InHeap(s) == \A j \in 2 .. Len(s) : s[j \div 2].audioData <= s[j].audioData

LEMMA Halves ==
  \A j \in Nat : j >= 2 => /\ j \div 2 \in Nat /\ j \div 2 >= 1 /\ j \div 2 < j
                           /\ (j = 2 * (j \div 2) \/ j = 2 * (j \div 2) + 1)
OBVIOUS

\* S is the path of an item that moves up, B the place where it comes to rest.
MovesUpTo(s, item, S, B) ==
  /\ Len(s) + 1 \in S /\ B \in S /\ S \subseteq 1 .. Len(s) + 1
  /\ \A j \in S : j # B => j >= 2 /\ j \div 2 \in S /\ item.audioData < s[j \div 2].audioData
  /\ \A j \in S : j # Len(s) + 1 =>
       \E c \in S : c >= 2 /\ c # B /\ c \div 2 = j /\ item.audioData < s[j].audioData
  /\ B = 1 \/ item.audioData >= s[B \div 2].audioData
  /\ PQ!Enqueue(s, item)
       = [j \in 1 .. Len(s) + 1 |-> IF j = B THEN item ELSE IF j \in S THEN s[j \div 2] ELSE s[j]]

LEMMA UpwardPath ==
  ASSUME NEW R, Ranked(R), NEW s \in Seq(R), NEW item \in R
  PROVE  \E S, B : MovesUpTo(s, item, S, B)
<1> DEFINE n == Len(s) + 1
           turn == PQ!MovesUp(s, item)
           at == PQ!Path(turn, n, n)
           S == Places(at, n)
           B == at[n]
<1>1. n \in Nat /\ n \in 1 .. n /\ \A j \in 2 .. n : j \div 2 \in 1 .. Len(s) /\ j \div 2 < j
  BY Halves
<1>2. ASSUME NEW i \in 1 .. n
      PROVE  turn[i] = IF i = 1 \/ item.audioData >= s[i \div 2].audioData THEN i ELSE i \div 2
  <2>1. turn[i] = IF i = 1 \/ ComparePackets(item, s[i \div 2]) >= 0 THEN i ELSE i \div 2
    BY DEF PQ!MovesUp
  <2>2. ASSUME i # 1
        PROVE  ComparePackets(item, s[i \div 2]) >= 0 <=> item.audioData >= s[i \div 2].audioData
    <3>1. i \in 2 .. n
      BY <2>2
    <3>2. s[i \div 2] \in R
      BY <1>1, <3>1
    <3>3. PICK p \in R : p = s[i \div 2]
      BY <3>2
    <3>4. ComparePackets(item, p) = item.audioData - p.audioData
          /\ p.audioData \in Int /\ item.audioData \in Int
      BY DEF Ranked
    <3> QED  BY <3>3, <3>4
  <2> QED  BY <2>1, <2>2
<1>3. turn \in [1 .. n -> 1 .. n] /\ \A i \in 1 .. n : turn[i] <= i
  <2>1. \A i \in 1 .. n : turn[i] \in 1 .. n /\ turn[i] <= i
    <3> SUFFICES ASSUME NEW i \in 1 .. n PROVE turn[i] \in 1 .. n /\ turn[i] <= i
      OBVIOUS
    <3> HIDE DEF turn
    <3>1. i = 1 \/ i \in 2 .. n
      OBVIOUS
    <3>2. turn[i] = i \/ (i \in 2 .. n /\ turn[i] = i \div 2)
      BY <1>2, <3>1
    <3> QED  BY <1>1, <3>2
  <2>2. turn = [i \in 1 .. n |-> turn[i]]
    BY DEF PQ!MovesUp
  <2> HIDE DEF turn
  <2> QED  BY <2>1, <2>2
<1> HIDE DEF turn
<1>4. Walks(at, turn, n, n, 1 .. n)
  BY <1>1, <1>3, PathWalks
<1>5. PQ!Enqueue(s, item)
                = [j \in 1 .. n |-> IF j = B THEN item ELSE IF j \in S THEN s[j \div 2] ELSE s[j]]
  <2>1. \A j : j \in S <=> \E k \in 0 .. n : j = at[k]
    BY DEF Places
  <2>2. PQ!Enqueue(s, item)
          = [j \in 1 .. n |-> IF j = B THEN item
                              ELSE IF \E k \in 0 .. n : j = at[k] THEN s[j \div 2] ELSE s[j]]
    BY DEF PQ!Enqueue, turn
  <2> HIDE DEF n, at, S
  <2> QED  BY <2>1, <2>2
<1> HIDE DEF at
<1>6. /\ n \in S /\ B \in S /\ S \subseteq 1 .. n
      /\ \A j \in S : j # B => turn[j] \in S /\ turn[j] # j
      /\ \A j \in S : j # n => \E c \in S : c # j /\ turn[c] = j
      /\ turn[B] = B
  <2>1. turn[at[n]] = at[n]
    BY <1>1, <1>3, <1>4, WalkEnds
  <2>2. /\ n \in Places(at, n) /\ at[n] \in Places(at, n) /\ Places(at, n) \subseteq 1 .. n
        /\ \A j \in Places(at, n) : j # at[n] => turn[j] \in Places(at, n) /\ turn[j] # j
        /\ \A j \in Places(at, n) : j # n => \E c \in Places(at, n) : c # j /\ turn[c] = j
    BY <1>1, <1>4, WalkGoesOn
  <2> QED  BY <2>1, <2>2
<1> HIDE DEF S, B, n
<1>7. \A j \in S : j # B => j >= 2 /\ j \div 2 \in S /\ item.audioData < s[j \div 2].audioData
  <2> SUFFICES ASSUME NEW j \in S, j # B
               PROVE  j >= 2 /\ j \div 2 \in S /\ item.audioData < s[j \div 2].audioData
    OBVIOUS
  <2>1. j \in 1 .. n /\ turn[j] \in S /\ turn[j] # j
    BY <1>6
  <2>2. j # 1 /\ turn[j] = j \div 2 /\ ~(item.audioData >= s[j \div 2].audioData)
    BY <1>2, <2>1
  <2>3. j \in 2 .. n
    BY <1>1, <2>1, <2>2
  <2>4. PICK p \in R : p = s[j \div 2]
    BY <1>1, <2>3
  <2>5. p.audioData \in Int /\ item.audioData \in Int
    BY DEF Ranked
  <2> QED  BY <2>1, <2>2, <2>3, <2>4, <2>5
<1>8. \A j \in S : j # n =>
        \E c \in S : c >= 2 /\ c # B /\ c \div 2 = j /\ item.audioData < s[j].audioData
  <2> SUFFICES ASSUME NEW j \in S, j # n
               PROVE  \E c \in S : c >= 2 /\ c # B /\ c \div 2 = j /\ item.audioData < s[j].audioData
    OBVIOUS
  <2>1. PICK c \in S : c # j /\ turn[c] = j
    BY <1>6
  <2>2. c # B
    BY <1>6, <2>1
  <2>3. c >= 2 /\ item.audioData < s[c \div 2].audioData
    BY <1>7, <2>2
  <2>4. turn[c] = c \div 2
    BY <1>2, <1>6, <2>1
  <2> QED  BY <2>1, <2>2, <2>3, <2>4
<1>9. B = 1 \/ item.audioData >= s[B \div 2].audioData
  <2>1. B \in 1 .. n /\ turn[B] = B
    BY <1>6
  <2>2. B # 1 => B \div 2 # B
    BY <1>1, <2>1
  <2> QED  BY <1>2, <2>1, <2>2
<1>10. MovesUpTo(s, item, S, B)
  BY <1>5, <1>6, <1>7, <1>8, <1>9 DEF n, MovesUpTo
<1> QED  BY <1>10

LEMMA EnqueueKeepsHeap ==
  ASSUME NEW R, Ranked(R), NEW s \in Seq(R), NEW item \in R, InHeap(s)
  PROVE  /\ PQ!Enqueue(s, item) \in Seq(R) /\ Len(PQ!Enqueue(s, item)) = Len(s) + 1
         /\ InHeap(PQ!Enqueue(s, item))
         /\ Range(PQ!Enqueue(s, item)) = Range(s) \cup {item}
<1>1. PICK S, B : MovesUpTo(s, item, S, B)
  BY UpwardPath
<1>2. PICK n \in Nat : n = Len(s) + 1
  OBVIOUS
<1>3. PICK e : e = PQ!Enqueue(s, item)
  OBVIOUS
<1>4. \A j \in 2 .. n : j \div 2 \in 1 .. Len(s) /\ j \div 2 \in 1 .. n /\ j \div 2 < j
  BY <1>2, Halves
<1>5. /\ n \in S /\ B \in S /\ S \subseteq 1 .. n
      /\ \A j \in S : j # B => /\ j \in 2 .. n /\ j \div 2 \in S
                               /\ item.audioData < s[j \div 2].audioData
      /\ \A j \in S : j # n =>
           \E c \in S : c \in 2 .. n /\ c # B /\ c \div 2 = j /\ item.audioData < s[j].audioData
      /\ B = 1 \/ item.audioData >= s[B \div 2].audioData
      /\ e = [j \in 1 .. n |-> IF j = B THEN item ELSE IF j \in S THEN s[j \div 2] ELSE s[j]]
  BY <1>1, <1>2, <1>3 DEF MovesUpTo
<1>6. /\ \A j \in 1 .. n : e[j] = IF j = B THEN item ELSE IF j \in S THEN s[j \div 2] ELSE s[j]
      /\ DOMAIN e = 1 .. n
  BY <1>5
<1>7. \A j \in 1 .. n : j \in S \/ j \in 1 .. Len(s)
  BY <1>2, <1>5
<1>8. \A j \in 1 .. n : e[j] = item \/ \E k \in 1 .. Len(s) : e[j] = s[k]
  <2> SUFFICES ASSUME NEW j \in 1 .. n PROVE e[j] = item \/ \E k \in 1 .. Len(s) : e[j] = s[k]
    OBVIOUS
  <2>1. CASE j = B
    BY <1>6, <2>1
  <2>2. CASE j \in S /\ j # B
    <3>1. j \in 2 .. n /\ e[j] = s[j \div 2]
      BY <1>5, <1>6, <2>2
    <3> QED  BY <1>4, <3>1
  <2>3. CASE j \notin S
    <3>1. e[j] = s[j] /\ j \in 1 .. Len(s)
      BY <1>5, <1>6, <1>7, <2>3
    <3> QED  BY <3>1
  <2> QED  BY <2>1, <2>2, <2>3
<1>9. e \in Seq(R) /\ Len(e) = n
  <2>1. \A j \in 1 .. n : e[j] \in R
    BY <1>8
  <2> QED  BY <1>5, <2>1
<1>10. /\ item.audioData \in Int /\ \A j \in 1 .. Len(s) : s[j].audioData \in Int
      /\ \A j \in 2 .. n : j \in 1 .. Len(s) => s[j \div 2].audioData <= s[j].audioData
  BY <1>2 DEF Ranked, InHeap
<1>11. InHeap(e)
  <2> SUFFICES ASSUME NEW j \in 2 .. n PROVE e[j \div 2].audioData <= e[j].audioData
    BY <1>9 DEF InHeap
  <2>1. PICK i \in 1 .. Len(s) : i = j \div 2 /\ i \in 1 .. n /\ i < j /\ i # n
    BY <1>2, <1>4
  <2>2. \/ i = 1 \/ (i \in 2 .. n /\ i \div 2 \in 1 .. Len(s)
                       /\ s[i \div 2].audioData <= s[i].audioData)
    BY <1>4, <1>10, <2>1
  <2>3. e[i].audioData \in Int
    BY <1>9, <2>1 DEF Ranked
  <2>4. i \in S /\ i # B => i \in 2 .. n /\ e[i].audioData <= s[i].audioData
    BY <1>5, <1>6, <2>1, <2>2
  <2>5. i \notin S => e[i].audioData = s[i].audioData
    BY <1>5, <1>6, <2>1
  <2>6. i = B => e[i].audioData < s[i].audioData
    BY <1>5, <1>6, <2>1
  <2>7. e[i].audioData <= s[i].audioData
    BY <1>10, <2>1, <2>3, <2>4, <2>5, <2>6
  <2>8. CASE j = B
    <3>1. e[j].audioData = item.audioData /\ item.audioData >= s[i].audioData
      BY <1>5, <1>6, <2>1, <2>8
    <3> QED  BY <1>10, <2>1, <2>3, <2>7, <3>1
  <2>9. CASE j \in S /\ j # B
    <3>1. e[j].audioData = s[i].audioData
      BY <1>6, <2>1, <2>9
    <3> QED  BY <2>1, <2>7, <3>1
  <2>10. CASE j \notin S
    <3>1. e[j].audioData = s[j].audioData /\ j \in 1 .. Len(s)
      BY <1>5, <1>6, <1>7, <2>10
    <3>2. s[i].audioData <= s[j].audioData
      BY <1>10, <2>1, <3>1
    <3> QED  BY <1>10, <2>1, <2>3, <2>7, <3>1, <3>2
  <2> QED  BY <2>8, <2>9, <2>10
<1>12. Range(e) = Range(s) \cup {item}
  <2>1. DOMAIN s = 1 .. Len(s)
    OBVIOUS
  <2>2. ASSUME NEW j \in 1 .. n PROVE e[j] \in Range(s) \cup {item}
    BY <1>8, <2>1 DEF Range
  <2>3. item \in Range(e)
    <3>1. B \in 1 .. n /\ e[B] = item
      BY <1>5, <1>6
    <3> QED  BY <1>6, <3>1 DEF Range
  <2>4. ASSUME NEW k \in 1 .. Len(s) PROVE s[k] \in Range(e)
    <3>1. k \in 1 .. n /\ k # n
      BY <1>2
    <3>2. CASE k \notin S
      <4>1. e[k] = s[k]
        BY <1>5, <1>6, <3>1, <3>2
      <4> QED  BY <1>6, <3>1, <4>1 DEF Range
    <3>3. CASE k \in S
      <4>1. PICK c \in S : c \in 2 .. n /\ c # B /\ c \div 2 = k
        BY <1>5, <3>1, <3>3
      <4>2. c \in 1 .. n /\ e[c] = s[k]
        BY <1>5, <1>6, <4>1
      <4> QED  BY <1>6, <4>2 DEF Range
    <3> QED  BY <3>2, <3>3
  <2>5. \A x \in Range(e) : x \in Range(s) \cup {item}
    BY <1>6, <2>2 DEF Range
  <2>6. \A x \in Range(s) : x \in Range(e)
    BY <2>1, <2>4 DEF Range
  <2> QED  BY <2>3, <2>5, <2>6
<1> QED  BY <1>2, <1>3, <1>9, <1>11, <1>12

\* Nothing comes before what is at the top.
LEMMA TopIsLeast ==
  ASSUME NEW R, Ranked(R), NEW s \in Seq(R), InHeap(s)
  PROVE  \A j \in 1 .. Len(s) : s[1].audioData <= s[j].audioData
<1> DEFINE S == {n \in Nat : \A j \in 1 .. Len(s) : j <= n => s[1].audioData <= s[j].audioData}
<1>1. \A j \in 1 .. Len(s) : s[j].audioData \in Int
  BY DEF Ranked
<1>2. 0 \in S
  OBVIOUS
<1>3. ASSUME NEW n \in Nat, n \in S PROVE n + 1 \in S
  <2> SUFFICES ASSUME NEW j \in 1 .. Len(s), j = n + 1 PROVE s[1].audioData <= s[j].audioData
    BY <1>3
  <2>1. CASE j = 1
    BY <1>1, <2>1
  <2>2. CASE j # 1
    <3>1. j \in 2 .. Len(s)
      BY <2>2
    <3>2. PICK i \in 1 .. Len(s) : i = j \div 2 /\ i <= n
      BY <3>1, Halves
    <3>3. s[i].audioData <= s[j].audioData
      BY <3>1, <3>2 DEF InHeap
    <3>4. s[1].audioData <= s[i].audioData
      BY <1>3, <3>2
    <3>5. 1 \in 1 .. Len(s)
      OBVIOUS
    <3> QED  BY <1>1, <3>3, <3>4, <3>5
  <2> QED  BY <2>1, <2>2
<1> HIDE DEF S
<1>4. Len(s) \in S
  BY <1>2, <1>3, InductionOnNat
<1> QED  BY <1>4 DEF S

LEMMA SmallerChildIsChild ==
  ASSUME NEW R, Ranked(R), NEW s \in Seq(R), NEW i \in 1 .. Len(s), 2 * i < Len(s)
  PROVE  /\ PQ!SmallerChild(s, i) \in 2 .. Len(s) /\ i < PQ!SmallerChild(s, i)
         /\ PQ!SmallerChild(s, i) \div 2 = i
         /\ \A j \in 2 .. Len(s) : j \div 2 = i =>
              s[PQ!SmallerChild(s, i)].audioData <= s[j].audioData
<1>1. /\ 2 * i \in 2 .. Len(s) /\ 2 * i + 1 \in 2 .. Len(s)
      /\ i < 2 * i /\ i < 2 * i + 1 /\ (2 * i) \div 2 = i /\ (2 * i + 1) \div 2 = i
      /\ 2 * i \in 1 .. Len(s) /\ 2 * i + 1 \in 1 .. Len(s)
  OBVIOUS
<1>2. PICK p \in R, q \in R : p = s[2 * i] /\ q = s[2 * i + 1]
  BY <1>1
<1>3. p.audioData \in Int /\ q.audioData \in Int
      /\ (ComparePackets(p, q) <= 0 <=> p.audioData <= q.audioData)
  BY DEF Ranked
<1>4. PQ!SmallerChild(s, i) = IF ComparePackets(p, q) <= 0 THEN 2 * i ELSE 2 * i + 1
  BY <1>2 DEF PQ!SmallerChild
<1>5. ASSUME NEW j \in 2 .. Len(s), j \div 2 = i PROVE j = 2 * i \/ j = 2 * i + 1
  BY <1>5
<1>6. PQ!SmallerChild(s, i) = 2 * i \/ PQ!SmallerChild(s, i) = 2 * i + 1
  BY <1>4
<1>7. s[PQ!SmallerChild(s, i)].audioData <= p.audioData
      /\ s[PQ!SmallerChild(s, i)].audioData <= q.audioData
  <2>1. CASE ComparePackets(p, q) <= 0
    <3>1. s[PQ!SmallerChild(s, i)] = p
      BY <1>2, <1>4, <2>1
    <3> QED  BY <1>3, <2>1, <3>1
  <2>2. CASE ~(ComparePackets(p, q) <= 0)
    <3>1. s[PQ!SmallerChild(s, i)] = q
      BY <1>2, <1>4, <2>2
    <3> QED  BY <1>3, <2>2, <3>1
  <2> QED  BY <2>1, <2>2
<1> QED  BY <1>1, <1>2, <1>5, <1>6, <1>7

\* S is the path of the gap that moves down from the top, B the place where
\* the last item comes to rest.
MovesDownTo(s, S, B) ==
  /\ 1 \in S /\ B \in S /\ S \subseteq 1 .. Len(s)
  /\ \A j \in S : j # B => /\ 2 * j < Len(s) /\ PQ!SmallerChild(s, j) \in S
                           /\ s[PQ!SmallerChild(s, j)].audioData < s[Len(s)].audioData
  /\ \A j \in S : j # 1 =>
       \E c \in S : c # B /\ 2 * c < Len(s) /\ PQ!SmallerChild(s, c) = j
  /\ 2 * B >= Len(s) \/ s[Len(s)].audioData <= s[PQ!SmallerChild(s, B)].audioData
  /\ PQ!Dequeue(s)
       = [j \in 1 .. Len(s) - 1 |-> IF j = B THEN s[Len(s)]
                                    ELSE IF j \in S THEN s[PQ!SmallerChild(s, j)] ELSE s[j]]

LEMMA DownwardPath ==
  ASSUME NEW R, Ranked(R), NEW s \in Seq(R), s # <<>>
  PROVE  \E S, B : MovesDownTo(s, S, B)
<1> DEFINE n == Len(s)
           turn == PQ!GapMoves(s)
           at == PQ!Path(turn, 1, n)
           S == Places(at, n)
           B == at[n]
           child(i) == PQ!SmallerChild(s, i)
<1>1. n \in Nat /\ 1 \in 1 .. n /\ n \in 1 .. n
  OBVIOUS
<1>2. ASSUME NEW i \in 1 .. n, 2 * i < n
      PROVE  /\ child(i) \in 2 .. n /\ i < child(i)
             /\ s[child(i)].audioData \in Int /\ s[n].audioData \in Int
             /\ ComparePackets(s[n], s[child(i)]) <= 0
                  <=> s[n].audioData <= s[child(i)].audioData
  <2>1. child(i) \in 2 .. n /\ i < child(i)
    BY <1>2, SmallerChildIsChild
  <2>2. PICK p \in R, q \in R : p = s[n] /\ q = s[child(i)]
    <3> HIDE DEF child
    <3> QED  BY <1>1, <2>1
  <2>3. /\ p.audioData \in Int /\ q.audioData \in Int
        /\ ComparePackets(p, q) <= 0 <=> p.audioData <= q.audioData
    BY DEF Ranked
  <2> HIDE DEF child
  <2> QED  BY <2>1, <2>2, <2>3
<1>3. ASSUME NEW i \in 1 .. n
      PROVE  turn[i] = IF 2 * i >= n \/ s[n].audioData <= s[child(i)].audioData
                       THEN i ELSE child(i)
  <2>1. turn[i] = IF 2 * i >= n \/ ComparePackets(s[n], s[child(i)]) <= 0 THEN i ELSE child(i)
    BY DEF PQ!GapMoves
  <2>2. 2 * i >= n \/ 2 * i < n
    BY <1>1
  <2> HIDE DEF turn, child, n
  <2> QED  BY <1>2, <2>1, <2>2
<1>4. turn \in [1 .. n -> 1 .. n] /\ \A i \in 1 .. n : turn[i] >= i
  <2>1. turn = [i \in 1 .. n |-> turn[i]]
    BY DEF PQ!GapMoves
  <2>2. ASSUME NEW i \in 1 .. n PROVE turn[i] \in 1 .. n /\ turn[i] >= i
    <3> HIDE DEF turn, child
    <3>1. turn[i] = i \/ (2 * i < n /\ turn[i] = child(i))
      BY <1>3
    <3> QED  BY <1>2, <3>1
  <2> HIDE DEF turn
  <2> QED  BY <2>1, <2>2
<1> HIDE DEF turn
<1>5. Walks(at, turn, 1, n, 1 .. n)
  BY <1>1, <1>4, PathWalks
<1>6. PQ!Dequeue(s)
        = [j \in 1 .. n - 1 |-> IF j = B THEN s[n] ELSE IF j \in S THEN s[child(j)] ELSE s[j]]
  <2>1. \A j : j \in S <=> \E k \in 0 .. n : j = at[k]
    BY DEF Places
  <2>2. PQ!Dequeue(s)
          = [j \in 1 .. n - 1 |-> IF j = B THEN s[n]
                                  ELSE IF \E k \in 0 .. n : j = at[k] THEN s[child(j)] ELSE s[j]]
    BY DEF PQ!Dequeue, turn
  <2> HIDE DEF n, at, S, child
  <2> QED  BY <2>1, <2>2
<1> HIDE DEF at, child
<1>7. /\ 1 \in S /\ B \in S /\ S \subseteq 1 .. n
      /\ \A j \in S : j # B => turn[j] \in S /\ turn[j] # j
      /\ \A j \in S : j # 1 => \E c \in S : c # j /\ turn[c] = j
      /\ turn[B] = B
  <2>1. turn[at[n]] = at[n]
    BY <1>1, <1>4, <1>5, WalkEnds
  <2>2. /\ 1 \in Places(at, n) /\ at[n] \in Places(at, n) /\ Places(at, n) \subseteq 1 .. n
        /\ \A j \in Places(at, n) : j # at[n] => turn[j] \in Places(at, n) /\ turn[j] # j
        /\ \A j \in Places(at, n) : j # 1 => \E c \in Places(at, n) : c # j /\ turn[c] = j
    BY <1>1, <1>5, WalkGoesOn
  <2> QED  BY <2>1, <2>2
<1> HIDE DEF S, B, n
<1>8. \A j \in S : j # B => 2 * j < n /\ child(j) \in S /\ s[child(j)].audioData < s[n].audioData
  <2> SUFFICES ASSUME NEW j \in S, j # B
               PROVE  2 * j < n /\ child(j) \in S /\ s[child(j)].audioData < s[n].audioData
    OBVIOUS
  <2>1. j \in 1 .. n /\ turn[j] \in S /\ turn[j] # j
    BY <1>7
  <2>2. /\ ~(2 * j >= n) /\ turn[j] = child(j)
        /\ ~(s[n].audioData <= s[child(j)].audioData)
    BY <1>3, <2>1
  <2>3. 2 * j < n
    BY <1>1, <2>1, <2>2
  <2>4. s[child(j)].audioData \in Int /\ s[n].audioData \in Int
    BY <1>2, <2>1, <2>3
  <2> QED  BY <2>1, <2>2, <2>3, <2>4
<1>9. \A j \in S : j # 1 => \E c \in S : c # B /\ 2 * c < n /\ child(c) = j
  <2> SUFFICES ASSUME NEW j \in S, j # 1 PROVE \E c \in S : c # B /\ 2 * c < n /\ child(c) = j
    OBVIOUS
  <2>1. PICK c \in S : c # j /\ turn[c] = j
    BY <1>7
  <2>2. c # B
    BY <1>7, <2>1
  <2>3. turn[c] = child(c)
    BY <1>3, <1>7, <2>1
  <2> QED  BY <1>8, <2>1, <2>2, <2>3
<1>10. 2 * B >= n \/ s[n].audioData <= s[child(B)].audioData
  <2>1. B \in 1 .. n /\ turn[B] = B
    BY <1>7
  <2>2. 2 * B < n => child(B) # B
    BY <1>1, <1>2, <2>1
  <2>3. 2 * B < n \/ 2 * B >= n
    BY <1>1, <2>1
  <2> QED  BY <1>3, <2>1, <2>2, <2>3
<1>11. MovesDownTo(s, S, B)
  BY <1>6, <1>7, <1>8, <1>9, <1>10 DEF n, child, MovesDownTo
<1> QED  BY <1>11

LEMMA DequeueKeepsHeap ==
  ASSUME NEW R, Ranked(R), NEW s \in Seq(R), s # <<>>, InHeap(s),
         \A j, k \in 1 .. Len(s) : s[j] = s[k] => j = k
  PROVE  /\ PQ!Dequeue(s) \in Seq(R) /\ Len(PQ!Dequeue(s)) = Len(s) - 1
         /\ InHeap(PQ!Dequeue(s))
         /\ Range(PQ!Dequeue(s)) = Range(s) \ {s[1]}
<1>1. PICK S, B : MovesDownTo(s, S, B)
  BY DownwardPath
<1>2. PICK n \in Nat : n = Len(s) /\ n >= 1
  OBVIOUS
<1>3. PICK d : d = PQ!Dequeue(s)
  OBVIOUS
<1> DEFINE child(i) == PQ!SmallerChild(s, i)
<1>4. \A i \in 1 .. n : 2 * i < n =>
        /\ child(i) \in 2 .. n /\ i < child(i) /\ child(i) \div 2 = i
        /\ \A j \in 2 .. n : j \div 2 = i => s[child(i)].audioData <= s[j].audioData
  BY <1>2, SmallerChildIsChild
<1>5. /\ 1 \in S /\ B \in S /\ S \subseteq 1 .. n
      /\ \A j \in S : j # B => /\ 2 * j < n /\ child(j) \in S
                               /\ s[child(j)].audioData < s[n].audioData
      /\ \A j \in S : j # 1 => \E c \in S : c # B /\ 2 * c < n /\ child(c) = j
      /\ 2 * B >= n \/ s[n].audioData <= s[child(B)].audioData
      /\ d = [j \in 1 .. n - 1 |-> IF j = B THEN s[n] ELSE IF j \in S THEN s[child(j)] ELSE s[j]]
  BY <1>1, <1>2, <1>3 DEF MovesDownTo
<1> HIDE DEF child
<1>6. /\ \A j \in 1 .. n - 1 :
           d[j] = IF j = B THEN s[n] ELSE IF j \in S THEN s[child(j)] ELSE s[j]
      /\ DOMAIN d = 1 .. n - 1
  BY <1>5
\* A place of the path under the top is the smaller child of the place above.
<1>7. \A j \in S : j # 1 => /\ j \div 2 \in S /\ j \div 2 # B /\ child(j \div 2) = j
                            /\ s[j].audioData < s[n].audioData
  BY <1>4, <1>5
<1>8. \A j \in 1 .. n : s[j] \in R /\ s[j].audioData \in Int
  BY <1>2 DEF Ranked
<1>9. n \in S => n = 1
  BY <1>2, <1>7, <1>8
<1>10. \A j \in 1 .. n - 1 : \E k \in 2 .. n : d[j] = s[k]
  <2> SUFFICES ASSUME NEW j \in 1 .. n - 1 PROVE \E k \in 2 .. n : d[j] = s[k]
    OBVIOUS
  <2>1. CASE j = B
    <3>1. n \in 2 .. n /\ d[j] = s[n]
      BY <1>6, <2>1
    <3> QED  BY <3>1
  <2>2. CASE j \in S /\ j # B
    <3>1. child(j) \in 2 .. n /\ d[j] = s[child(j)]
      BY <1>4, <1>5, <1>6, <2>2
    <3> QED  BY <3>1
  <2>3. CASE j \notin S
    <3>1. j \in 2 .. n /\ d[j] = s[j]
      BY <1>5, <1>6, <2>3
    <3> QED  BY <3>1
  <2> QED  BY <2>1, <2>2, <2>3
<1>11. d \in Seq(R) /\ Len(d) = n - 1
  <2>1. \A j \in 1 .. n - 1 : d[j] \in R
    BY <1>8, <1>10
  <2> QED  BY <1>2, <1>5, <2>1
<1>12. InHeap(d)
  <2> SUFFICES ASSUME NEW j \in 2 .. n - 1 PROVE d[j \div 2].audioData <= d[j].audioData
    BY <1>11 DEF InHeap
  <2>1. PICK i \in 1 .. n - 1 : i = j \div 2 /\ i < j /\ 2 * i < n /\ i \in 1 .. n
    BY Halves
  <2>2. j \in 1 .. n /\ j \in 1 .. n - 1 /\ j \in 2 .. n
    BY <1>2
  <2>3. d[i].audioData \in Int /\ d[j].audioData \in Int
    BY <1>11, <2>1, <2>2 DEF Ranked
  <2>4. child(i) \in 1 .. n
    BY <1>4, <2>1
  <2>5. /\ s[child(i)].audioData \in Int /\ s[i].audioData \in Int
        /\ s[j].audioData \in Int /\ s[n].audioData \in Int
    BY <1>2, <1>8, <2>1, <2>2, <2>4
  <2>6. s[child(i)].audioData <= s[j].audioData
    BY <1>4, <2>1, <2>2
  <2>7. s[i].audioData <= s[j].audioData
    BY <1>2, <2>1, <2>2 DEF InHeap
  \* What is now over j does not come after what was at j ...
  <2>8. d[i].audioData <= s[j].audioData
    <3>1. CASE i = B
      <4>1. d[i] = s[n] /\ s[n].audioData <= s[child(i)].audioData
        BY <1>2, <1>5, <1>6, <2>1, <3>1
      <4> QED  BY <2>3, <2>5, <2>6, <4>1
    <3>2. CASE i \in S /\ i # B
      BY <1>6, <2>1, <2>6, <3>2
    <3>3. CASE i \notin S
      BY <1>5, <1>6, <2>1, <2>7, <3>3
    <3> QED  BY <3>1, <3>2, <3>3
  \* ... nor, therefore, after what is there now.
  <2>9. s[j].audioData <= d[j].audioData
    <3>1. CASE j \notin S
      BY <1>5, <1>6, <2>2, <2>5, <3>1
    <3>2. CASE j = B
      <4>1. d[j] = s[n] /\ s[j].audioData < s[n].audioData
        BY <1>5, <1>6, <1>7, <2>2, <3>2
      <4> QED  BY <2>3, <2>5, <4>1
    <3>3. CASE j \in S /\ j # B
      <4>1. d[j] = s[child(j)] /\ child(j) \in 2 .. n /\ child(j) \div 2 = j
        BY <1>4, <1>5, <1>6, <2>2, <3>3
      <4> QED  BY <1>2, <4>1 DEF InHeap
    <3> QED  BY <3>1, <3>2, <3>3
  <2>10. d[i].audioData <= d[j].audioData
    BY <2>3, <2>5, <2>8, <2>9
  <2> QED  BY <2>1, <2>10
<1>13. Range(d) = Range(s) \ {s[1]}
  <2>1. DOMAIN s = 1 .. n
    BY <1>2
  <2>2. \A x \in Range(d) : x \in Range(s) /\ x # s[1]
    <3> SUFFICES ASSUME NEW j \in 1 .. n - 1 PROVE d[j] \in Range(s) /\ d[j] # s[1]
      BY <1>6 DEF Range
    <3>1. PICK k \in 2 .. n : d[j] = s[k]
      BY <1>10
    <3>2. k \in 1 .. n /\ 1 \in 1 .. n /\ k # 1
      BY <1>2
    <3> QED  BY <1>2, <2>1, <3>1, <3>2 DEF Range
  <2>3. ASSUME NEW k \in 2 .. n PROVE s[k] \in Range(d)
    <3>1. CASE k = n
      <4>1. B \in 1 .. n - 1
        BY <1>5, <1>9, <3>1
      <4>2. d[B] = s[k]
        BY <1>6, <3>1, <4>1
      <4> QED  BY <1>6, <4>1, <4>2 DEF Range
    <3>2. CASE k \in S /\ k # n
      <4>1. PICK c \in S : c # B /\ 2 * c < n /\ child(c) = k
        BY <1>5, <3>2
      <4>2. c \in 1 .. n - 1
        BY <1>5, <4>1
      <4>3. d[c] = s[k]
        BY <1>6, <4>1, <4>2
      <4> QED  BY <1>6, <4>2, <4>3 DEF Range
    <3>3. CASE k \notin S /\ k # n
      <4>1. k \in 1 .. n - 1 /\ d[k] = s[k]
        BY <1>5, <1>6, <3>3
      <4> QED  BY <1>6, <4>1 DEF Range
    <3> QED  BY <3>1, <3>2, <3>3
  <2>4. \A x \in Range(s) : x # s[1] => x \in Range(d)
    <3> SUFFICES ASSUME NEW k \in 1 .. n, s[k] # s[1] PROVE s[k] \in Range(d)
      BY <2>1 DEF Range
    <3>1. k \in 2 .. n
      OBVIOUS
    <3> QED  BY <2>3, <3>1
  <2> QED  BY <2>2, <2>4
<1> QED  BY <1>2, <1>3, <1>11, <1>12, <1>13

\* The array s is a heap of the packets of Q.
HeapOf(s, Q) ==
  /\ s \in Seq(Q) /\ Range(s) = Q /\ Len(s) = Cardinality(Q)
  /\ InHeap(s)

LEMMA InPlaceRanked ==
  ASSUME NEW begin, NEW Q, InPlace(begin, Q), readHeadMin \in SequenceNumber, head \in Int
  PROVE  Ranked(Q)
<1> SUFFICES ASSUME NEW p \in Q, NEW q \in Q
             PROVE  p.audioData \in Int /\ ComparePackets(p, q) = p.audioData - q.audioData
  BY DEF Ranked
<1>1. p.audioData \in Int
  BY StreamAssumption DEF InPlace
<1>2. CongruentDifference(q.sequenceNumber, p.sequenceNumber) = p.audioData - q.audioData
  BY Distances
<1> QED  BY <1>1, <1>2 DEF ComparePackets

\* An array with as many places as packets holds none of them twice.
LEMMA NoneTwice ==
  ASSUME NEW Q, NEW s, HeapOf(s, Q)
  PROVE  \A j, k \in 1 .. Len(s) : s[j] = s[k] => j = k
<1>1. s \in Surjection(1 .. Len(s), Q)
  BY DEF HeapOf, Range, Surjection
<1>2. IsFiniteSet(1 .. Len(s)) /\ Cardinality(1 .. Len(s)) = Len(s)
  <2>1. PICK n \in Nat : n = Len(s)
    BY DEF HeapOf
  <2>2. IsFiniteSet(1 .. n) /\ Cardinality(1 .. n) = n
    BY FS_Interval
  <2> QED  BY <2>1, <2>2
<1>3. s \in Injection(1 .. Len(s), Q)
  <2>1. Cardinality(Q) = Cardinality(1 .. Len(s))
    BY <1>2 DEF HeapOf
  <2> QED  BY <1>1, <1>2, <2>1, FS_Surjection, Zenon
<1> QED  BY <1>3 DEF Injection, IsInjective

LEMMA TopIsFirst ==
  ASSUME NEW begin, NEW Q, InPlace(begin, Q), readHeadMin \in SequenceNumber, head \in Int,
         NEW s, HeapOf(s, Q), s # <<>>
  PROVE  s[1] \in Firsts(Q) /\ \A p \in Firsts(Q) : p = s[1]
<1>1. Ranked(Q)
  BY InPlaceRanked
<1>2. s \in Seq(Q) /\ 1 \in 1 .. Len(s) /\ s[1] \in Q
  BY DEF HeapOf
<1>3. ASSUME NEW q \in Q PROVE s[1].audioData <= q.audioData
  <2>1. PICK j \in 1 .. Len(s) : q = s[j]
    BY <1>2 DEF HeapOf, Range
  <2> QED  BY <1>1, <2>1, TopIsLeast DEF HeapOf
<1>4. PICK t \in Q : t = s[1]
  BY <1>2
<1>5. t \in Firsts(Q)
  <2> SUFFICES ASSUME NEW q \in Q
               PROVE  CongruentDifference(q.sequenceNumber, t.sequenceNumber) <= 0
    BY DEF Firsts
  <2>1. CongruentDifference(q.sequenceNumber, t.sequenceNumber) = t.audioData - q.audioData
    BY Distances
  <2>2. t.audioData \in Int /\ q.audioData \in Int /\ t.audioData <= q.audioData
    BY <1>1, <1>3, <1>4 DEF Ranked
  <2> QED  BY <2>1, <2>2
<1>6. ASSUME NEW p \in Firsts(Q) PROVE p = t
  <2>1. p \in Q /\ CongruentDifference(t.sequenceNumber, p.sequenceNumber) <= 0
    BY DEF Firsts
  <2>2. /\ CongruentDifference(t.sequenceNumber, p.sequenceNumber) = p.audioData - t.audioData
        /\ p.audioData = t.audioData => p = t
    BY <2>1, Distances
  <2>3. t.audioData \in Int /\ p.audioData \in Int /\ t.audioData <= p.audioData
    BY <1>1, <1>3, <1>4, <2>1 DEF Ranked
  <2> QED  BY <2>1, <2>2, <2>3
<1> QED  BY <1>4, <1>5, <1>6

\* The packet that leaves the queue is the one that leaves the heap.
LEMMA FirstLeavesHeap ==
  ASSUME NEW begin, NEW Q, InPlace(begin, Q), readHeadMin \in SequenceNumber, head \in Int,
         NEW s, HeapOf(s, Q), NEW p \in Firsts(Q)
  PROVE  HeapOf(PQ!Dequeue(s), Q \ {p})
<1>1. Ranked(Q) /\ IsFiniteSet(Q) /\ p \in Q
  BY InPlaceRanked, InPlaceSize DEF Firsts
<1>2. s \in Seq(Q) /\ InHeap(s) /\ s # <<>>
  <2>1. Q # {}
    BY <1>1
  <2>2. DOMAIN <<>> = {}
    OBVIOUS
  <2> QED  BY <2>1, <2>2 DEF HeapOf, Range
<1>3. p = s[1]
  BY <1>2, TopIsFirst
<1>4. \A j, k \in 1 .. Len(s) : s[j] = s[k] => j = k
  BY NoneTwice
<1>5. PICK d : d = PQ!Dequeue(s)
  OBVIOUS
<1>6. d \in Seq(Q) /\ Len(d) = Len(s) - 1 /\ InHeap(d) /\ Range(d) = Range(s) \ {s[1]}
  BY <1>1, <1>2, <1>4, <1>5, DequeueKeepsHeap
<1>7. Range(d) = Q \ {p}
  BY <1>3, <1>6 DEF HeapOf
<1>8. d \in Seq(Q \ {p})
  <2>1. DOMAIN d = 1 .. Len(d) /\ Len(d) \in Nat
    BY <1>6
  <2>2. \A j \in 1 .. Len(d) : d[j] \in Q \ {p}
    BY <1>7, <2>1 DEF Range
  <2> QED  BY <1>6, <2>2
<1>9. Len(d) = Cardinality(Q \ {p})
  <2>1. Cardinality(Q \ {p}) = Cardinality(Q) - 1
    BY <1>1, FS_RemoveElement
  <2> QED  BY <1>6, <2>1 DEF HeapOf
<1> QED  BY <1>5, <1>6, <1>7, <1>8, <1>9 DEF HeapOf

LEMMA ArrivalEntersHeap ==
  ASSUME NEW begin, NEW Q, NEW r, InPlace(begin, Q \cup {r}), r \notin Q,
         readHeadMin \in SequenceNumber, head \in Int,
         NEW s, HeapOf(s, Q)
  PROVE  HeapOf(PQ!Enqueue(s, r), Q \cup {r})
<1>1. Ranked(Q \cup {r}) /\ IsFiniteSet(Q \cup {r})
  BY InPlaceRanked, InPlaceSize
<1>2. s \in Seq(Q \cup {r}) /\ InHeap(s) /\ r \in Q \cup {r}
  BY DEF HeapOf
<1>3. PICK e : e = PQ!Enqueue(s, r)
  OBVIOUS
<1>4. /\ e \in Seq(Q \cup {r}) /\ Len(e) = Len(s) + 1 /\ InHeap(e)
      /\ Range(e) = Range(s) \cup {r}
  <2>1. PICK R : R = Q \cup {r}
    OBVIOUS
  <2>2. Ranked(R) /\ s \in Seq(R) /\ r \in R /\ InHeap(s)
    BY <1>1, <1>2, <2>1
  <2>3. /\ e \in Seq(R) /\ Len(e) = Len(s) + 1 /\ InHeap(e)
        /\ Range(e) = Range(s) \cup {r}
    BY <1>3, <2>2, EnqueueKeepsHeap
  <2> QED  BY <2>1, <2>3
<1>5. Len(e) = Cardinality(Q \cup {r})
  <2>1. IsFiniteSet(Q)
    BY <1>1, FS_Subset
  <2>2. Cardinality(Q \cup {r}) = Cardinality(Q) + 1
    BY <2>1, FS_AddElement
  <2> QED  BY <1>4, <2>2 DEF HeapOf
<1> QED  BY <1>3, <1>4, <1>5 DEF HeapOf

LEMMA HeapStep ==
  PacketsInv /\ HeapOf(items, resultPriorityQueue) /\ [StreamNext]_streamVars
    => HeapOf(items, resultPriorityQueue)'
<1> SUFFICES ASSUME PacketsInv, HeapOf(items, resultPriorityQueue), [StreamNext]_streamVars
             PROVE  HeapOf(items', resultPriorityQueue')
  BY DEF HeapOf, InHeap
<1>1. PICK begin \in 0 .. QuarterRange - 1 : Numbered(begin) /\ Placed(begin)
  BY DEF PacketsInv
<1>2. readHeadMin \in SequenceNumber /\ head \in Int
  BY DEF PacketsInv, StreamTypeOK, JitterTypeOK
<1>3. ASSUME UNCHANGED <<items, resultPriorityQueue>>
      PROVE  HeapOf(items', resultPriorityQueue')
  BY <1>3
<1>4. CASE SendPacket \/ UNCHANGED streamVars
  BY <1>3, <1>4 DEF SendPacket, streamVars, readerVars, jitterVars
<1>5. ASSUME NEW m \in network, Lose(m) PROVE HeapOf(items', resultPriorityQueue')
  BY <1>3, <1>5 DEF Lose, readerVars, jitterVars
<1>6. ASSUME NEW m \in network, Receive(m) PROVE HeapOf(items', resultPriorityQueue')
  <2> DEFINE r == Decrypted(m)
             longer == PQ!Enqueue(items, r)
  <2>1. /\ InTime(m)
        /\ \/ ForceSync(r) /\ items' = <<r>>
           \/ /\ Fit(r)
              /\ items' = IF Len(longer) > MaxSize THEN PQ!Dequeue(longer) ELSE longer
           \/ Reject(r) /\ UNCHANGED items
    BY <1>1, <1>6, ReceiveDecrypts DEF Receive
  <2>2. CASE ForceSync(r) /\ items' = <<r>>
    <3>1. resultPriorityQueue' = {r}
      BY <2>2 DEF ForceSync
    <3>2. Cardinality({r}) = 1
      BY FS_Singleton
    <3> HIDE DEF r
    <3>3. /\ <<r>> \in Seq({r}) /\ Len(<<r>>) = 1 /\ DOMAIN <<r>> = {1} /\ <<r>>[1] = r
          /\ \A j \in 2 .. 1 : FALSE
      OBVIOUS
    <3>4. Range(<<r>>) = {r}
      BY <3>3 DEF Range
    <3> QED  BY <2>2, <3>1, <3>2, <3>3, <3>4 DEF HeapOf, InHeap
  <2>3. CASE /\ Fit(r)
             /\ items' = IF Len(longer) > MaxSize THEN PQ!Dequeue(longer) ELSE longer
    <3> DEFINE Q == resultPriorityQueue \cup {r}
    <3>1. InPlace(begin, Q)
      BY <1>1, <2>1, <2>3, FitsInPlace
    <3>2. r \notin resultPriorityQueue
      BY <2>3 DEF Fit, PacketsInv, JitterInv, IdsAreThoseQueued
    <3> HIDE DEF r
    <3>3. HeapOf(longer, Q)
      BY <1>2, <3>1, <3>2, ArrivalEntersHeap
    <3>4. /\ Cardinality(Q) <= MaxSize => resultPriorityQueue' = Q
          /\ ~(Cardinality(Q) <= MaxSize) =>
               \E p \in Firsts(Q) : resultPriorityQueue' = Q \ {p}
      BY <2>3 DEF Fit, DiscardExcess
    <3> HIDE DEF Q, longer
    <3>5. Len(longer) = Cardinality(Q) /\ Len(longer) \in Nat /\ MaxSize \in Nat
      BY <3>3, JitterAssumption DEF HeapOf
    <3>6. CASE Cardinality(Q) <= MaxSize
      <4>1. items' = longer
        BY <2>3, <3>5, <3>6
      <4> QED  BY <3>3, <3>4, <3>6, <4>1
    <3>7. CASE ~(Cardinality(Q) <= MaxSize)
      <4>1. items' = PQ!Dequeue(longer)
        BY <2>3, <3>5, <3>7
      <4>2. PICK p \in Firsts(Q) : resultPriorityQueue' = Q \ {p}
        BY <3>4, <3>7
      <4>3. HeapOf(PQ!Dequeue(longer), Q \ {p})
        BY <1>2, <3>1, <3>3, FirstLeavesHeap
      <4> QED  BY <4>1, <4>2, <4>3
    <3> QED  BY <3>6, <3>7
  <2>4. CASE Reject(r) /\ UNCHANGED items
    BY <1>3, <2>4 DEF Reject, jitterVars
  <2> QED  BY <2>1, <2>2, <2>3, <2>4
<1>7. CASE PullPacket
  <2>1. CASE (DequeueOutOfSync \/ DequeueNothing) /\ UNCHANGED items
    BY <1>3, <2>1 DEF DequeueOutOfSync, DequeueNothing, jitterVars
  <2>2. ASSUME NEW p \in resultPriorityQueue, DequeuePacket(p), items' = PQ!Dequeue(items)
        PROVE  HeapOf(items', resultPriorityQueue')
    <3>1. InPlace(begin, resultPriorityQueue)
      BY <1>1, QueueInPlace
    <3>2. p \in Firsts(resultPriorityQueue) /\ resultPriorityQueue' = resultPriorityQueue \ {p}
      BY <2>2 DEF DequeuePacket
    <3>3. HeapOf(PQ!Dequeue(items), resultPriorityQueue \ {p})
      BY <1>2, <3>1, <3>2, FirstLeavesHeap
    <3> QED  BY <2>2, <3>2, <3>3
  <2> QED  BY <1>7, <2>1, <2>2 DEF PullPacket
<1> QED
  BY <1>4, <1>5, <1>6, <1>7 DEF StreamNext, ReceiveUnauthentic

LEMMA HeapSuffices ==
  ASSUME PacketsInv, HeapOf(items, resultPriorityQueue)
  PROVE  HeapHoldsQueue
<1>1. PICK begin \in 0 .. QuarterRange - 1 : Numbered(begin) /\ Placed(begin)
  BY DEF PacketsInv
<1>2. readHeadMin \in SequenceNumber /\ head \in Int
  BY DEF PacketsInv, StreamTypeOK, JitterTypeOK
<1>3. InPlace(begin, resultPriorityQueue)
  BY <1>1, QueueInPlace
<1>4. items # <<>> => items[1] \in Firsts(resultPriorityQueue)
  BY <1>2, <1>3, TopIsFirst
<1> QED  BY <1>4 DEF HeapHoldsQueue, HeapOf, PQ!Peek

(***************************************************************************)
(* The array is always a heap of the queue's packets, so that what peek    *)
(* and dequeue give is the first of them, and every packet of the queue    *)
(* was decrypted rightly (PriorityQueue.m:16-85, JitterQueue.m:43-147).    *)
(***************************************************************************)
THEOREM StreamIsSound == StreamSpec => []StreamInv
<1>1. StreamInit => HeapOf(items, resultPriorityQueue)
  <2>1. Cardinality({}) = 0
    BY FS_EmptySet
  <2>2. <<>> \in Seq({}) /\ Len(<<>>) = 0 /\ DOMAIN <<>> = {}
    OBVIOUS
  <2>3. Range(<<>>) = {}
    BY <2>2 DEF Range
  <2> QED  BY <2>1, <2>2, <2>3 DEF StreamInit, JitterInit, HeapOf, InHeap
<1>2. PacketsInv /\ [StreamNext]_streamVars => PacketsInv'
  BY StreamFollows DEF Follows
<1>3. PacketsInv /\ HeapOf(items, resultPriorityQueue) => HeapHoldsQueue
  BY HeapSuffices
<1>4. PacketsInv /\ HeapOf(items, resultPriorityQueue) /\ [StreamNext]_streamVars
        => HeapOf(items, resultPriorityQueue)'
  BY HeapStep
<1> QED
  BY <1>1, <1>2, <1>3, <1>4, AudioIsDecrypted, StreamStarts, PTL DEF StreamSpec, StreamInv
=============================================================================
