----------------------------- MODULE AudioStream -----------------------------
(***************************************************************************)
(* One direction of the audio of a RedPhone call, from one end's           *)
(* AudioPacker through the two ends' SrtpStream and the network into the   *)
(* other end's JitterQueue and AudioPacker (AudioProcessor.m).             *)
(*                                                                         *)
(* The i-th packet is the number i; on the wire it has the 16 bit number   *)
(* of AudioPacker and is encrypted with an initialisation vector made from *)
(* the 64 bit number SequenceCounter makes of it.  The receiver makes its  *)
(* own, and decrypts only if it gets the same.  UDP loses, repeats and     *)
(* reorders packets.                                                       *)
(***************************************************************************)
EXTENDS JitterQueue, Sequences, Functions

CONSTANTS
  Garbled,        \* what a packet decrypted with another vector holds
  MaxPackets,     \* bound: packets recorded
  MaxInFlight     \* bound: packets in the network at a time

ASSUME StreamAssumption ==
  /\ HalfRange % 2 = 0
  /\ MaxPackets \in Nat \ {0} /\ MaxInFlight \in Nat
  /\ AudioData = 0 .. MaxPackets - 1 \cup {Garbled} /\ Garbled \notin 0 .. MaxPackets - 1

VARIABLES
  nextSequenceNumber,  \* AudioPacker, sender
  outgoing,            \* SequenceCounter of the sender's outgoingContext
  incoming,            \* SequenceCounter of the receiver's incomingContext
  items,               \* the heap in which resultPriorityQueue is stored
  sent,                \* packets recorded so far
  network,             \* packets on their way
  latest,              \* the packet that arrived last
  head                 \* the packet whose turn it is: readHeadMin without wrapping

senderVars == <<nextSequenceNumber, outgoing, sent>>
readerVars == <<jitterVars, items, head>>
streamVars == <<readerVars, senderVars, incoming, network, latest>>

SequenceCounter == [prevShortId : SequenceNumber, prevLongId : Int]

ConvertNext(counter, s) ==
  [prevShortId |-> s,
   prevLongId |-> counter.prevLongId + CongruentDifference(counter.prevShortId, s)]

\* The comparator of makeCyclingPacketPriorityQueue.
ComparePackets(p, q) == CongruentDifference(q.sequenceNumber, p.sequenceNumber)
PQ == INSTANCE PriorityQueue WITH Compare <- ComparePackets

\* 2^14: the packets that must fail to arrive before confusion can be caused
\* (AudioPacker.m:16), and the numbers a stream may begin with.
QuarterRange == HalfRange \div 2

StreamInit ==
  /\ JitterInit
  /\ nextSequenceNumber \in 0 .. QuarterRange - 1
  /\ outgoing = [prevShortId |-> 0, prevLongId |-> 0]
  /\ incoming = [prevShortId |-> 0, prevLongId |-> 0]
  /\ items = <<>>
  /\ sent = 0 /\ network = {} /\ latest = 0 /\ head = 0

-----------------------------------------------------------------------------

\* Recorded frames make a packet, which is numbered, encrypted and sent.
SendPacket ==
  /\ sent < MaxPackets /\ Cardinality(network) < MaxInFlight
  /\ nextSequenceNumber' = After(nextSequenceNumber)
  /\ outgoing' = ConvertNext(outgoing, nextSequenceNumber)
  /\ network' = network \cup {[index |-> sent, sequenceNumber |-> nextSequenceNumber,
                               iv |-> outgoing'.prevLongId]}
  /\ sent' = sent + 1
  /\ UNCHANGED <<readerVars, incoming, latest>>

Lose(m) ==
  /\ network' = network \ {m}
  /\ UNCHANGED <<readerVars, senderVars, incoming, latest>>

\* What is assumed of the network and of the speaker: a packet arrives within
\* 2^14 packets of the one that arrived before it, and within 2^15 of the one
\* whose turn it is.
InTime(m) ==
  /\ m.index - latest \in -QuarterRange .. QuarterRange
  /\ OutOfSync \/ m.index - head \in -HalfRange .. HalfRange - 1

\* The read head without wrapping moves as the wrapping one does.
HeadMoves == head' = head + CongruentDifference(readHeadMin, readHeadMin')

\* A packet arrives, perhaps not for the last time.
Receive(m) ==
  /\ InTime(m)
  /\ incoming' = ConvertNext(incoming, m.sequenceNumber)
  /\ LET packet == [sequenceNumber |-> m.sequenceNumber,
                    audioData |-> IF incoming'.prevLongId = m.iv THEN m.index ELSE Garbled]
         longer == PQ!Enqueue(items, packet)
     IN \/ ForceSync(packet) /\ items' = <<packet>> /\ head' = m.index
        \/ /\ Fit(packet)
           /\ items' = IF Len(longer) > MaxSize THEN PQ!Dequeue(longer) ELSE longer
           /\ HeadMoves
        \/ Reject(packet) /\ UNCHANGED <<items, head>>
  /\ latest' = m.index
  /\ UNCHANGED <<senderVars, network>>

\* Defect: the number is looked at before the HMAC.
CountUnauthentic(s) ==
  /\ incoming' = ConvertNext(incoming, s)
  /\ UNCHANGED <<readerVars, senderVars, network, latest>>

\* A packet with a wrong HMAC is refused before its number is looked at.
ReceiveUnauthentic(s) ==
  UNCHANGED streamVars

\* The speaker has played what it had and asks for the next packet.
PullPacket ==
  /\ \/ DequeueOutOfSync /\ UNCHANGED items
     \/ DequeueNothing /\ UNCHANGED items
     \/ \E p \in resultPriorityQueue :
          DequeuePacket(p) /\ items' = PQ!Dequeue(items)
  /\ HeadMoves
  /\ UNCHANGED <<senderVars, incoming, network, latest>>

StreamNext ==
  \/ SendPacket
  \/ \E m \in network : Lose(m) \/ Receive(m)
  \/ \E s \in SequenceNumber : ReceiveUnauthentic(s)
  \/ PullPacket

\* The audio unit asks again and again while the call lasts.
StreamSpec == StreamInit /\ [][StreamNext]_streamVars /\ WF_streamVars(PullPacket)

-----------------------------------------------------------------------------

Message == [index : 0 .. MaxPackets - 1, sequenceNumber : SequenceNumber, iv : Int]

StreamTypeOK ==
  /\ JitterTypeOK
  /\ nextSequenceNumber \in SequenceNumber
  /\ outgoing \in SequenceCounter /\ incoming \in SequenceCounter
  /\ IsFiniteSet(network) /\ network \subseteq Message
  /\ sent \in 0 .. MaxPackets /\ latest \in 0 .. MaxPackets - 1 /\ head \in Int

(***************************************************************************)
(* Both ends number the packets alike, whatever was lost, repeated or      *)
(* reordered and however often the 16 bit number wrapped, as long as fewer *)
(* than 2^14 packets in a row are missing: every packet is decrypted with  *)
(* the vector it was encrypted with (SrtpStream.m:56).                     *)
(***************************************************************************)
DecryptsWhatWasSent ==
  \A p \in resultPriorityQueue :
    p.audioData # Garbled

(***************************************************************************)
(* The array holds exactly the packets of the queue, and the packet at its *)
(* top, which peek and dequeue give, is the queue's first.                 *)
(***************************************************************************)
HeapHoldsQueue ==
  /\ Len(items) = Cardinality(resultPriorityQueue)
  /\ Range(items) = resultPriorityQueue
  /\ items # <<>> => PQ!Peek(items) \in Firsts(resultPriorityQueue)

(***************************************************************************)
(* Between the sender's packer and the queue no packet is garbled, and the *)
(* heap that stores the queue agrees with it.                              *)
(***************************************************************************)
StreamInv == StreamTypeOK /\ DecryptsWhatWasSent /\ HeapHoldsQueue

(***************************************************************************)
(* The queue with numbers that wrap does what one with numbers that do not *)
(* promises: audio is played in the order it was recorded.                 *)
(***************************************************************************)
Window == INSTANCE PlayoutWindow WITH
  Packet <- 0 .. MaxPackets - 1,
  waiting <- {p.audioData : p \in resultPriorityQueue},
  silence <- readHeadSpan - 1,
  Patience <- BadSpanThreshold

PlaysInOrder == Window!Spec

(***************************************************************************)
(* The reader does not wait for ever in front of packets it holds: their   *)
(* turn comes, or it gives up and starts over with the next that arrives.  *)
(***************************************************************************)
NeverStalls == []<>(resultPriorityQueue = {} \/ OutOfSync)
=============================================================================
