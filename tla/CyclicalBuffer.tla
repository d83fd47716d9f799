--------------------------- MODULE CyclicalBuffer ---------------------------
(***************************************************************************)
(* The ring of bytes between a thread that writes and one that reads       *)
(* (Signal/src/util/collections/CyclicalBuffer.m).  When what is written   *)
(* does not fit the bytes move to the beginning of a longer ring.          *)
(***************************************************************************)
EXTENDS Integers, Sequences

CONSTANTS
  Byte,
  NoByte,            \* what the bytes of a new buffer hold
  Chunk,             \* what is written at a time
  InitialCapacity    \* INITIAL_CAPACITY

ASSUME BufferAssumption == InitialCapacity \in Nat \ {0} /\ Chunk \subseteq Seq(Byte)

VARIABLES
  buffer,            \* the bytes, the first one at 0
  bufferCapacity,    \* [buffer length]
  readOffset,        \* where the next byte is read
  count              \* how many bytes wait

bufferVars == <<buffer, bufferCapacity, readOffset, count>>

BufferInit ==
  /\ buffer = [i \in 0 .. InitialCapacity - 1 |-> NoByte]
  /\ bufferCapacity = InitialCapacity
  /\ readOffset = 0
  /\ count = 0

Least(m, n) == IF m <= n THEN m ELSE n

\* The offset modulo the capacity: no offset is beyond twice the capacity.
Offset(n) == IF n < bufferCapacity THEN n ELSE n - bufferCapacity

\* peekDataWithLength: up to the end of the ring, and on from its beginning.
PeekData(length) ==
  LET readSlack == bufferCapacity - readOffset
  IN [i \in 1 .. length |-> IF i <= readSlack THEN buffer[readOffset + i - 1]
                            ELSE buffer[i - readSlack - 1]]

\* Defect: only what is before the end of the ring is written.
WrittenToTheEnd(bytes, capacity, writeOffset, data) ==
  [j \in 0 .. capacity - 1 |->
     IF j \in writeOffset .. writeOffset + Len(data) - 1 THEN data[j - writeOffset + 1]
     ELSE bytes[j]]

\* replaceBytesInRange for what fits before the end, and for the rest.
Written(bytes, capacity, writeOffset, data) ==
  LET writeSlack == capacity - writeOffset
  IN [j \in 0 .. capacity - 1 |->
        IF j \in writeOffset .. writeOffset + Least(writeSlack, Len(data)) - 1
        THEN data[j - writeOffset + 1]
        ELSE IF j < Len(data) - writeSlack THEN data[j + writeSlack + 1]
        ELSE bytes[j]]

EnqueueData(data) ==
  /\ count' = count + Len(data)
  /\ IF bufferCapacity - count >= Len(data)
     THEN /\ buffer' = Written(buffer, bufferCapacity, Offset(readOffset + count), data)
          /\ UNCHANGED <<bufferCapacity, readOffset>>
     ELSE LET newCapacity == bufferCapacity * 2 + Len(data)
              moved == PeekData(count)
              newBuffer == [j \in 0 .. newCapacity - 1 |->
                              IF j < count THEN moved[j + 1] ELSE NoByte]
          IN /\ buffer' = Written(newBuffer, newCapacity, count, data)
             /\ bufferCapacity' = newCapacity
             /\ readOffset' = 0

Discard(length) ==
  /\ length \in 0 .. count
  /\ count' = count - length
  /\ readOffset' = Offset(readOffset + length)
  /\ UNCHANGED <<buffer, bufferCapacity>>

BufferNext ==
  \/ \E data \in Chunk : EnqueueData(data)
  \/ \E length \in 0 .. count : Discard(length)

BufferSpec == BufferInit /\ [][BufferNext]_bufferVars

-----------------------------------------------------------------------------

BufferTypeOK ==
  /\ bufferCapacity \in Nat \ {0}
  /\ buffer \in [0 .. bufferCapacity - 1 -> Byte \cup {NoByte}]
  /\ readOffset \in 0 .. bufferCapacity - 1
  /\ count \in 0 .. bufferCapacity

\* The bytes that wait, in the order they will be read.
Contents == PeekData(count)

(***************************************************************************)
(* However often the ring wraps and grows, it does what a queue of bytes   *)
(* does (CyclicalBuffer.m:19-56, 62-82).                                   *)
(***************************************************************************)
Bytes == INSTANCE Fifo WITH queue <- Contents

ReadsWhatWasWritten == Bytes!Spec
=============================================================================
