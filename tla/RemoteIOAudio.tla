---------------------------- MODULE RemoteIOAudio ----------------------------
(***************************************************************************)
(* The speaker and the microphone of a RedPhone call: RemoteIOAudio.m and  *)
(* the CallAudioManager.m that is its delegate.                            *)
(*                                                                         *)
(* The audio unit's thread runs playbackCallback and recordingCallback,    *)
(* which hand the rest of the work to the low latency thread; the call is  *)
(* terminated by any thread.  They share the playback queue (the ring of   *)
(* module CyclicalBuffer), the pool of recording buffers and the state,    *)
(* under one lock.  bytesInPlaybackBuffer is the low latency thread's own  *)
(* idea of how much the playback queue holds, by which it refills it.      *)
(* Amounts are in units of sound, not in bytes.                            *)
(***************************************************************************)
EXTENDS CyclicalBuffer, FiniteSets

CONSTANTS
  Buffers,             \* the recording buffers, INITIAL_NUMBER_OF_BUFFERS of them
  Requests,            \* how much the audio unit may ask for at a time
  FrameLengths,        \* how long a decoded and stretched frame may be
  DecodedFrameSize,    \* decodedFrameSizeInBytes
  MaxRequests,         \* bound: callbacks for playback
  MaxRecordings        \* bound: callbacks for recording

\* What is filled for one request is enough for another.
ASSUME AudioAssumption ==
  /\ Requests \subseteq Nat \ {0} /\ FrameLengths \subseteq Nat
  /\ DecodedFrameSize \in Nat \ {0}
  /\ \A r, s \in Requests : r <= 3 * s \/ r <= 3 * DecodedFrameSize
  /\ MaxRequests \in Nat /\ MaxRecordings \in Nat

VARIABLES
  state,                    \* STARTED or TERMINATED
  unusedBuffers,
  tasks,                    \* what was posted to the low latency thread
  filling,                  \* the request it refills the queue for, or 0
  bytesInPlaybackBuffer,
  haveReceivedDataYet,      \* of AudioProcessor
  recordingQueue,           \* how much waits to make a frame
  requests, recordings      \* how many callbacks there have been

poolVars == <<unusedBuffers, recordingQueue, recordings>>
managerVars == <<filling, bytesInPlaybackBuffer, haveReceivedDataYet>>
audioVars == <<bufferVars, state, poolVars, managerVars, tasks, requests>>

Greatest(m, n) == IF m >= n THEN m ELSE n

AudioInit ==
  /\ BufferInit
  /\ state = "STARTED"
  /\ unusedBuffers = Buffers
  /\ tasks = <<>>
  /\ filling = 0
  /\ bytesInPlaybackBuffer = 0
  /\ haveReceivedDataYet = FALSE
  /\ recordingQueue = 0
  /\ requests = 0 /\ recordings = 0

-----------------------------------------------------------------------------
(* The audio unit's thread *)

\* The speaker gets all it asks for, or nothing.
PlaybackCallback(requested) ==
  /\ state = "STARTED"
  /\ requests < MaxRequests
  /\ requests' = requests + 1
  /\ IF count < requested THEN UNCHANGED bufferVars ELSE Discard(requested)
  /\ tasks' = Append(tasks, [kind |-> "playback", requested |-> requested, available |-> count])
  /\ UNCHANGED <<state, poolVars, managerVars>>

\* What is recorded while every buffer is in use is dropped.
RecordingCallback(buf) ==
  /\ state = "STARTED"
  /\ recordings < MaxRecordings
  /\ recordings' = recordings + 1
  /\ buf \in unusedBuffers
  /\ unusedBuffers' = unusedBuffers \ {buf}
  /\ tasks' = Append(tasks, [kind |-> "recorded", buffer |-> buf])
  /\ UNCHANGED <<bufferVars, state, managerVars, recordingQueue, requests>>

-----------------------------------------------------------------------------
(* The low latency thread *)

NextTask(kind) == filling = 0 /\ tasks # <<>> /\ Head(tasks).kind = kind

\* onRequestedPlaybackDataAmount: the state is looked at under the lock, and
\* the queue is refilled after the lock is released.
OnRequestedPlaybackData ==
  /\ NextTask("playback")
  /\ tasks' = Tail(tasks)
  /\ LET requested == Head(tasks).requested
     IN IF state = "TERMINATED" THEN UNCHANGED <<filling, bytesInPlaybackBuffer>>
        ELSE /\ filling' = requested
             /\ bytesInPlaybackBuffer' = IF bytesInPlaybackBuffer >= requested
                                         THEN bytesInPlaybackBuffer - requested
                                         ELSE bytesInPlaybackBuffer
  /\ UNCHANGED <<bufferVars, state, poolVars, haveReceivedDataYet, requests>>

\* Defect: no request is spared.
OneRequestAhead(requested) == Greatest(requested, DecodedFrameSize)

\* SAFETY_FACTOR_FOR_COMPUTE_DELAY times the larger of a request and a frame.
MinSafeBufferSize(requested) == 3 * Greatest(requested, DecodedFrameSize)

PopulatePlaybackQueue ==
  /\ filling # 0 /\ haveReceivedDataYet
  /\ bytesInPlaybackBuffer < MinSafeBufferSize(filling)
  /\ \E data \in Chunk :
       /\ Len(data) \in FrameLengths
       /\ EnqueueData(data)
       /\ bytesInPlaybackBuffer' = bytesInPlaybackBuffer + Len(data)
  /\ UNCHANGED <<state, poolVars, tasks, filling, haveReceivedDataYet, requests>>

\* Defect: without a first packet of the peer's there is nothing to stop for.
WaitsForData ==
  /\ filling # 0
  /\ bytesInPlaybackBuffer >= MinSafeBufferSize(filling)
  /\ filling' = 0
  /\ UNCHANGED <<bufferVars, state, poolVars, tasks, bytesInPlaybackBuffer,
                 haveReceivedDataYet, requests>>

QueueIsFilled ==
  /\ filling # 0
  /\ bytesInPlaybackBuffer >= MinSafeBufferSize(filling) \/ ~haveReceivedDataYet
  /\ filling' = 0
  /\ UNCHANGED <<bufferVars, state, poolVars, tasks, bytesInPlaybackBuffer,
                 haveReceivedDataYet, requests>>

\* The first packet of the peer's is taken from the jitter queue.
FirstPacket ==
  /\ filling = 0 /\ ~haveReceivedDataYet
  /\ haveReceivedDataYet' = TRUE
  /\ UNCHANGED <<bufferVars, state, poolVars, tasks, filling, bytesInPlaybackBuffer, requests>>

\* Defect: the buffer is returned whether or not the pool was given up.
ReturnsToEmptiedPool ==
  /\ NextTask("recorded")
  /\ tasks' = Tail(tasks)
  /\ unusedBuffers' = unusedBuffers \cup {Head(tasks).buffer}
  /\ recordingQueue' = IF state = "TERMINATED" THEN recordingQueue
                       ELSE (recordingQueue + 1) % DecodedFrameSize
  /\ UNCHANGED <<bufferVars, state, managerVars, requests, recordings>>

\* onRecordedDataIntoBuffer: the buffer goes back to the pool, and what makes
\* whole frames is encoded and sent.  A buffer holds one unit.
OnRecordedData ==
  /\ NextTask("recorded")
  /\ tasks' = Tail(tasks)
  /\ IF state = "TERMINATED" THEN UNCHANGED <<unusedBuffers, recordingQueue>>
     ELSE /\ unusedBuffers' = unusedBuffers \cup {Head(tasks).buffer}
          /\ recordingQueue' = (recordingQueue + 1) % DecodedFrameSize
  /\ UNCHANGED <<bufferVars, state, managerVars, requests, recordings>>

-----------------------------------------------------------------------------

\* untilCancelledToken is cancelled.
Terminate ==
  /\ state = "STARTED"
  /\ state' = "TERMINATED"
  /\ unusedBuffers' = {}
  /\ UNCHANGED <<bufferVars, managerVars, tasks, recordingQueue, recordings, requests>>

AudioNext ==
  \/ \E requested \in Requests : PlaybackCallback(requested)
  \/ \E buf \in Buffers : RecordingCallback(buf)
  \/ OnRequestedPlaybackData \/ PopulatePlaybackQueue \/ QueueIsFilled
  \/ FirstPacket
  \/ OnRecordedData
  \/ Terminate

\* The low latency thread runs what is posted to it.
LowLatencyThread ==
  OnRequestedPlaybackData \/ PopulatePlaybackQueue \/ QueueIsFilled \/ OnRecordedData

AudioSpec == AudioInit /\ [][AudioNext]_audioVars /\ WF_audioVars(LowLatencyThread)

-----------------------------------------------------------------------------

Task == [kind : {"playback"}, requested : Requests, available : Nat]
          \cup [kind : {"recorded"}, buffer : Buffers]

AudioTypeOK ==
  /\ BufferTypeOK
  /\ state \in {"STARTED", "TERMINATED"}
  /\ unusedBuffers \subseteq Buffers
  /\ tasks \in Seq(Task)
  /\ filling \in Requests \cup {0}
  /\ bytesInPlaybackBuffer \in Nat
  /\ haveReceivedDataYet \in BOOLEAN
  /\ recordingQueue \in 0 .. DecodedFrameSize - 1

\* What a task tells of having been taken from the queue.
Consumed(task) ==
  IF task.kind = "playback" /\ task.available >= task.requested THEN task.requested ELSE 0

\* What was taken from the queue and the tasks s are still to account for.
Unaccounted(s) ==
  LET total[n \in 0 .. Len(s)] == IF n = 0 THEN 0 ELSE total[n - 1] + Consumed(s[n])
  IN total[Len(s)]

(***************************************************************************)
(* The low latency thread never believes that more is queued than there    *)
(* is, whatever requests, refills and starved callbacks are on their way:  *)
(* it may add latency, but it does not let the speaker starve by mistake   *)
(* (CallAudioManager.m:42).                                                *)
(***************************************************************************)
NeverOverestimates ==
  state = "STARTED" => bytesInPlaybackBuffer <= count + Unaccounted(tasks)

\* No request is longer than both another request and a frame.
SteadyRequests == \A r, s \in Requests : r <= Greatest(s, DecodedFrameSize)

(***************************************************************************)
(* The safety factor does its work: once audio flows the speaker starves   *)
(* only if the low latency thread is three requests behind, as long as     *)
(* the audio unit's requests are steady.                                   *)
(***************************************************************************)
StarvesOnlyWhenLate ==
  LET late == Cardinality({i \in DOMAIN tasks : tasks[i].kind = "playback"})
  IN /\ SteadyRequests
     /\ state = "STARTED" /\ filling = 0 /\ bytesInPlaybackBuffer > 0 /\ late < 3
     => \A r \in Requests : count >= r

(***************************************************************************)
(* The refill keeps ahead of the speaker: it never believes in more sound  *)
(* than there is, and holds enough for a thread that is a little late.     *)
(***************************************************************************)
RefillKeepsAhead == NeverOverestimates /\ StarvesOnlyWhenLate

(***************************************************************************)
(* Every buffer is in the pool or with one recording that waits for the    *)
(* low latency thread: none is lost, and none is recorded into twice.      *)
(***************************************************************************)
BuffersAreConserved ==
  LET recorded == {i \in DOMAIN tasks : tasks[i].kind = "recorded"}
  IN /\ \A i, j \in recorded : tasks[i].buffer = tasks[j].buffer => i = j
     /\ unusedBuffers = IF state = "STARTED"
                        THEN Buffers \ {tasks[i].buffer : i \in recorded} ELSE {}

(***************************************************************************)
(* The threads keep their shared state to its types, and the pool whole.   *)
(***************************************************************************)
PoolInv == AudioTypeOK /\ BuffersAreConserved

(***************************************************************************)
(* Whatever the speaker asked for before, the low latency thread catches   *)
(* up: every request is accounted for and the refill it asks for ends.     *)
(***************************************************************************)
CatchesUp == []<>(tasks = <<>> /\ filling = 0)
=============================================================================
