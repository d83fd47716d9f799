--------------------------- MODULE HttpSignalling ---------------------------
(***************************************************************************)
(* Requests to the signalling server of a RedPhone call, pipelined over    *)
(* one connection: HttpManager.m over HttpSocket.m over NetworkStream.m    *)
(* (Signal/src/network).                                                   *)
(*                                                                         *)
(* Two threads take part.  The user's thread makes requests, ends the call *)
(* and thereby terminates the manager.  The run loop's thread handles the  *)
(* stream's events.  HttpManager and NetworkStream each have a lock; a     *)
(* thread that takes one, does its work and releases it is a single step,  *)
(* and where a thread holds one while it waits for the other, or goes on   *)
(* after it released the other, it has a place of its own (userAt,         *)
(* runLoopAt).  The n-th response on the stream is taken for that of the   *)
(* n-th request; the server answers every request once and in order, and   *)
(* makes requests of its own.                                              *)
(***************************************************************************)
EXTENDS Integers, Sequences, SequencesExt

CONSTANTS
  Request,             \* the requests that may be made, each once
  NoRequest,
  MaxServerMessages    \* bound: messages the server sends of its own accord

ASSUME SignallingAssumption == NoRequest \notin Request /\ MaxServerMessages \in Nat

VARIABLES
  future,                 \* what became of each request
  answer,                 \* to which request the response was that it got
  eventualResponseQueue,  \* the requests whose responses are still to come
  lifetimeCancelled,      \* lifetime.token.isAlreadyCancelled
  lastWork,               \* the request terminateWhenDoneCurrentWork waits for
  userAt, userRequest,    \* where the user's thread is, and with what request
  managerLocked,          \* whether it holds the manager's lock there
  runLoopAt,              \* where the run loop's thread is; it holds the
                          \* stream's lock unless it is idle
  connection,             \* futureConnectedAndWritable
  closedLocally,
  writeBuffer,            \* what is to be written
  wire,                   \* what was written and the server has not read
  inbound,                \* what the server has sent
  chunk,                  \* what was read of it and is not handled
  serverMessages          \* how often the server spoke of its own accord

managerVars == <<future, answer, eventualResponseQueue, lifetimeCancelled, lastWork>>
userVars == <<userAt, userRequest, managerLocked>>
streamVars == <<connection, closedLocally, writeBuffer>>
networkVars == <<wire, inbound, serverMessages>>
httpVars == <<managerVars, userVars, runLoopAt, streamVars, networkVars, chunk>>

RequestOf(r) == [kind |-> "request", of |-> r]
ResponseTo(r) == [kind |-> "response", of |-> r]
\* What the server asks for, what answers it, and what does not parse.
Ringing == [kind |-> "serverRequest", of |-> NoRequest]
Hangup == [kind |-> "hangup", of |-> NoRequest]
OurResponse == [kind |-> "ourResponse", of |-> NoRequest]
Garbage == [kind |-> "garbage", of |-> NoRequest]

HttpInit ==
  /\ future = [r \in Request |-> "unasked"]
  /\ answer = [r \in Request |-> NoRequest]
  /\ eventualResponseQueue = <<>>
  /\ lifetimeCancelled = FALSE
  /\ lastWork = NoRequest
  /\ userAt = "idle" /\ userRequest = NoRequest /\ managerLocked = FALSE
  /\ runLoopAt = "idle"
  /\ connection \in {"connecting", "connected"}
  /\ closedLocally = FALSE
  /\ writeBuffer = <<>> /\ wire = <<>> /\ inbound = <<>> /\ chunk = <<>>
  /\ serverMessages = 0

StreamFree == runLoopAt = "idle"

-----------------------------------------------------------------------------
(* What both threads do with their locks *)

\* clearQueue
Cleared(futures) ==
  [r \in Request |-> IF futures[r] = "incomplete" /\ r \in ToSet(eventualResponseQueue)
                     THEN "failed" ELSE futures[r]]

\* terminate, by a thread that holds the stream's lock or needs none.
Terminate(futures) ==
  /\ lifetimeCancelled' = TRUE
  /\ closedLocally' = TRUE
  /\ future' = Cleared(futures)
  /\ eventualResponseQueue' = <<>>

\* tryWriteBufferedData: as much as the stream has space for.
Flush(data) ==
  IF connection = "connected" /\ ~closedLocally
  THEN \E n \in 0 .. Len(data) :
         /\ wire' = wire \o SubSeq(data, 1, n)
         /\ writeBuffer' = SubSeq(data, n + 1, Len(data))
  ELSE writeBuffer' = data /\ UNCHANGED wire

-----------------------------------------------------------------------------
(* The user's thread *)

\* Defect: the lifetime is not looked at.
AsksAfterwards(r) ==
  /\ userAt = "idle" /\ future[r] = "unasked"
  /\ future' = [future EXCEPT ![r] = "incomplete"]
  /\ eventualResponseQueue' = Append(eventualResponseQueue, r)
  /\ userAt' = "sending" /\ userRequest' = r
  /\ UNCHANGED <<answer, lifetimeCancelled, lastWork, managerLocked, runLoopAt, streamVars,
                 networkVars, chunk>>

\* asyncResponseForRequest, under the manager's lock: a place in the queue...
AsyncResponseForRequest(r) ==
  /\ userAt = "idle" /\ future[r] = "unasked"
  /\ IF lifetimeCancelled
     THEN /\ future' = [future EXCEPT ![r] = "failed"]
          /\ UNCHANGED <<eventualResponseQueue, userAt, userRequest>>
     ELSE /\ future' = [future EXCEPT ![r] = "incomplete"]
          /\ eventualResponseQueue' = Append(eventualResponseQueue, r)
          /\ userAt' = "sending" /\ userRequest' = r
  /\ UNCHANGED <<answer, lifetimeCancelled, lastWork, managerLocked, runLoopAt, streamVars,
                 networkVars, chunk>>

\* ... and, outside it, the request itself.
Send ==
  /\ userAt = "sending" /\ StreamFree
  /\ Flush(Append(writeBuffer, RequestOf(userRequest)))
  /\ userAt' = "idle" /\ userRequest' = NoRequest
  /\ UNCHANGED <<managerVars, managerLocked, runLoopAt, connection, closedLocally, inbound,
                 serverMessages, chunk>>

\* terminateWhenDoneCurrentWork, while there is work.
TerminateWhenDoneCurrentWork ==
  /\ userAt = "idle" /\ lastWork = NoRequest
  /\ eventualResponseQueue # <<>>
  /\ lastWork' = Last(eventualResponseQueue)
  /\ UNCHANGED <<future, answer, eventualResponseQueue, lifetimeCancelled, userVars, runLoopAt,
                 streamVars, networkVars, chunk>>

\* The user hangs up, or there is no current work: terminate takes the
\* manager's lock and cancels the lifetime, whose handler terminates the
\* stream...
UserTerminates ==
  /\ userAt = "idle"
  /\ managerLocked' = TRUE
  /\ lifetimeCancelled' = TRUE
  /\ userAt' = IF lifetimeCancelled THEN "clearing" ELSE "closing"
  /\ UNCHANGED <<future, answer, eventualResponseQueue, lastWork, userRequest, runLoopAt,
                 streamVars, networkVars, chunk>>

\* ... under the stream's lock...
UserClosesStream ==
  /\ userAt = "closing" /\ StreamFree
  /\ closedLocally' = TRUE
  /\ connection' = IF connection = "connecting" THEN "no" ELSE connection
  /\ userAt' = "clearing"
  /\ UNCHANGED <<managerVars, userRequest, managerLocked, runLoopAt, writeBuffer, networkVars,
                 chunk>>

\* ... and then fails what waits.
UserClearsQueue ==
  /\ userAt = "clearing"
  /\ future' = Cleared(future)
  /\ eventualResponseQueue' = <<>>
  /\ userAt' = "idle" /\ managerLocked' = FALSE
  /\ UNCHANGED <<answer, lifetimeCancelled, lastWork, userRequest, runLoopAt, streamVars,
                 networkVars, chunk>>

-----------------------------------------------------------------------------
(* The run loop's thread, which holds the stream's lock in an event *)

\* onSpaceAvailableToWrite: what was sent before there was a connection, or
\* space, is written.
SpaceAvailable ==
  /\ StreamFree /\ ~closedLocally
  /\ connection \in {"connecting", "connected"}
  /\ connection = "connected" => writeBuffer # <<>>
  /\ connection' = "connected"
  /\ \E n \in 0 .. Len(writeBuffer) :
       /\ wire' = wire \o SubSeq(writeBuffer, 1, n)
       /\ writeBuffer' = SubSeq(writeBuffer, n + 1, Len(writeBuffer))
       /\ connection = "connected" => n > 0
  /\ UNCHANGED <<managerVars, userVars, runLoopAt, closedLocally, inbound, serverMessages, chunk>>

\* onBytesAvailableToRead
BytesAvailable ==
  /\ StreamFree /\ ~closedLocally /\ connection = "connected"
  /\ \E n \in 1 .. Len(inbound) :
       /\ chunk' = SubSeq(inbound, 1, n)
       /\ inbound' = SubSeq(inbound, n + 1, Len(inbound))
  /\ runLoopAt' = "reading"
  /\ UNCHANGED <<managerVars, userVars, streamVars, wire, serverMessages>>

\* The messages of a chunk are handled one after the other, each under the
\* manager's lock.
NextMessage(kind) ==
  /\ runLoopAt = "reading" /\ chunk # <<>> /\ Head(chunk).kind = kind
  /\ ~managerLocked

\* Defect: the latest request is taken for the one that is answered.
AnsweredIsLast(r) == Last(eventualResponseQueue)

AnsweredRequest(r) == Head(eventualResponseQueue)

HandleResponse ==
  /\ NextMessage("response")
  /\ chunk' = Tail(chunk)
  /\ IF eventualResponseQueue = <<>>
     THEN UNCHANGED <<future, answer, eventualResponseQueue, lifetimeCancelled, closedLocally>>
     ELSE LET r == AnsweredRequest(Head(chunk).of)
              futures == IF future[r] = "incomplete" THEN [future EXCEPT ![r] = "answered"]
                         ELSE future
          IN /\ answer' = [answer EXCEPT ![r] = Head(chunk).of]
             /\ IF r = lastWork THEN Terminate(futures)
                ELSE /\ future' = futures
                     /\ eventualResponseQueue' = Tail(eventualResponseQueue)
                     /\ UNCHANGED <<lifetimeCancelled, closedLocally>>
  /\ UNCHANGED <<lastWork, userVars, runLoopAt, connection, writeBuffer, networkVars>>

\* The request handler's response is sent before the lock is released.
HandleServerRequest ==
  /\ NextMessage("serverRequest")
  /\ chunk' = Tail(chunk)
  /\ Flush(Append(writeBuffer, OurResponse))
  /\ UNCHANGED <<managerVars, userVars, runLoopAt, connection, closedLocally, inbound,
                 serverMessages>>

\* The handler ends the call, which terminates the manager and closes the
\* stream: the response to the hangup is not written any more.
HandleHangup ==
  /\ NextMessage("hangup")
  /\ chunk' = Tail(chunk)
  /\ Terminate(future)
  /\ writeBuffer' = Append(writeBuffer, OurResponse)
  /\ UNCHANGED <<answer, lastWork, userVars, runLoopAt, connection, networkVars>>

\* Defect: the error is passed on, and the queue is kept.
PassErrorOn == UNCHANGED <<future, eventualResponseQueue, lifetimeCancelled, closedLocally>>

\* clearOnSeriousError, under the manager's lock: the queue is cleared, and if
\* that ends the last work the manager is terminated.  The lock is released
\* before the error handler is called and before the stream is closed.
ClearOnSeriousError ==
  IF lastWork \in ToSet(eventualResponseQueue)
  THEN Terminate(future)
  ELSE /\ future' = Cleared(future)
       /\ eventualResponseQueue' = <<>>
       /\ UNCHANGED <<lifetimeCancelled, closedLocally>>

\* What does not parse is a serious error, and the rest of the chunk is not
\* looked at.
HandleGarbage ==
  /\ NextMessage("garbage")
  /\ chunk' = <<>>
  /\ ClearOnSeriousError
  /\ runLoopAt' = "reporting"
  /\ UNCHANGED <<answer, lastWork, userVars, connection, writeBuffer, networkVars>>

ChunkIsRead ==
  /\ runLoopAt = "reading" /\ chunk = <<>>
  /\ runLoopAt' = "idle"
  /\ UNCHANGED <<managerVars, userVars, streamVars, networkVars, chunk>>

\* onErrorOccurred, onEndOfStream: onNetworkFailure reports the error...
NetworkFails ==
  /\ StreamFree /\ ~closedLocally
  /\ connection' = IF connection = "connecting" THEN "failed" ELSE connection
  /\ runLoopAt' = "failing"
  /\ UNCHANGED <<managerVars, userVars, closedLocally, writeBuffer, networkVars, chunk>>

\* ... to the manager, which needs its lock...
FailureIsReported ==
  /\ runLoopAt = "failing" /\ ~managerLocked
  /\ ClearOnSeriousError
  /\ runLoopAt' = "reporting"
  /\ UNCHANGED <<answer, lastWork, userVars, connection, writeBuffer, networkVars, chunk>>

\* ... and which passes it on.  The initiator's error handler ends the call, and
\* thereby terminates the manager, unless the call is over or the user's thread is
\* about to end it; the responder's only notes the error...
ErrorHandlerEndsCall ==
  /\ runLoopAt = "reporting" /\ ~managerLocked
  /\ Terminate(future)
  /\ runLoopAt' = "idle"
  /\ UNCHANGED <<answer, lastWork, userVars, connection, writeBuffer, networkVars, chunk>>

\* ... and at last the stream is closed.  The failure of a connection that never
\* came about is told to the future of the connection first, whose catch block
\* does all of this, and then reported again.
StreamTerminates ==
  /\ runLoopAt = "reporting"
  /\ closedLocally' = TRUE
  /\ runLoopAt' = IF connection = "failed" /\ ~closedLocally THEN "failing" ELSE "idle"
  /\ UNCHANGED <<managerVars, userVars, connection, writeBuffer, networkVars, chunk>>

-----------------------------------------------------------------------------
(* The server *)

ServerReads ==
  /\ wire # <<>>
  /\ wire' = Tail(wire)
  /\ inbound' = IF Head(wire).kind = "request"
                THEN Append(inbound, ResponseTo(Head(wire).of)) ELSE inbound
  /\ UNCHANGED <<managerVars, userVars, runLoopAt, streamVars, serverMessages, chunk>>

ServerSends ==
  /\ serverMessages < MaxServerMessages
  /\ serverMessages' = serverMessages + 1
  /\ \E m \in {Ringing, Hangup, Garbage} : inbound' = Append(inbound, m)
  /\ UNCHANGED <<managerVars, userVars, runLoopAt, streamVars, wire, chunk>>

-----------------------------------------------------------------------------

UserContinues == Send \/ UserClosesStream \/ UserClearsQueue

RunLoop ==
  \/ SpaceAvailable \/ BytesAvailable
  \/ HandleResponse \/ HandleServerRequest \/ HandleHangup \/ HandleGarbage
  \/ ChunkIsRead \/ FailureIsReported \/ ErrorHandlerEndsCall \/ StreamTerminates

HttpNext ==
  \/ \E r \in Request : AsyncResponseForRequest(r)
  \/ TerminateWhenDoneCurrentWork \/ UserTerminates
  \/ UserContinues
  \/ RunLoop
  \/ NetworkFails
  \/ ServerReads \/ ServerSends

\* A thread goes on when it can, and the server answers while it is connected.
HttpSpec ==
  /\ HttpInit /\ [][HttpNext]_httpVars
  /\ WF_httpVars(UserContinues) /\ WF_httpVars(RunLoop) /\ WF_httpVars(ServerReads)

-----------------------------------------------------------------------------

Message ==
  {RequestOf(r) : r \in Request} \cup {ResponseTo(r) : r \in Request}
    \cup {Ringing, Hangup, OurResponse, Garbage}

HttpTypeOK ==
  /\ future \in [Request -> {"unasked", "incomplete", "answered", "failed"}]
  /\ answer \in [Request -> Request \cup {NoRequest}]
  /\ eventualResponseQueue \in Seq(Request)
  /\ lifetimeCancelled \in BOOLEAN
  /\ lastWork \in Request \cup {NoRequest}
  /\ userAt \in {"idle", "sending", "closing", "clearing"}
  /\ userRequest \in Request \cup {NoRequest}
  /\ managerLocked = (userAt \in {"closing", "clearing"})
  /\ runLoopAt \in {"idle", "reading", "failing", "reporting"}
  /\ connection \in {"connecting", "connected", "no", "failed"}
  /\ closedLocally \in BOOLEAN
  /\ writeBuffer \in Seq(Message) /\ wire \in Seq(Message)
  /\ inbound \in Seq(Message) /\ chunk \in Seq(Message)
  /\ serverMessages \in 0 .. MaxServerMessages

\* The requests that the messages of a kind are about, in their order
OfKind(s, kind) ==
  LET of[n \in 0 .. Len(s)] ==
        IF n = 0 THEN <<>>
        ELSE IF s[n].kind = kind THEN Append(of[n - 1], s[n].of) ELSE of[n - 1]
  IN of[Len(s)]

(***************************************************************************)
(* While the stream is open, and until the manager is told of a failure,   *)
(* the queue of futures is exactly the requests on their way, oldest       *)
(* first: those answered and not yet handled, those the server has not     *)
(* read, those not yet written and the one being sent, whatever the server *)
(* asks in between (HttpManager.m:28-47, 111-126).                         *)
(***************************************************************************)
QueueFollowsStream ==
  ~closedLocally /\ runLoopAt # "reporting" =>
    eventualResponseQueue =
      OfKind(chunk, "response") \o OfKind(inbound, "response") \o OfKind(wire, "request")
        \o OfKind(writeBuffer, "request")
        \o (IF userAt = "sending" THEN <<userRequest>> ELSE <<>>)

(***************************************************************************)
(* Every future gets the response to its own request (HttpManager.m:122),  *)
(* although responses carry nothing that tells which request they answer.  *)
(***************************************************************************)
AnswersMatchRequests == \A r \in Request : future[r] = "answered" => answer[r] = r

(***************************************************************************)
(* Requests and responses stay paired: the state keeps its types, the      *)
(* queue follows the stream, and so every answer is that of its request.   *)
(***************************************************************************)
PairingInv == HttpTypeOK /\ QueueFollowsStream /\ AnswersMatchRequests

(***************************************************************************)
(* When terminate has returned, on whichever thread, nothing waits for a   *)
(* response any more and nothing will: the stream is closed, and a later   *)
(* request fails at once (HttpManager.m:36-39, 151-156).                   *)
(***************************************************************************)
TerminatedIsOver ==
  lifetimeCancelled /\ ~managerLocked =>
    closedLocally /\ \A r \in Request : future[r] # "incomplete"

\* The two threads wait for each other's lock.
Deadlocked ==
  /\ userAt = "closing"
  /\ runLoopAt = "failing" \/ (runLoopAt = "reading" /\ chunk # <<>>)

\* The manager has cleared its queue because of a failure, and still takes
\* requests: the stream is about to be closed, or is closed.
FailureIsKnown == runLoopAt = "reporting" \/ (closedLocally /\ ~lifetimeCancelled)

(***************************************************************************)
(* A future that was made before the manager was told of a failure         *)
(* completes, with whatever interleaving of requests, failures and         *)
(* hangups, unless the threads deadlock (see TerminateCancels).  One that  *)
(* is made later, between the clearing of the queue (HttpManager.m:107)    *)
(* and the closing of the stream or after both, is excepted: the code      *)
(* neither fails nor sends it, and unless the call ends it waits for ever. *)
(***************************************************************************)
EveryRequestEnds ==
  \A r \in Request :
    future[r] = "incomplete" /\ ~FailureIsKnown ~> future[r] # "incomplete" \/ Deadlocked

(***************************************************************************)
(* "Cancels something when terminate is called.  It must be safe to call   *)
(* terminate multiple times" (Terminable.h:3-4): when the user's thread    *)
(* calls the manager's, also while the stream terminates itself or handles *)
(* a message, the stream is closed.                                        *)
(***************************************************************************)
TerminateCancels == lifetimeCancelled ~> closedLocally
=============================================================================
