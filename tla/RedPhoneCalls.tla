---------------------------- MODULE RedPhoneCalls ----------------------------
(***************************************************************************)
(* RedPhone calls: the PhoneManager, the CallController of each call, the  *)
(* chain of futures that connects a call (CallConnectUtil), and the list   *)
(* of recent calls that watches them.                                      *)
(*                                                                         *)
(* The promises of a chain are cancelled with the call, so that the steps  *)
(* of a chain are those of a call that has not terminated.  The handshake  *)
(* is that of ZrtpHandshake, of which only the outcome is seen here.       *)
(***************************************************************************)
EXTENDS Integers, FiniteSets

CONSTANTS
    Calls,          \* CallControllers
    Sessions,       \* ids of the sessions that peers open with us
    None,           \* nil, and a future without a result
    MAX_TRY_COUNT,  \* attempts to contact the relay
    MaxRequests     \* bound: microphone permission requests of one kind at a time

ASSUME TryCountAssumption == MAX_TRY_COUNT \in Nat \ {0}
ASSUME RequestsAssumption == MaxRequests \in Nat

VARIABLES
    session,        \* per call: the session we respond to, None if we initiated
    stage,          \* how far the chain of the call got, "over" once it is cancelled
    tries,          \* attempts to contact the relay that timed out, while it goes on
    progress,       \* CallController.progress
    termination,    \* the future of the termination
    accepted,       \* interactiveCallAcceptedOrDenied
    sas,            \* shortAuthenticationString
    observed,       \* calls whose state the list of recent calls has got
    recentCalls,    \* per call: the type it was listed with
    curCallController,
    lastIncomingSessionId,
    permissionRequests,     \* per session, or None for dialling: requests in progress
    webRTCCall,             \* whether the CallService has a call
    signalledBusy           \* sessions that were told that we are busy

callVars  == <<session, stage, tries, progress, termination, accepted, sas>>
listVars  == <<observed, recentCalls>>
phoneVars == <<curCallController, lastIncomingSessionId, permissionRequests, webRTCCall,
               signalledBusy>>
redPhoneVars == <<callVars, listVars, phoneVars>>

Stages == {"unused", "connecting", "initiating", "ringing", "accepting", "relaying",
           "securing", "calling", "over"}
ProgressTypes == {"Connecting", "Ringing", "Securing", "Talking", "Terminated"}
TerminationTypes ==
    {"LoginFailed", "NoSuchUser", "StaleSession", "ServerMessage", "ResponderIsBusy",
     "RecipientUnavailable", "RejectedLocal", "RejectedRemote", "HandshakeFailed",
     "HangupLocal", "HangupRemote", "ReplacedByNext", "BadInteractionWithServer",
     "UncategorizedFailure", "BackgroundTimeExpired"}

ASSUME NilAssumption ==
    None \notin Calls \cup Sessions \cup TerminationTypes \cup {"yes", "no", "failed", "sas"}

Rank == [Connecting |-> 0, Ringing |-> 1, Securing |-> 2, Talking |-> 3, Terminated |-> 4]

isInitiator(c) == session[c] = None
Live(c) == stage[c] \notin {"unused", "over"}

RedPhoneInit ==
    /\ session = [c \in Calls |-> None]
    /\ stage = [c \in Calls |-> "unused"]
    /\ tries = [c \in Calls |-> 0]
    /\ progress = [c \in Calls |-> "Connecting"]
    /\ termination = [c \in Calls |-> None]
    /\ accepted = [c \in Calls |-> None]
    /\ sas = [c \in Calls |-> None]
    /\ observed = [c \in Calls |-> FALSE]
    /\ recentCalls = [c \in Calls |-> None]
    /\ curCallController = None
    /\ lastIncomingSessionId = None
    /\ permissionRequests = [r \in Sessions \cup {None} |-> 0]
    /\ webRTCCall = FALSE
    /\ signalledBusy = {}
-----------------------------------------------------------------------------
(***************************************************************************)
(* RecentCallManager and CallController.                                   *)
(***************************************************************************)
\* The type that a call is listed with when it has terminated.
CallType(c, reason) ==
    CASE isInitiator(c)          -> "outgoing"
      [] reason = "HangupRemote" -> "missed"
      [] OTHER                   -> "incoming"

Record(c, reason) ==
    recentCalls' = IF observed[c] THEN [recentCalls EXCEPT ![c] = CallType(c, reason)]
                                  ELSE recentCalls

\* Defect: the termination of a call is not looked at when it is already there.
AddLiveCall(c) ==
    /\ stage[c] # "unused" /\ ~observed[c]
    /\ observed' = [observed EXCEPT ![c] = TRUE]
    /\ UNCHANGED <<recentCalls, callVars, phoneVars>>

\* The list gets the state of the call, a turn after the call became the current one.
AddCall(c) ==
    /\ stage[c] # "unused" /\ ~observed[c]
    /\ observed' = [observed EXCEPT ![c] = TRUE]
    /\ recentCalls' = IF termination[c] = None THEN recentCalls
                      ELSE [recentCalls EXCEPT ![c] = CallType(c, termination[c])]
    /\ UNCHANGED <<callVars, phoneVars>>

\* Defect: progress takes whatever value it is given.
AnyAdvance(old, type) == type

\* unrestrictedAdvanceCallProgressTo: progress never goes backwards.
Advanced(old, type) == IF Rank[type] < Rank[old] THEN old ELSE type

AdvanceCallProgressTo(c, type) ==
    progress' = [progress EXCEPT ![c] = Advanced(@, type)]

FailIncomplete(future) == IF future = None THEN "failed" ELSE future

CancelChain(c) ==
    /\ stage' = [stage EXCEPT ![c] = "over"]
    /\ tries' = [tries EXCEPT ![c] = 0]

\* Completes every future of the call, and cancels what it is waiting for.
TerminateWithReason(c, reason) ==
    /\ Live(c)
    /\ termination' = [termination EXCEPT ![c] = reason]
    /\ progress' = [progress EXCEPT ![c] = Advanced(@, "Terminated")]
    /\ accepted' = [accepted EXCEPT ![c] = FailIncomplete(@)]
    /\ sas' = [sas EXCEPT ![c] = FailIncomplete(@)]
    /\ CancelChain(c)
    /\ Record(c, reason)
    /\ UNCHANGED <<session, observed, phoneVars>>

TerminateWithRejectionOrRemoteHangup(c) ==
    TerminateWithReason(c, IF Rank[progress[c]] > Rank["Ringing"] THEN "HangupRemote"
                                                                 ELSE "RejectedRemote")

\* Denies a call that was not answered yet.
HangupOrDenyCall(c) ==
    IF accepted[c] = None
      THEN /\ Live(c)
           /\ termination' = [termination EXCEPT ![c] = "RejectedLocal"]
           /\ progress' = [progress EXCEPT ![c] = Advanced(@, "Terminated")]
           /\ accepted' = [accepted EXCEPT ![c] = "no"]
           /\ sas' = [sas EXCEPT ![c] = FailIncomplete(@)]
           /\ CancelChain(c)
           /\ Record(c, "RejectedLocal")
           /\ UNCHANGED <<session, observed, phoneVars>>
      ELSE TerminateWithReason(c, "HangupLocal")

\* A responder that was waiting for it goes on.
AcceptCall(c) ==
    /\ Live(c) /\ accepted[c] = None
    /\ accepted' = [accepted EXCEPT ![c] = "yes"]
    /\ stage' = [stage EXCEPT ![c] = IF @ = "accepting" THEN "relaying" ELSE @]
    /\ UNCHANGED <<session, tries, progress, termination, sas, listVars, phoneVars>>
-----------------------------------------------------------------------------
(***************************************************************************)
(* PhoneManager.                                                           *)
(***************************************************************************)
HasOngoingCall == webRTCCall \/ (curCallController # None /\ Live(curCallController))

\* Defect: the call that was current goes on.
KeepExistingCall(c, s) ==
    /\ stage[c] = "unused" /\ stage' = [stage EXCEPT ![c] = "connecting"]
    /\ session' = [session EXCEPT ![c] = s]
    /\ curCallController' = c
    /\ accepted' = [accepted EXCEPT ![c] = IF s = None THEN "yes" ELSE None]
    /\ UNCHANGED <<termination, progress, sas, recentCalls, tries, observed>>

\* The old call is terminated before the new one takes its place.  We implicitly
\* accept a call that we initiate.
CancelExistingCallAndInitNewCallWork(c, s) ==
    LET old == curCallController
        Replaced(f, value) == IF old # None /\ Live(old) THEN [f EXCEPT ![old] = value] ELSE f
    IN /\ stage[c] = "unused"
       /\ stage' = [Replaced(stage, "over") EXCEPT ![c] = "connecting"]
       /\ tries' = Replaced(tries, 0)
       /\ session' = [session EXCEPT ![c] = s]
       /\ curCallController' = c
       /\ termination' = Replaced(termination, "ReplacedByNext")
       /\ progress' = Replaced(progress, "Terminated")
       /\ accepted' = [Replaced(accepted, FailIncomplete(accepted[old])) EXCEPT
                         ![c] = IF s = None THEN "yes" ELSE None]
       /\ sas' = Replaced(sas, FailIncomplete(sas[old]))
       /\ recentCalls' = IF old # None /\ Live(old) /\ observed[old]
                           THEN [recentCalls EXCEPT ![old] = CallType(old, "ReplacedByNext")]
                           ELSE recentCalls
       /\ UNCHANGED observed

RequestPermission(r) ==
    /\ permissionRequests[r] < MaxRequests
    /\ permissionRequests' = [permissionRequests EXCEPT ![r] = @ + 1]

InitiateOutgoingCall ==
    /\ RequestPermission(None)
    /\ UNCHANGED <<callVars, listVars, curCallController, lastIncomingSessionId, webRTCCall,
                   signalledBusy>>

\* A push of the signalling server.  The session is remembered before the check.
IncomingCallWithSession(s) ==
    /\ lastIncomingSessionId' = s
    /\ IF HasOngoingCall
         THEN /\ signalledBusy' = IF s = lastIncomingSessionId THEN signalledBusy
                                                              ELSE signalledBusy \cup {s}
              /\ UNCHANGED permissionRequests
         ELSE RequestPermission(s) /\ UNCHANGED signalledBusy
    /\ UNCHANGED <<callVars, listVars, curCallController, webRTCCall>>

\* The user answers, or has answered long ago; the call is not checked again.
PermissionGranted(r, c) ==
    /\ permissionRequests[r] > 0
    /\ permissionRequests' = [permissionRequests EXCEPT ![r] = @ - 1]
    /\ CancelExistingCallAndInitNewCallWork(c, r)
    /\ UNCHANGED <<lastIncomingSessionId, webRTCCall, signalledBusy>>

PermissionDenied(r) ==
    /\ permissionRequests[r] > 0
    /\ permissionRequests' = [permissionRequests EXCEPT ![r] = @ - 1]
    /\ UNCHANGED <<callVars, listVars, curCallController, lastIncomingSessionId, webRTCCall,
                   signalledBusy>>

\* The CallService begins or ends a call, whatever is going on here.
WebRTCCallChanges ==
    /\ webRTCCall' = ~webRTCCall
    /\ UNCHANGED <<callVars, listVars, curCallController, lastIncomingSessionId,
                   permissionRequests, signalledBusy>>

UserStep ==
    \/ InitiateOutgoingCall
    \/ /\ curCallController # None
       /\ \/ AcceptCall(curCallController)
          \/ HangupOrDenyCall(curCallController)
          \/ \E reason \in {"BackgroundTimeExpired", "UncategorizedFailure"} :
               TerminateWithReason(curCallController, reason)
    \/ \E r \in Sessions \cup {None} :
         PermissionDenied(r) \/ \E c \in Calls : PermissionGranted(r, c)
-----------------------------------------------------------------------------
(***************************************************************************)
(* CallConnectUtil: the chain of futures that connects a call.             *)
(***************************************************************************)
GoOn(c, from, to) ==
    /\ stage[c] = from
    /\ stage' = [stage EXCEPT ![c] = to]
    /\ UNCHANGED <<session, termination, listVars, phoneVars>>

\* The request to initiate, or to ring, is sent over the connection.
SignalServerConnected(c) ==
    /\ GoOn(c, "connecting", IF isInitiator(c) THEN "initiating" ELSE "ringing")
    /\ UNCHANGED <<tries, progress, accepted, sas>>

\* The connection cannot be made, or is lost: a responder that has rung does not care.
SignalServerFails(c) ==
    /\ isInitiator(c) \/ stage[c] \in {"connecting", "ringing"}
    /\ TerminateWithReason(c, "UncategorizedFailure")

SessionReceived(c) ==
    /\ GoOn(c, "initiating", "relaying")
    /\ UNCHANGED <<tries, progress, accepted, sas>>

\* callTerminationForBadResponse.
BadResponse(c) ==
    /\ stage[c] \in {"initiating", "ringing"}
    /\ \E reason \in {"LoginFailed", "BadInteractionWithServer"} \cup
                       IF isInitiator(c) THEN {"NoSuchUser", "ServerMessage"}
                                         ELSE {"StaleSession"} :
         TerminateWithReason(c, reason)

\* Defect: the call is connected as soon as it rings.
ConnectsWithoutAnswer(c) ==
    /\ GoOn(c, "ringing", "relaying")
    /\ AdvanceCallProgressTo(c, "Ringing")
    /\ UNCHANGED <<tries, accepted, sas>>

\* The user may have answered before the server did.
RingConfirmed(c) ==
    /\ GoOn(c, "ringing", IF accepted[c] = "yes" THEN "relaying" ELSE "accepting")
    /\ AdvanceCallProgressTo(c, "Ringing")
    /\ UNCHANGED <<tries, accepted, sas>>

\* What the signalling server tells us once the connection is there.
ServerRequest(c) ==
    /\ stage[c] \notin {"unused", "connecting"}
    /\ \/ \* too soon, or not understood
          TerminateWithReason(c, "BadInteractionWithServer")
       \/ /\ ~isInitiator(c)
          /\ TerminateWithReason(c, "HangupRemote")
       \/ /\ isInitiator(c) /\ stage[c] # "initiating"
          /\ \/ TerminateWithRejectionOrRemoteHangup(c)
             \/ TerminateWithReason(c, "ResponderIsBusy")
             \/ /\ Live(c) /\ AdvanceCallProgressTo(c, "Ringing")
                /\ UNCHANGED <<session, stage, tries, termination, accepted, sas, listVars,
                               phoneVars>>

\* The handshake begins: a responder sends its Hello.
RelayConnected(c) ==
    /\ GoOn(c, "relaying", "securing")
    /\ IF isInitiator(c) THEN UNCHANGED progress ELSE AdvanceCallProgressTo(c, "Securing")
    /\ tries' = [tries EXCEPT ![c] = 0]
    /\ UNCHANGED <<accepted, sas>>

\* One attempt of TOCFuture.retry; the next one begins until none is left.
RelayTimesOut(c) ==
    /\ stage[c] = "relaying"
    /\ IF tries[c] + 1 = MAX_TRY_COUNT
         THEN TerminateWithReason(c, "BadInteractionWithServer")
         ELSE /\ tries' = [tries EXCEPT ![c] = @ + 1]
              /\ UNCHANGED <<session, stage, progress, termination, accepted, sas, listVars,
                             phoneVars>>

\* Any failure but a timeout is not tried again; that of the socket tells the call itself.
RelayFails(c) ==
    /\ stage[c] = "relaying"
    /\ \E reason \in {"BadInteractionWithServer", "UncategorizedFailure"} :
         TerminateWithReason(c, reason)

HelloReceived(c) ==
    /\ stage[c] = "securing" /\ isInitiator(c)
    /\ AdvanceCallProgressTo(c, "Securing")
    /\ UNCHANGED <<session, stage, tries, termination, accepted, sas, listVars, phoneVars>>

\* The handshake, or its socket, fails; or the responder never says Hello.
HandshakeFails(c) ==
    /\ stage[c] = "securing"
    /\ \/ TerminateWithReason(c, "HandshakeFailed")
       \/ TerminateWithReason(c, "UncategorizedFailure")
       \/ /\ isInitiator(c) /\ progress[c] # "Securing"
          /\ TerminateWithReason(c, "RecipientUnavailable")

\* The audio begins.
Conversing(c) ==
    /\ GoOn(c, "securing", "calling")
    /\ isInitiator(c) => progress[c] = "Securing"
    /\ sas' = [sas EXCEPT ![c] = "sas"]
    /\ AdvanceCallProgressTo(c, "Talking")
    /\ UNCHANGED <<tries, accepted>>

AudioFails(c) == stage[c] = "calling" /\ TerminateWithReason(c, "UncategorizedFailure")

ConnectStep(c) ==
    \/ SignalServerConnected(c) \/ SignalServerFails(c)
    \/ SessionReceived(c) \/ BadResponse(c) \/ RingConfirmed(c)
    \/ ServerRequest(c)
    \/ RelayConnected(c) \/ RelayTimesOut(c) \/ RelayFails(c)
    \/ HelloReceived(c) \/ HandshakeFails(c) \/ Conversing(c)
    \/ AudioFails(c)

RedPhoneNext ==
    \/ UserStep
    \/ \E s \in Sessions : IncomingCallWithSession(s)
    \/ WebRTCCallChanges
    \/ \E c \in Calls : AddCall(c) \/ ConnectStep(c)

\* The run loop of the main thread runs what was scheduled on it.
RedPhoneSpec ==
    /\ RedPhoneInit /\ [][RedPhoneNext]_redPhoneVars
    /\ \A c \in Calls : WF_redPhoneVars(AddCall(c))
-----------------------------------------------------------------------------
(***************************************************************************)
(* Properties.                                                             *)
(***************************************************************************)
\* The types of the variables; the relay is contacted at most MAX_TRY_COUNT times
\* (asyncRepeatedlyAttemptConnectToUdpRelayDescribedBy).
PhoneTypeOK ==
    /\ session \in [Calls -> Sessions \cup {None}]
    /\ stage \in [Calls -> Stages]
    /\ tries \in [Calls -> 0 .. MAX_TRY_COUNT - 1]
    /\ progress \in [Calls -> ProgressTypes]
    /\ termination \in [Calls -> TerminationTypes \cup {None}]
    /\ accepted \in [Calls -> {None, "yes", "no", "failed"}]
    /\ sas \in [Calls -> {None, "sas", "failed"}]
    /\ observed \in [Calls -> BOOLEAN]
    /\ recentCalls \in [Calls -> {None, "outgoing", "incoming", "missed"}]
    /\ curCallController \in Calls \cup {None}
    /\ lastIncomingSessionId \in Sessions \cup {None}
    /\ permissionRequests \in [Sessions \cup {None} -> 0 .. MaxRequests]
    /\ webRTCCall \in BOOLEAN
    /\ signalledBusy \subseteq Sessions

\* However calls and permissions interleave, only the current call is alive: no other one
\* keeps its sockets, its microphone or its place in a conversation
\* (cancelExistingCallAndInitNewCallWork).
OnlyCurrentCallLives == \A c \in Calls : Live(c) => c = curCallController

\* Nothing is sent to the other party before the user has answered, wherever the answer,
\* the signalling server and the relay overtake each other
\* (asyncConnectToIncomingCallWithSessionDescriptor).
AnsweredBeforeSecuring ==
    \A c \in Calls :
      stage[c] \in {"relaying", "securing", "calling"} => accepted[c] = "yes"

\* A call that the user ended tells whether it had been answered (hangupOrDenyCall).
LocalEndTellsAnswer ==
    \A c \in Calls :
      /\ termination[c] = "RejectedLocal" => accepted[c] = "no"
      /\ termination[c] = "HangupLocal" => accepted[c] = "yes"

\* What the user answered is kept to: types with their bound on the attempts to contact the
\* relay, nothing sent before the answer, and an end that tells what the answer was.
AnswerIsKept == PhoneTypeOK /\ AnsweredBeforeSecuring /\ LocalEndTellsAnswer

\* A late Ringing, or any other late event, takes no call back, and none out of its end
\* ("CallController takes care of ensuring progress never goes backwards").
ProgressNeverGoesBack ==
    [][\A c \in Calls :
         /\ Rank[progress'[c]] >= Rank[progress[c]]
         /\ termination[c] # None => progress'[c] = "Terminated" /\ termination'[c] = termination[c]
      ]_redPhoneVars

\* A call ends up in the list of recent calls even if it was replaced before the list had
\* heard of it (RecentCallManager.addCall).
EveryCallIsListed == \A c \in Calls : termination[c] # None ~> recentCalls[c] # None
=============================================================================
