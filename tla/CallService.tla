----------------------------- MODULE CallService -----------------------------
(***************************************************************************)
(* The WebRTC call service of Signal-iOS: CallService.swift, the           *)
(* SignalCall objects it drives and the PeerConnectionClient it owns.      *)
(*                                                                         *)
(* Everything here happens on the main thread, so a handler is one atomic  *)
(* step.  What interleaves are the continuations of the promise chains of  *)
(* handleOutgoingCall and handleReceivedOffer (one chain per call, its     *)
(* progress kept in `step'), the callbacks of the peer connection, the     *)
(* signalling messages of the other party and the user.                    *)
(*                                                                         *)
(* A call is identified by a member of Calls: the identity stands for both *)
(* localId and signalingId, which are fresh random values.  A call's chain *)
(* creates at most one PeerConnectionClient, so that client is named by    *)
(* its call.  A TSContactThread is identified by its contact.              *)
(*                                                                         *)
(* The user interface (CallUIAdapter's adaptee) is added by the modules    *)
(* that extend this one.                                                   *)
(***************************************************************************)
EXTENDS Integers

CONSTANTS
    Calls,      \* the SignalCall objects that may be created
    Contacts,   \* the people on the other end
    None,       \* nil
    CallKit,    \* TRUE iff CallUIAdapter chose the CallKit adaptee
    Switches    \* bound: which of "mute", "video", "background" are ever operated

ASSUME NoneAssumption == None \notin Calls \cup Contacts
ASSUME CallKitAssumption == CallKit \in BOOLEAN

VARIABLES
    \* CallService
    call, thread, peerConnectionClient, sendIceUpdatesImmediately,
    pendingIceUpdateMessages, fulfillCallConnectedPromise, isRemoteVideoEnabled,
    \* SignalCall objects and their TSCall rows in the database
    direction, contact, state, callRecord, savedRecords,
    \* SignalCall.isMuted and .hasLocalVideo of the current call, the tracks of
    \* the current PeerConnectionClient, and the shared CallAudioSession
    isMuted, hasLocalVideo, audioEnabled, videoEnabled, audioSession,
    step,       \* how far the promise chain of each call has come
    client,     \* the life of each call's PeerConnectionClient
    exchanged,  \* Signal Service messages <<type, call>> handed over so far
    foreground  \* UIApplication.shared.applicationState # .background

callVars    == <<direction, contact, state, callRecord, savedRecords>>
serviceVars == <<call, thread, peerConnectionClient, sendIceUpdatesImmediately,
                 pendingIceUpdateMessages, fulfillCallConnectedPromise,
                 isRemoteVideoEnabled>>
mediaVars   == <<isMuted, hasLocalVideo, audioEnabled, videoEnabled, audioSession>>
vars        == <<callVars, serviceVars, mediaVars, step, client, exchanged, foreground>>

Ringing   == {"dialing", "answering", "remoteRinging", "localRinging"}
Ended     == {"localFailure", "localHangup", "remoteHangup", "remoteBusy"}
CallState == Ringing \cup Ended \cup {"connected"}

Records == {"none", "outgoingIncomplete", "outgoing",
            "incomingIncomplete", "incoming", "missed"}

\* A chain: iceServers -> negotiating -> negotiated [-> describing] -> sending
\* -> waiting -> over; a rejection goes through failed or timedOut, where the
\* catch block is still to run.
Steps == {"none", "iceServers", "negotiating", "negotiated", "describing",
          "sending", "waiting", "failed", "timedOut", "over"}

\* A client: new -> local (local description set, it gathers candidates) ->
\* described (both descriptions known) -> connected (ICE has connected);
\* closed by terminate(), released when another client took its place.
OpenClient   == {"new", "local", "described", "connected"}
ClientStates == OpenClient \cup {"none", "closed", "released"}

MessageTypes == {"offer", "answer", "ice", "hangup", "busy"}
-----------------------------------------------------------------------------
Init ==
    /\ call = None /\ thread = None /\ peerConnectionClient = None
    /\ sendIceUpdatesImmediately = TRUE
    /\ pendingIceUpdateMessages = {}
    /\ fulfillCallConnectedPromise = None
    /\ isRemoteVideoEnabled = FALSE
    /\ direction = [c \in Calls |-> "none"]
    /\ contact = [c \in Calls |-> None]
    /\ state = [c \in Calls |-> "unborn"]
    /\ callRecord = [c \in Calls |-> "none"]
    /\ savedRecords = [c \in Calls |-> 0]
    /\ isMuted = FALSE /\ hasLocalVideo = FALSE
    /\ audioEnabled = FALSE /\ videoEnabled = FALSE /\ audioSession = FALSE
    /\ step = [c \in Calls |-> "none"]
    /\ client = [c \in Calls |-> "none"]
    /\ exchanged = {}
    /\ foreground \in BOOLEAN
-----------------------------------------------------------------------------
(***************************************************************************)
(* Helpers shared by the handlers.                                         *)
(***************************************************************************)
\* Defect: the app's being in the background is forgotten.
VideoInBackground == call # None /\ state[call] = "connected" /\ hasLocalVideo

ShouldHaveLocalVideoTrack ==
    /\ foreground
    /\ call # None
    /\ state[call] = "connected"
    /\ hasLocalVideo

\* Evaluated on the state a handler leaves behind: the observers of call and
\* of call.state run before the handler returns.
UpdateIsVideoEnabled ==
    videoEnabled' = IF call' # None /\ peerConnectionClient' # None
                      THEN ShouldHaveLocalVideoTrack'
                      ELSE videoEnabled

\* Defect: the terminated client is not set to nil.
KeepClosedClient ==
    /\ client' = IF peerConnectionClient = None THEN client
                 ELSE [client EXCEPT ![peerConnectionClient] = "closed"]
    /\ audioEnabled' = FALSE /\ videoEnabled' = FALSE
    /\ UNCHANGED peerConnectionClient

\* PeerConnectionClient.terminate(), whose tracks go with it.
CloseClient ==
    /\ client' = IF peerConnectionClient = None THEN client
                 ELSE [client EXCEPT ![peerConnectionClient] = "closed"]
    /\ peerConnectionClient' = None
    /\ audioEnabled' = FALSE /\ videoEnabled' = FALSE

\* Defect: the audio session is left running.
KeepAudioSession == UNCHANGED audioSession

StopAudioSession == audioSession' = FALSE

ResetIceUpdates ==
    /\ sendIceUpdatesImmediately' = TRUE
    /\ pendingIceUpdateMessages' = {}

TerminateCall ==
    /\ isRemoteVideoEnabled' = FALSE
    /\ StopAudioSession
    /\ CloseClient
    /\ call' = None /\ thread' = None
    /\ isMuted' = FALSE /\ hasLocalVideo' = FALSE
    /\ ResetIceUpdates

\* The caller says what becomes of step and exchanged.
HandleFailedCall ==
    /\ state' = IF call = None THEN state
                ELSE [state EXCEPT ![call] = "localFailure"]
    /\ TerminateCall
    /\ UNCHANGED <<direction, contact, callRecord, savedRecords,
                   fulfillCallConnectedPromise, foreground>>

\* Defect: the comparison is the wrong way round.
IgnoreOwnTimeout(c) ==
    IF call = c
      THEN UNCHANGED <<callVars, serviceVars, mediaVars, client, foreground>>
      ELSE HandleFailedCall

\* Defect: the call that timed out is failed, current or not.
FailTimedOutCall(c) ==
    /\ state' = [state EXCEPT ![c] = "localFailure"]
    /\ TerminateCall
    /\ UNCHANGED <<direction, contact, callRecord, savedRecords,
                   fulfillCallConnectedPromise, foreground>>

\* Defect: a timeout is for the current call only, and ignored when there is none.
IgnoreTimeoutBetweenCalls(c) ==
    IF call # c
      THEN UNCHANGED <<callVars, serviceVars, mediaVars, client, foreground>>
      ELSE HandleFailedCall

\* A timeout error carries its call, and is ignored when another one is current.
HandleTimeout(c) ==
    IF call # None /\ call # c
      THEN UNCHANGED <<callVars, serviceVars, mediaVars, client, foreground>>
      ELSE HandleFailedCall

\* Defect: any record becomes a missed call.
MissAnyCall(c) ==
    /\ callRecord' = [callRecord EXCEPT ![c] = "missed"]
    /\ savedRecords' = [savedRecords EXCEPT ![c] = IF callRecord[c] = "none" THEN @ + 1 ELSE @]

\* Defect: the record is set but not saved.
SaveNoMissedCall(c) ==
    /\ callRecord' = [callRecord EXCEPT ![c] =
                        IF @ \in {"none", "incoming"} THEN "missed" ELSE @]
    /\ UNCHANGED savedRecords

HandleMissedCall(c) ==
    /\ callRecord' = [callRecord EXCEPT ![c] =
                        IF @ \in {"none", "incoming"} THEN "missed" ELSE @]
    /\ savedRecords' = [savedRecords EXCEPT ![c] = IF callRecord[c] = "none" THEN @ + 1 ELSE @]

\* Incomplete calls are completed once the call has connected.
UpdateCallRecordType(type) ==
    CASE type = "outgoingIncomplete" -> "outgoing"
      [] type = "incomingIncomplete" -> "incoming"
      [] OTHER -> type

\* Fulfilling a promise that is no longer pending does nothing.
FulfillCallConnectedPromise ==
    step' = [c \in Calls |-> IF c = fulfillCallConnectedPromise /\ step[c] = "waiting"
                               THEN "over" ELSE step[c]]

\* Called when peerConnectionClient # nil; records is callRecord as the caller left it.
HandleConnectedCall(records) ==
    /\ FulfillCallConnectedPromise
    /\ state' = [state EXCEPT ![call] = "connected"]
    /\ callRecord' = [records EXCEPT ![call] = UpdateCallRecordType(@)]
    /\ audioEnabled' = ~isMuted
    /\ UNCHANGED <<serviceVars, direction, contact, isMuted, hasLocalVideo,
                   client, exchanged, foreground>>
    /\ UpdateIsVideoEnabled

\* A failed force unwrap ends the process.  Relaunched, the app has no calls;
\* only the call records are on disk.
AppCrashes ==
    /\ TerminateCall
    /\ step' = [c \in Calls |-> IF step[c] = "none" THEN "none" ELSE "over"]
    /\ fulfillCallConnectedPromise' = None
    /\ UNCHANGED <<callVars, exchanged, foreground>>
-----------------------------------------------------------------------------
(***************************************************************************)
(* Placing and receiving a call.  SignalCall's initialisers give direction *)
(* and contact; callers of HandleOutgoingCall say what those become.       *)
(***************************************************************************)
\* Not connected yet, so updateIsVideoEnabled turns the video track off.
BecomesCurrent(c, p) ==
    /\ call' = c /\ thread' = p
    /\ isMuted' = FALSE /\ hasLocalVideo' = FALSE /\ videoEnabled' = FALSE
    /\ UNCHANGED <<peerConnectionClient, fulfillCallConnectedPromise, isRemoteVideoEnabled,
                   audioEnabled, audioSession, client, foreground>>

HandleOutgoingCall(c, p) ==
    IF call # None
      THEN /\ state' = [state EXCEPT ![c] = "localFailure"]
           /\ UNCHANGED <<callRecord, savedRecords, serviceVars, mediaVars, step,
                          client, exchanged, foreground>>
      ELSE /\ BecomesCurrent(c, p)
           /\ sendIceUpdatesImmediately' = FALSE
           /\ pendingIceUpdateMessages' = {}
           /\ callRecord' = [callRecord EXCEPT ![c] = "outgoingIncomplete"]
           /\ savedRecords' = [savedRecords EXCEPT ![c] = @ + 1]
           /\ IF peerConnectionClient # None
                THEN /\ state' = [state EXCEPT ![c] = "localFailure"]
                     /\ UNCHANGED step
                ELSE /\ state' = [state EXCEPT ![c] = "dialing"]
                     /\ step' = [step EXCEPT ![c] = "iceServers"]
           /\ UNCHANGED exchanged

\* Already in a call, or in a RedPhone call: the new call is answered busy and
\* recorded as missed without ever becoming current.
HandleLocalBusyCall(c) ==
    /\ exchanged' = exchanged \cup {<<"busy", c>>}
    /\ HandleMissedCall(c)
    /\ UNCHANGED <<serviceVars, mediaVars, step, client, foreground>>

HandleReceivedOffer(c, p) ==
    /\ state[c] = "unborn"
    /\ direction' = [direction EXCEPT ![c] = "incoming"]
    /\ contact' = [contact EXCEPT ![c] = p]
    /\ state' = [state EXCEPT ![c] = "answering"]
    /\ \E hasOngoingRedphoneCall \in BOOLEAN :
         IF call # None \/ hasOngoingRedphoneCall
           THEN HandleLocalBusyCall(c)
           ELSE /\ BecomesCurrent(c, p)
                /\ step' = [step EXCEPT ![c] = "iceServers"]
                /\ UNCHANGED <<sendIceUpdatesImmediately, pendingIceUpdateMessages,
                               callRecord, savedRecords, exchanged>>
-----------------------------------------------------------------------------
(***************************************************************************)
(* Signal Service messages of the other party.  Delivery is asynchronous:  *)
(* a message may be late, may never come, and may come again (the server   *)
(* repeats what was not acknowledged).  What can arrive is what a peer of  *)
(* this protocol sends: an answer, candidates, busy or hangup for an offer *)
(* we sent, candidates for an offer we answered, hangup for an offer of    *)
(* its own.                                                                *)
(***************************************************************************)
Answered(c) == <<"answer", c>> \in exchanged
Offered(c)  == <<"offer", c>> \in exchanged

\* Defect: the id in the answer is not compared with the current call's.
AcceptAnyAnswer(c) ==
    /\ Offered(c)
    /\ exchanged' = exchanged \cup {<<"answer", c>>}
    /\ UNCHANGED step
    /\ IF call # None /\ peerConnectionClient # None
         THEN /\ sendIceUpdatesImmediately' = TRUE
              /\ client' = [client EXCEPT ![peerConnectionClient] =
                              IF @ = "local" THEN "described" ELSE @]
              /\ UNCHANGED <<callVars, call, thread, peerConnectionClient,
                             pendingIceUpdateMessages, fulfillCallConnectedPromise,
                             isRemoteVideoEnabled, mediaVars, foreground>>
         ELSE HandleFailedCall

HandleReceivedAnswer(c) ==
    /\ Offered(c)
    /\ exchanged' = exchanged \cup {<<"answer", c>>} \cup
          (IF call = c /\ pendingIceUpdateMessages # {} THEN {<<"ice", c>>} ELSE {})
    /\ UNCHANGED step
    /\ IF call = c /\ peerConnectionClient # None
         THEN /\ sendIceUpdatesImmediately' = TRUE
              /\ client' = [client EXCEPT ![c] =
                              IF peerConnectionClient = c /\ @ = "local" THEN "described" ELSE @]
              /\ UNCHANGED <<callVars, call, thread, peerConnectionClient,
                             pendingIceUpdateMessages, fulfillCallConnectedPromise,
                             isRemoteVideoEnabled, mediaVars, foreground>>
         ELSE HandleFailedCall

\* An accepted candidate is handed to WebRTC and changes nothing here.
HandleRemoteAddedIceCandidate(c) ==
    /\ Offered(c) \/ Answered(c)
    /\ UNCHANGED <<step, exchanged>>
    /\ IF thread = contact[c] /\ call = c /\ peerConnectionClient # None
         THEN UNCHANGED vars
         ELSE HandleFailedCall

\* Called with the contact of the current thread.
HandleRemoteHangup ==
    /\ UNCHANGED <<step, exchanged>>
    /\ IF call = None
         THEN HandleFailedCall
         ELSE /\ IF state[call] \in Ringing \cup {"localFailure", "remoteBusy"}
                   THEN HandleMissedCall(call)
                   ELSE UNCHANGED <<callRecord, savedRecords>>
              /\ state' = [state EXCEPT ![call] = "remoteHangup"]
              /\ TerminateCall
              /\ UNCHANGED <<direction, contact, fulfillCallConnectedPromise, foreground>>

\* A hangup from anybody but the current thread's contact is ignored.
ReceivedHangup(c) ==
    /\ Offered(c) \/ direction[c] = "incoming"
    /\ contact[c] = thread
    /\ HandleRemoteHangup

HandleRemoteBusy(c) ==
    /\ Offered(c)
    /\ UNCHANGED <<step, exchanged>>
    /\ IF call = None
         THEN HandleFailedCall
         ELSE /\ state' = [state EXCEPT ![call] = "remoteBusy"]
              /\ TerminateCall
              /\ UNCHANGED <<direction, contact, callRecord, savedRecords,
                             fulfillCallConnectedPromise, foreground>>

ReceivedMessage(c) ==
    \/ \E p \in Contacts : HandleReceivedOffer(c, p)
    \/ HandleReceivedAnswer(c)
    \/ HandleRemoteAddedIceCandidate(c)
    \/ ReceivedHangup(c)
    \/ HandleRemoteBusy(c)
-----------------------------------------------------------------------------
(***************************************************************************)
(* The promise chains.  A handler block runs on the main thread after its  *)
(* promise is resolved; whatever the main thread did in between has        *)
(* happened.  Every block of an incoming call's chain checks that its call *)
(* is still the current one; the blocks of an outgoing call's chain do not.*)
(***************************************************************************)
Advance(c, to) == step' = [step EXCEPT ![c] = to]

\* Defect: the chain does not look whether its call is still current.
NeverObsolete(c) == FALSE

Obsolete(c) == direction[c] = "incoming" /\ call # c

\* A block that only moves the chain on.
OnlyAdvance(c, to) ==
    /\ Advance(c, to)
    /\ UNCHANGED <<callVars, serviceVars, mediaVars, client, exchanged, foreground>>

\* The new client replaces the one there may be, which only an assert excludes.
InstallClient(c) ==
    /\ peerConnectionClient' = c
    /\ client' = [d \in Calls |-> IF d = c THEN "new"
                                  ELSE IF d = peerConnectionClient THEN "released"
                                  ELSE client[d]]
    /\ audioEnabled' = FALSE /\ videoEnabled' = FALSE

\* getIceServers falls back to a built-in server, so it never rejects.
GotIceServers(c) ==
    /\ step[c] = "iceServers"
    /\ IF Obsolete(c)
         THEN OnlyAdvance(c, "failed")
         ELSE /\ InstallClient(c)
              /\ Advance(c, "negotiating")
              /\ UNCHANGED <<callVars, call, thread, sendIceUpdatesImmediately,
                             pendingIceUpdateMessages, fulfillCallConnectedPromise,
                             isRemoteVideoEnabled, isMuted, hasLocalVideo, audioSession,
                             exchanged, foreground>>

\* On the signaling queue: createOffer or negotiateSessionDescription is done.
\* createOffer rejects once its client is terminated; the last part of
\* negotiateSessionDescription, which sets the local description, may be past that check.
Negotiated(c) ==
    /\ step[c] = "negotiating"
    /\ direction[c] = "outgoing" => client[c] # "closed"
    /\ Advance(c, "negotiated")
    /\ client' = [client EXCEPT ![c] =
                    IF direction[c] = "incoming" /\ @ = "new" THEN "local" ELSE @]
    /\ UNCHANGED <<callVars, serviceVars, mediaVars, exchanged, foreground>>

NegotiationFailed(c) == step[c] = "negotiating" /\ OnlyAdvance(c, "failed")

\* The block unwraps peerConnectionClient, whatever client that is by now.  A
\* description of another client's offer is refused by WebRTC, which goes unnoticed.
OfferCreated(c) ==
    /\ step[c] = "negotiated"
    /\ direction[c] = "outgoing"
    /\ IF peerConnectionClient = None
         THEN AppCrashes
         ELSE /\ Advance(c, "describing")
              /\ client' = [client EXCEPT ![c] =
                              IF peerConnectionClient = c /\ @ = "new" THEN "local" ELSE @]
              /\ UNCHANGED <<callVars, serviceVars, mediaVars, exchanged, foreground>>

SendOffer(c) ==
    /\ step[c] = "describing"
    /\ Advance(c, "sending")
    /\ exchanged' = exchanged \cup {<<"offer", c>>}
    /\ UNCHANGED <<callVars, serviceVars, mediaVars, client, foreground>>

SendAnswer(c) ==
    /\ step[c] = "negotiated"
    /\ direction[c] = "incoming"
    /\ IF Obsolete(c)
         THEN OnlyAdvance(c, "failed")
         ELSE /\ Advance(c, "sending")
              /\ exchanged' = exchanged \cup {<<"answer", c>>}
              /\ client' = [client EXCEPT ![c] = IF @ = "local" THEN "described" ELSE @]
              /\ UNCHANGED <<callVars, serviceVars, mediaVars, foreground>>

MessageSent(c) ==
    /\ step[c] = "sending"
    /\ IF Obsolete(c)
         THEN OnlyAdvance(c, "failed")
         ELSE /\ Advance(c, "waiting")
              /\ fulfillCallConnectedPromise' = c
              /\ UNCHANGED <<callVars, call, thread, peerConnectionClient,
                             sendIceUpdatesImmediately, pendingIceUpdateMessages,
                             isRemoteVideoEnabled, mediaVars, client, exchanged, foreground>>

SendingFailed(c) == step[c] = "sending" /\ OnlyAdvance(c, "failed")

ConnectingTimedOut(c) == step[c] = "waiting" /\ OnlyAdvance(c, "timedOut")

\* The catch block.
ChainFailed(c) ==
    /\ step[c] \in {"failed", "timedOut"}
    /\ Advance(c, "over")
    /\ UNCHANGED exchanged
    /\ IF Obsolete(c)
         THEN UNCHANGED <<callVars, serviceVars, mediaVars, client, foreground>>
         ELSE IF step[c] = "timedOut" THEN HandleTimeout(c) ELSE HandleFailedCall

\* The background task of an incoming call ends with its chain.
BackgroundTaskExpired(c) ==
    /\ ~foreground
    /\ direction[c] = "incoming"
    /\ call = c
    /\ step[c] # "over"
    /\ HandleFailedCall
    /\ UNCHANGED <<step, exchanged>>

ChainStep(c) ==
    \/ GotIceServers(c) \/ Negotiated(c) \/ NegotiationFailed(c)
    \/ OfferCreated(c) \/ SendOffer(c) \/ SendAnswer(c)
    \/ MessageSent(c) \/ SendingFailed(c)
    \/ ConnectingTimedOut(c) \/ ChainFailed(c) \/ BackgroundTaskExpired(c)
-----------------------------------------------------------------------------
(***************************************************************************)
(* Callbacks of the PeerConnectionClient.  Those of any client but the     *)
(* current one are ignored ("event from obsolete peerConnectionClient"),   *)
(* and a client stops calling back when it is terminated.                  *)
(***************************************************************************)
CallbackIn(states) ==
    /\ peerConnectionClient # None
    /\ client[peerConnectionClient] \in states

PeerConnectionClientIceConnected ==
    /\ CallbackIn({"described", "connected"})
    /\ UNCHANGED <<step, exchanged>>
    /\ IF call = None
         THEN HandleFailedCall
         ELSE /\ client' = [client EXCEPT ![peerConnectionClient] = "connected"]
              /\ state' = [state EXCEPT ![call] =
                             CASE @ = "dialing" -> "remoteRinging"
                               [] @ = "answering" -> "localRinging"
                               [] OTHER -> @]
              /\ UNCHANGED <<direction, contact, callRecord, savedRecords, serviceVars,
                             isMuted, hasLocalVideo, audioEnabled, audioSession, foreground>>
              /\ UpdateIsVideoEnabled

PeerConnectionClientIceFailed ==
    /\ CallbackIn({"described", "connected"})
    /\ HandleFailedCall
    /\ UNCHANGED <<step, exchanged>>

HandleLocalAddedIceCandidate ==
    /\ CallbackIn({"local", "described", "connected"})
    /\ UNCHANGED step
    /\ IF call = None
         THEN HandleFailedCall /\ UNCHANGED exchanged
         ELSE /\ IF sendIceUpdatesImmediately
                   THEN /\ exchanged' = exchanged \cup {<<"ice", call>>}
                        /\ UNCHANGED pendingIceUpdateMessages
                   ELSE /\ pendingIceUpdateMessages' = pendingIceUpdateMessages \cup {call}
                        /\ UNCHANGED exchanged
              /\ UNCHANGED <<callVars, call, thread, peerConnectionClient,
                             sendIceUpdatesImmediately, fulfillCallConnectedPromise,
                             isRemoteVideoEnabled, mediaVars, client, foreground>>

\* Only a callee sends Connected.  The CallKit adaptee leaves the audio session to the system.
RecipientAcceptedCall == audioSession' = (audioSession \/ ~CallKit)

\* The id in a data channel message is that of the call its client was made for.
DataChannelConnected ==
    /\ CallbackIn({"connected"})
    /\ direction[peerConnectionClient] = "outgoing"
    /\ IF call = peerConnectionClient
         THEN /\ RecipientAcceptedCall
              /\ HandleConnectedCall(callRecord)
              /\ UNCHANGED savedRecords
         ELSE HandleFailedCall /\ UNCHANGED <<step, exchanged>>

DataChannelHangup ==
    /\ CallbackIn({"connected"})
    /\ IF call = peerConnectionClient
         THEN HandleRemoteHangup
         ELSE HandleFailedCall /\ UNCHANGED <<step, exchanged>>

\* This message is taken without looking at its id.
DataChannelVideoStreamingStatus(enabled) ==
    /\ CallbackIn({"connected"})
    /\ UNCHANGED <<step, exchanged>>
    /\ IF call = None
         THEN HandleFailedCall
         ELSE /\ isRemoteVideoEnabled' = enabled
              /\ UNCHANGED <<callVars, call, thread, peerConnectionClient,
                             sendIceUpdatesImmediately, pendingIceUpdateMessages,
                             fulfillCallConnectedPromise, mediaVars, client, foreground>>

Callback ==
    \/ PeerConnectionClientIceConnected \/ PeerConnectionClientIceFailed
    \/ HandleLocalAddedIceCandidate
    \/ DataChannelConnected \/ DataChannelHangup
    \/ \E enabled \in BOOLEAN : DataChannelVideoStreamingStatus(enabled)
-----------------------------------------------------------------------------
(***************************************************************************)
(* The user, through the adaptee, and the application.                     *)
(***************************************************************************)
\* Called for the current call (HandleAnswerCall ignores any other one).  The
\* record is a new TSCall, whether or not the call already has one.
HandleAnswerCall ==
    IF peerConnectionClient = None
      THEN HandleFailedCall /\ UNCHANGED <<step, exchanged>>
      ELSE /\ savedRecords' = [savedRecords EXCEPT ![call] = @ + 1]
           /\ HandleConnectedCall([callRecord EXCEPT ![call] = "incomingIncomplete"])

HandleLocalHungupCall(c) ==
    /\ UNCHANGED step
    /\ IF call = c /\ peerConnectionClient # None
         THEN /\ state' = [state EXCEPT ![c] = "localHangup"]
              /\ exchanged' = exchanged \cup {<<"hangup", c>>}
              /\ TerminateCall
              /\ UNCHANGED <<direction, contact, callRecord, savedRecords,
                             fulfillCallConnectedPromise, foreground>>
         ELSE HandleFailedCall /\ UNCHANGED exchanged

SetIsMuted(muted) ==
    /\ "mute" \in Switches
    /\ UNCHANGED <<step, exchanged>>
    /\ IF call = None \/ peerConnectionClient = None
         THEN HandleFailedCall
         ELSE /\ isMuted' = muted
              /\ audioEnabled' = ~muted
              /\ UNCHANGED <<callVars, serviceVars, hasLocalVideo, videoEnabled,
                             audioSession, client, foreground>>

\* With camera permission; without it only an alert is shown.
SetHasLocalVideo(enabled) ==
    /\ "video" \in Switches
    /\ UNCHANGED <<step, exchanged>>
    /\ IF call = None \/ peerConnectionClient = None
         THEN HandleFailedCall
         ELSE /\ hasLocalVideo' = enabled
              /\ UNCHANGED <<callVars, serviceVars, isMuted, audioEnabled,
                             audioSession, client, foreground>>
              /\ UpdateIsVideoEnabled

DidEnterBackgroundOrBecomeActive ==
    /\ "background" \in Switches
    /\ foreground' = ~foreground
    /\ UNCHANGED <<callVars, serviceVars, isMuted, hasLocalVideo, audioEnabled,
                   audioSession, step, client, exchanged>>
    /\ UpdateIsVideoEnabled

\* The user changed the CallKit preference during a call.
CreateCallUIAdapter ==
    /\ call # None
    /\ TerminateCall
    /\ UNCHANGED <<callVars, fulfillCallConnectedPromise, step, exchanged, foreground>>

ServiceNext ==
    \/ \E c \in Calls : ReceivedMessage(c) \/ ChainStep(c)
    \/ Callback
    \/ DidEnterBackgroundOrBecomeActive
    \/ CreateCallUIAdapter
-----------------------------------------------------------------------------
(***************************************************************************)
(* Properties.                                                             *)
(***************************************************************************)
\* The types of the fields; a SignalCall has a direction and a contact from its
\* initialiser on, and its record is set exactly when it is saved.
TypeOK ==
    /\ call \in Calls \cup {None}
    /\ thread \in Contacts \cup {None}
    /\ peerConnectionClient \in Calls \cup {None}
    /\ sendIceUpdatesImmediately \in BOOLEAN
    /\ pendingIceUpdateMessages \subseteq Calls
    /\ fulfillCallConnectedPromise \in Calls \cup {None}
    /\ isRemoteVideoEnabled \in BOOLEAN
    /\ direction \in [Calls -> {"none", "outgoing", "incoming"}]
    /\ contact \in [Calls -> Contacts \cup {None}]
    /\ state \in [Calls -> CallState \cup {"unborn"}]
    /\ callRecord \in [Calls -> Records]
    /\ savedRecords \in [Calls -> Nat]
    /\ isMuted \in BOOLEAN /\ hasLocalVideo \in BOOLEAN
    /\ audioEnabled \in BOOLEAN /\ videoEnabled \in BOOLEAN
    /\ audioSession \in BOOLEAN
    /\ step \in [Calls -> Steps]
    /\ client \in [Calls -> ClientStates]
    /\ exchanged \subseteq MessageTypes \X Calls
    /\ foreground \in BOOLEAN
    /\ \A c \in Calls :
         /\ state[c] = "unborn" <=> direction[c] = "none"
         /\ state[c] = "unborn" <=> contact[c] = None
         /\ state[c] = "unborn" => step[c] = "none" /\ callRecord[c] = "none"
         /\ callRecord[c] = "none" <=> savedRecords[c] = 0

\* terminateCall ("Clean up any existing call state and get ready to receive a
\* new call") is the only way out of a call: during a call the thread and the
\* queued candidates are those of that call, and between calls nothing of the
\* last one is left in the service, with two exceptions, both of the code:
\*   - getIceServers may answer an outgoing call's chain when that call is over.
\*     Its block looks at no call and installs a client, which the assertion that
\*     there is none (CallService.swift:304) then meets in the next call.  Such a
\*     client knows no other party, and the chain that made it still runs, so that
\*     the chain's end, if nothing else before it, terminates the client.
\*   - terminateCall leaves fulfillCallConnectedPromise.  What is left is the
\*     promise of a call whose message was sent, so that a next call that
\*     fulfills it ends at most the waiting of a chain.
ReadyForNewCall ==
    /\ call = None =>
         /\ thread = None
         /\ sendIceUpdatesImmediately /\ pendingIceUpdateMessages = {}
         /\ ~isRemoteVideoEnabled /\ ~audioEnabled /\ ~videoEnabled
         /\ \A d \in Calls :
              d = peerConnectionClient =>
                /\ direction[d] = "outgoing" /\ client[d] \in {"new", "local"}
                /\ step[d] \notin {"none", "iceServers", "over"}
    /\ call # None =>
         /\ thread = contact[call]
         /\ pendingIceUpdateMessages \subseteq {call}
    /\ \A d \in Calls :
         d = fulfillCallConnectedPromise => step[d] \in {"waiting", "timedOut", "over"}

\* The client the service holds was never terminated (the assert in
\* PeerConnectionClient.terminate), and although a late getIceServers response
\* can install the client of another call, a client that can connect is the
\* current call's own: no call is ever driven by another call's media connection.
ClientBelongsToCall ==
    peerConnectionClient # None =>
        /\ client[peerConnectionClient] \in OpenClient
        /\ client[peerConnectionClient] \in {"described", "connected"}
             => call = peerConnectionClient

\* "Once compatible ICE updates have been exchanged" the parties ring: neither
\* end rings or connects before the answer of that very call has been exchanged.
RingsOnlyAfterAnswer ==
    \A c \in Calls : state[c] \in {"remoteRinging", "localRinging", "connected"} => Answered(c)

\* The call history says what happened: a connected call is recorded as
\* incoming or outgoing, a record says so only if the call connected (it never
\* still rings), only an incoming call that never connected is missed, and a call
\* the other party hung up is in the history without an incomplete incoming entry.
RecordTellsOutcome ==
    \A c \in Calls :
        /\ state[c] = "connected" => callRecord[c] = direction[c]
        /\ callRecord[c] \in {"incoming", "outgoing"} =>
             callRecord[c] = direction[c] /\ state[c] \notin Ringing
        /\ callRecord[c] = "missed" => direction[c] = "incoming" /\ state[c] # "connected"
        /\ state[c] = "remoteHangup" => callRecord[c] # "none"
        /\ callRecord[c] # "incomingIncomplete"

\* "The caller stores all ICE updates until receiving positive confirmation that
\* the callee has received a message from us": no candidate of an outgoing call is
\* sent before that call's answer came, whatever other calls did to the queue.
IceHeldUntilAnswer ==
    \A c \in Calls :
        direction[c] = "outgoing" /\ <<"ice", c>> \in exchanged => Answered(c)

\* The tracks obey the user: a muted call sends no audio, and video is sent only
\* in a connected call with video on and the app in the foreground, through
\* every order of toggles, connection, backgrounding and replaced clients.
TracksObeyUser ==
    /\ audioEnabled => ~isMuted
    /\ videoEnabled => /\ foreground /\ hasLocalVideo
                       /\ call # None /\ state[call] = "connected"

\* Without CallKit the shared audio session runs only during a connected call:
\* "Else, we start recording before the next call is ringing" (CallAudioSession).
NoRecordingBeforeConnected ==
    ~CallKit /\ audioSession => call # None /\ state[call] = "connected"

\* What the invariants above rest on: a client has both descriptions only once the
\* answer was exchanged, messages belong to calls that exist, a current call is in
\* progress (or could not be placed), an outgoing one is recorded and holds its
\* candidates until its answer, and without a client nothing is transmitted.
CallInv ==
    /\ \A c \in Calls :
         /\ client[c] \in {"described", "connected"} => Answered(c)
         /\ state[c] = "unborn" => \A type \in MessageTypes : <<type, c>> \notin exchanged
         /\ callRecord[c] = "outgoingIncomplete" => direction[c] = "outgoing"
         /\ direction[c] = "outgoing" =>
              callRecord[c] \in {"none", "outgoingIncomplete", "outgoing"}
    /\ call # None =>
         /\ state[call] \in Ringing \cup {"connected", "localFailure"}
         /\ direction[call] = "outgoing" =>
              /\ callRecord[call] # "none"
              /\ sendIceUpdatesImmediately => Answered(call)
    /\ peerConnectionClient = None => ~audioEnabled /\ ~videoEnabled

\* The service and its calls keep their types, and what the handlers presuppose of each
\* other holds whenever one of them runs.
ServiceInv == TypeOK /\ CallInv

\* No end rings, connects or sends its candidates before the answer of that very call was
\* exchanged, although ICE, the answer and what the data channel says overtake each other.
AnswerComesFirst == RingsOnlyAfterAnswer /\ IceHeldUntilAnswer

\* Sound and pictures are recorded and sent only as the user's switches, the state of the
\* call and the foreground allow, each of which another actor changes.
MediaFollowsCall == TracksObeyUser /\ NoRecordingBeforeConnected

\* A call that has ended, or was answered busy, stays as it is: no late promise,
\* timer, message or user action changes its state.
EndedStaysEnded ==
    [][\A c \in Calls : state[c] \in Ended /\ call # c => state'[c] = state[c]]_vars

\* The blocks of an incoming call's chain check that their call is current: run
\* for an obsolete call they disturb neither the current call nor its client.
ObsoleteIncomingIsSilent ==
    [][\A c \in Calls : direction[c] = "incoming" /\ call # c
                          /\ ChainStep(c) /\ step'[c] # step[c]
                          => UNCHANGED <<serviceVars, mediaVars, state>>]_vars

\* The platform answers every request of a chain, if only with an error, runs the
\* handler blocks it queued on the main thread, and its timers fire.
ChainProgress(c) ==
    \/ GotIceServers(c) \/ Negotiated(c) \/ NegotiationFailed(c)
    \/ OfferCreated(c) \/ SendOffer(c) \/ SendAnswer(c)
    \/ MessageSent(c) \/ SendingFailed(c)
    \/ ConnectingTimedOut(c) \/ ChainFailed(c)

ChainFairness == \A c \in Calls : WF_vars(ChainProgress(c))

\* "Don't let the outgoing call ring forever": a call that is being placed or
\* answered, at either end, connects or is over some time.
NoCallRingsForever ==
    \A c \in Calls : (call = c /\ state[c] \in Ringing) ~> ~(call = c /\ state[c] \in Ringing)
-----------------------------------------------------------------------------
(***************************************************************************)
(* What a comment of the code says and the code does not keep: TLC finds   *)
(* it violated.                                                            *)
(***************************************************************************)
\* A call that is over while another one has become current.
IsOld(c) == state[c] \in Ended /\ call \notin {None, c}

\* "We don't want to fail the current call because an old call was slow to send
\* us the hangup message."
OldHangupIgnored ==
    [][\A c \in Calls : ReceivedHangup(c) /\ IsOld(c) => call' = call]_vars
=============================================================================
