-------------------------- MODULE NonCallKitProofs --------------------------
(***************************************************************************)
(* The safety properties of the call service under the non-CallKit         *)
(* adaptee, for any number of calls, contacts and records.                 *)
(***************************************************************************)
EXTENDS NonCallKitCalls, CallServiceProofs

LEMMA UserStepInv ==
    ASSUME IInv, NEW c \in Calls, UserStep(c)
    PROVE  IInv'
<1>1. CASE \E p \in Contacts : StartAndShowOutgoingCall(c, p)
  BY <1>1, HandleOutgoingCallInv DEF StartAndShowOutgoingCall
<1>2. CASE AnswerCall(c)
  <2>1. peerConnectionClient = None \/ audioSession' \in BOOLEAN
    BY <1>2 DEF AnswerCall
  <2> QED
    BY <1>2, <2>1, HandleAnswerCallInv DEF AnswerCall, IsCurrent
<1>3. CASE DeclineCall(c) \/ LocalHangupCall(c)
  BY <1>3, HandleLocalHungupCallInv DEF DeclineCall, LocalHangupCall
<1>4. CASE \E on \in BOOLEAN : PressMute(c, on) \/ PressVideo(c, on)
  BY <1>4, SetIsMutedInv, SetHasLocalVideoInv DEF PressMute, PressVideo
<1> QED
  BY <1>1, <1>2, <1>3, <1>4 DEF UserStep

LEMMA UserStepState ==
    ASSUME IInv, NEW c \in Calls, UserStep(c)
    PROVE  OnlyCurrentChanges
<1>1. CASE \E p \in Contacts : StartAndShowOutgoingCall(c, p)
  BY <1>1 DEF StartAndShowOutgoingCall, HandleOutgoingCall, OnlyCurrentChanges, IInv, TypeOK
<1>2. CASE AnswerCall(c)
  BY <1>2, HandlersState DEF AnswerCall, IsCurrent
<1>3. CASE DeclineCall(c) \/ LocalHangupCall(c)
  BY <1>3, HandlersState DEF DeclineCall, LocalHangupCall
<1>4. CASE \E on \in BOOLEAN : PressMute(c, on) \/ PressVideo(c, on)
  BY <1>4, HandlersState DEF PressMute, PressVideo
<1> QED
  BY <1>1, <1>2, <1>3, <1>4 DEF UserStep

LEMMA NextInv == IInv /\ [Next]_vars => IInv'
<1> SUFFICES ASSUME IInv, [Next]_vars PROVE IInv'
  OBVIOUS
<1>1. CASE ServiceNext
  BY <1>1, ServiceNextInv
<1>2. CASE \E c \in Calls : UserStep(c)
  BY <1>2, UserStepInv
<1>3. CASE UNCHANGED vars
  BY <1>3, SameFrame, FrameInv DEF vars, callVars, serviceVars, mediaVars
<1> QED
  BY <1>1, <1>2, <1>3 DEF Next

\* The inductive invariant holds in every reachable state.
THEOREM Invariance == Spec => []IInv
<1> HIDE DEF vars
<1> QED
  BY InitInv, NextInv, PTL DEF Spec

\* The fields of the service and of its calls keep their types, and what the other
\* theorems rest on: a client is described only after the answer was exchanged, and
\* without a client no track is enabled.
THEOREM TypeCorrect == Spec => []ServiceInv
BY Invariance, PTL DEF IInv, ServiceInv

\* Between calls nothing of the last call is left in the service, but for what
\* terminateCall does not touch: a client that an outgoing call's chain, not over yet,
\* installed when the call was, and a promise that was waited for after the message was
\* sent.  During a call the thread and the queued candidates are that call's.
THEOREM CleanBetweenCalls == Spec => []ReadyForNewCall
BY Invariance, PTL DEF IInv

\* No call is ever driven by another call's media connection.
THEOREM ClientIsOfCall == Spec => []ClientBelongsToCall
BY Invariance, PTL DEF IInv

\* Neither end rings, nor do a caller's candidates leave, before the answer of that call
\* was exchanged.
THEOREM NothingBeforeAnswer == Spec => []AnswerComesFirst
BY Invariance, PTL DEF IInv, AnswerComesFirst

\* The call history says what became of each call.
THEOREM HistoryIsTrue == Spec => []RecordTellsOutcome
BY Invariance, PTL DEF IInv

\* Audio and video are sent only as the user and the call's state allow, and nothing is
\* recorded before the call has connected.
THEOREM MediaObeysUser == Spec => []MediaFollowsCall
BY Invariance, PTL DEF IInv, MediaFollowsCall

\* No late promise, timer, message or user action changes a call that is over.
THEOREM OverIsOver == Spec => EndedStaysEnded
<1>1. IInv /\ Next => OnlyCurrentChanges
  <2> SUFFICES ASSUME IInv, Next PROVE OnlyCurrentChanges
    OBVIOUS
  <2>1. CASE ServiceNext
    BY <2>1, ServiceNextState
  <2>2. CASE \E c \in Calls : UserStep(c)
    BY <2>2, UserStepState
  <2> QED
    BY <2>1, <2>2 DEF Next
<1>2. IInv /\ [Next]_vars =>
        [\A c \in Calls : state[c] \in Ended /\ call # c => state'[c] = state[c]]_vars
  BY <1>1 DEF OnlyCurrentChanges, IInv, TypeOK, Ended
<1> HIDE DEF vars
<1> QED
  BY <1>2, Invariance, PTL DEF Spec, EndedStaysEnded

\* The chain of an incoming call that is no longer current has no effect.
THEOREM ObsoleteChainsAreSilent == Spec => ObsoleteIncomingIsSilent
<1>1. ASSUME NEW c \in Calls, direction[c] = "incoming", call # c, ChainStep(c)
      PROVE  UNCHANGED <<serviceVars, mediaVars, state>>
  BY <1>1 DEF ChainStep, GotIceServers, Negotiated, NegotiationFailed, OfferCreated, SendOffer,
     SendAnswer, MessageSent, SendingFailed, ConnectingTimedOut, ChainFailed,
     BackgroundTaskExpired, Obsolete, OnlyAdvance, callVars, serviceVars, mediaVars
<1>2. [Next]_vars =>
        [\A c \in Calls : direction[c] = "incoming" /\ call # c
                           /\ ChainStep(c) /\ step'[c] # step[c]
                           => UNCHANGED <<serviceVars, mediaVars, state>>]_vars
  BY <1>1
<1> HIDE DEF vars
<1> QED
  BY <1>2, PTL DEF Spec, ObsoleteIncomingIsSilent
=============================================================================
