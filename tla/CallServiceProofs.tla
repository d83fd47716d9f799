-------------------------- MODULE CallServiceProofs --------------------------
(***************************************************************************)
(* Proofs about the handlers, callbacks and promise continuations of the   *)
(* call service, whatever user interface drives it.                        *)
(***************************************************************************)
EXTENDS CallService, TLAPS

\* The inductive invariant of the call service.
IInv ==
    /\ TypeOK
    /\ CallInv
    /\ ReadyForNewCall
    /\ ClientBelongsToCall
    /\ RingsOnlyAfterAnswer
    /\ RecordTellsOutcome
    /\ IceHeldUntilAnswer
    /\ TracksObeyUser
    /\ NoRecordingBeforeConnected

USE DEF vars, callVars, serviceVars, mediaVars

LEMMA InitInv == Init => IInv
<1> SUFFICES ASSUME Init PROVE IInv
  OBVIOUS
<1> USE NoneAssumption DEF Init
<1>1. TypeOK
  BY DEF TypeOK, CallState, Ringing, Ended, Records, Steps, ClientStates
<1>2. CallInv
  BY DEF CallInv
<1>3. ReadyForNewCall /\ ClientBelongsToCall /\ IceHeldUntilAnswer
  BY DEF ReadyForNewCall, ClientBelongsToCall, IceHeldUntilAnswer
<1>4. RingsOnlyAfterAnswer /\ RecordTellsOutcome
  BY DEF RingsOnlyAfterAnswer, RecordTellsOutcome, Ringing
<1>5. TracksObeyUser /\ NoRecordingBeforeConnected
  BY DEF TracksObeyUser, NoRecordingBeforeConnected
<1> QED
  BY <1>1, <1>2, <1>3, <1>4, <1>5 DEF IInv

\* Where a chain is whose message was sent
AfterSending == {"waiting", "timedOut", "over"}

\* What a handler may do to the chains and to the messages without further notice:
\* calls that do not exist stay out of it, a chain that has sent its message goes
\* not back, and candidates still follow the answer.
LegalFrame ==
    /\ step' \in [Calls -> Steps]
    /\ exchanged' \subseteq MessageTypes \X Calls
    /\ exchanged \subseteq exchanged'
    /\ \A c \in Calls :
         /\ state[c] = "unborn" =>
              /\ step'[c] = "none"
              /\ \A type \in MessageTypes : <<type, c>> \notin exchanged'
         /\ step[c] \in AfterSending => step'[c] \in AfterSending
         /\ direction[c] = "outgoing" /\ <<"ice", c>> \in exchanged' =>
              <<"answer", c>> \in exchanged'

\* ... and what it may not do between calls to the chain of a client left behind.
ClientChainRuns ==
    call = None =>
      \A d \in Calls : d = peerConnectionClient => step'[d] \notin {"none", "iceServers", "over"}

LEMMA SameFrame ==
    ASSUME IInv, UNCHANGED <<step, exchanged>>
    PROVE  LegalFrame /\ ClientChainRuns
BY DEF LegalFrame, ClientChainRuns, IInv, TypeOK, CallInv, ReadyForNewCall, IceHeldUntilAnswer,
       Answered

LEMMA AdvanceFrame ==
    ASSUME IInv, UNCHANGED exchanged, NEW c \in Calls, step[c] # "none",
           NEW to \in Steps, Advance(c, to), step[c] \in AfterSending => to \in AfterSending
    PROVE  LegalFrame
BY DEF LegalFrame, Advance, IInv, TypeOK, CallInv, IceHeldUntilAnswer, Answered

\* A chain that is not over yet after a step
LEMMA AdvanceRuns ==
    ASSUME IInv, NEW c \in Calls, NEW to \in Steps \ {"none", "iceServers", "over"},
           Advance(c, to)
    PROVE  ClientChainRuns
BY DEF ClientChainRuns, Advance, IInv, TypeOK, ReadyForNewCall

LEMMA MessageFrame ==
    ASSUME IInv, NEW c \in Calls, state[c] # "unborn", NEW type \in MessageTypes \ {"ice"},
           exchanged' = exchanged \cup {<<type, c>>},
           \/ UNCHANGED step
           \/ step[c] \notin AfterSending \cup {"none"} /\ \E to \in Steps : Advance(c, to)
    PROVE  LegalFrame
<1>1. /\ step' \in [Calls -> Steps]
      /\ \A d \in Calls : state[d] = "unborn" => step'[d] = "none"
  BY DEF Advance, IInv, TypeOK
<1>5. \A d \in Calls : step[d] \in AfterSending => step'[d] \in AfterSending
  BY DEF Advance, IInv, TypeOK
<1>2. exchanged' \subseteq MessageTypes \X Calls /\ exchanged \subseteq exchanged'
  BY DEF IInv, TypeOK
<1>3. \A d \in Calls, t \in MessageTypes :
         state[d] = "unborn" => <<t, d>> \notin exchanged'
  BY DEF IInv, CallInv
<1>4. \A d \in Calls : direction[d] = "outgoing" /\ <<"ice", d>> \in exchanged' =>
         <<"answer", d>> \in exchanged'
  BY DEF IInv, IceHeldUntilAnswer, Answered
<1> QED
  BY <1>1, <1>2, <1>3, <1>4, <1>5 DEF LegalFrame

\* A handler that touches nothing but chains and messages.
LEMMA FrameInv ==
    ASSUME IInv, LegalFrame, ClientChainRuns,
           UNCHANGED <<callVars, serviceVars, mediaVars, client, foreground>>
    PROVE  IInv'
<1> USE DEF LegalFrame
<1>1. TypeOK'
  <2>1. \A c \in Calls : state[c] = "unborn" => step'[c] = "none" /\ callRecord[c] = "none"
    BY DEF IInv, TypeOK
  <2> QED
    BY <2>1 DEF IInv, TypeOK
<1>2. CallInv' /\ RingsOnlyAfterAnswer'
  BY DEF IInv, CallInv, RingsOnlyAfterAnswer, Answered
<1>3. ReadyForNewCall' /\ ClientBelongsToCall'
  BY DEF IInv, ReadyForNewCall, ClientBelongsToCall, ClientChainRuns, AfterSending
<1>4. RecordTellsOutcome' /\ IceHeldUntilAnswer'
  BY DEF IInv, RecordTellsOutcome, IceHeldUntilAnswer, Answered
<1>5. TracksObeyUser' /\ NoRecordingBeforeConnected'
  BY DEF IInv, TracksObeyUser, NoRecordingBeforeConnected, ShouldHaveLocalVideoTrack
<1> QED
  BY <1>1, <1>2, <1>3, <1>4, <1>5 DEF IInv

\* Every way out of a call goes through terminateCall.
LEMMA TerminateInv ==
    ASSUME IInv, LegalFrame, TerminateCall,
           NEW ended \in Ended \ {"remoteHangup"},
           state' = IF call = None THEN state ELSE [state EXCEPT ![call] = ended],
           UNCHANGED <<direction, contact, callRecord, savedRecords,
                       fulfillCallConnectedPromise, foreground>>
    PROVE  IInv'
<1> USE NoneAssumption DEF LegalFrame, TerminateCall, CloseClient, StopAudioSession,
                           ResetIceUpdates, Ringing, Ended
<1>1. TypeOK'
  <2>1. /\ state' \in [Calls -> CallState \cup {"unborn"}]
        /\ \A c \in Calls : state'[c] = "unborn" <=> state[c] = "unborn"
    BY DEF IInv, TypeOK, CallInv, CallState
  <2>2. client' \in [Calls -> ClientStates]
    BY DEF IInv, TypeOK, ClientStates
  <2> QED
    BY <2>1, <2>2 DEF IInv, TypeOK
<1>2. CallInv'
  BY DEF IInv, TypeOK, CallInv, Answered
<1>3. ReadyForNewCall' /\ ClientBelongsToCall'
  BY DEF IInv, ReadyForNewCall, ClientBelongsToCall, AfterSending
<1>4. RingsOnlyAfterAnswer'
  BY DEF IInv, TypeOK, RingsOnlyAfterAnswer, Answered
<1>5. RecordTellsOutcome'
  BY DEF IInv, TypeOK, RecordTellsOutcome
<1>6. IceHeldUntilAnswer'
  BY DEF IInv, IceHeldUntilAnswer, Answered
<1>7. TracksObeyUser' /\ NoRecordingBeforeConnected'
  BY DEF TracksObeyUser, NoRecordingBeforeConnected
<1> QED
  BY <1>1, <1>2, <1>3, <1>4, <1>5, <1>6, <1>7 DEF IInv

LEMMA FailedCallInv ==
    ASSUME IInv, LegalFrame, HandleFailedCall
    PROVE  IInv'
<1>1. "localFailure" \in Ended \ {"remoteHangup"}
  BY DEF Ended
<1> QED
  BY <1>1, TerminateInv DEF HandleFailedCall

-----------------------------------------------------------------------------
(***************************************************************************)
(* Promise chains.                                                         *)
(***************************************************************************)
LEMMA OnlyAdvanceInv ==
    ASSUME IInv, NEW c \in Calls, NEW to, OnlyAdvance(c, to),
           \/ to = "failed" /\ step[c] \notin AfterSending \cup {"none"}
           \/ to = "timedOut" /\ step[c] = "waiting"
    PROVE  IInv'
<1>1. to \in Steps \ {"none", "iceServers", "over"} /\ step[c] # "none"
  BY DEF Steps, AfterSending
<1>2. LegalFrame
  BY <1>1, AdvanceFrame DEF OnlyAdvance, AfterSending
<1>3. ClientChainRuns
  BY <1>1, AdvanceRuns DEF OnlyAdvance
<1> QED
  BY <1>2, <1>3, FrameInv DEF OnlyAdvance

LEMMA GotIceServersInv ==
    ASSUME IInv, NEW c \in Calls, GotIceServers(c)
    PROVE  IInv'
<1> USE DEF GotIceServers
<1>1. CASE Obsolete(c)
  BY <1>1, OnlyAdvanceInv DEF AfterSending
<1>2. CASE ~Obsolete(c)
  <2> USE <1>2, NoneAssumption DEF InstallClient
  <2>1. LegalFrame
    BY AdvanceFrame DEF Steps, AfterSending
  <2>2. client' \in [Calls -> ClientStates]
    BY DEF IInv, TypeOK, ClientStates, OpenClient
  <2>3. TypeOK'
    BY <2>1, <2>2 DEF LegalFrame, IInv, TypeOK
  <2>4. CallInv'
    BY DEF IInv, TypeOK, CallInv, Answered
  <2>5. ReadyForNewCall' /\ ClientBelongsToCall'
    <3>1. call = None => direction[c] = "outgoing"
      BY DEF Obsolete, IInv, TypeOK
    <3>2. step' \in [Calls -> Steps] /\ step'[c] = "negotiating"
      BY DEF Advance, IInv, TypeOK, Steps
    <3>3. \A d \in Calls : step[d] \in AfterSending => step'[d] \in AfterSending
      BY <2>1 DEF LegalFrame
    <3> QED
      BY <3>1, <3>2, <3>3
         DEF IInv, TypeOK, ReadyForNewCall, ClientBelongsToCall, OpenClient, AfterSending
  <2>6. RingsOnlyAfterAnswer' /\ RecordTellsOutcome' /\ IceHeldUntilAnswer'
    BY DEF IInv, RingsOnlyAfterAnswer, RecordTellsOutcome, IceHeldUntilAnswer, Answered
  <2>7. TracksObeyUser' /\ NoRecordingBeforeConnected'
    BY DEF IInv, TracksObeyUser, NoRecordingBeforeConnected
  <2> QED
    BY <2>3, <2>4, <2>5, <2>6, <2>7 DEF IInv
<1> QED
  BY <1>1, <1>2

\* A step of a chain that gives its client a description.
LEMMA DescribedInv ==
    ASSUME IInv, LegalFrame, ClientChainRuns, NEW c \in Calls,
           NEW life \in {"local", "described"},
           life = "described" => call = c /\ <<"answer", c>> \in exchanged',
           client[c] \in {"new", "local"},
           client' = [client EXCEPT ![c] = life],
           UNCHANGED <<callVars, serviceVars, mediaVars, foreground>>
    PROVE  IInv'
<1> USE NoneAssumption DEF LegalFrame
<1>1. TypeOK'
  <2>1. client' \in [Calls -> ClientStates]
    BY DEF IInv, TypeOK, ClientStates, OpenClient
  <2>2. \A d \in Calls : state[d] = "unborn" => step'[d] = "none" /\ callRecord[d] = "none"
    BY DEF IInv, TypeOK
  <2> QED
    BY <2>1, <2>2 DEF IInv, TypeOK
<1>2. CallInv' /\ RingsOnlyAfterAnswer'
  BY DEF IInv, TypeOK, CallInv, RingsOnlyAfterAnswer, Answered
<1>3. ReadyForNewCall' /\ ClientBelongsToCall'
  <2>1. /\ client'[c] = life
        /\ \A d \in Calls \ {c} : client'[d] = client[d]
        /\ call = None => life = "local"
    BY DEF IInv, TypeOK
  <2>2. ReadyForNewCall'
    BY <2>1 DEF IInv, ReadyForNewCall, ClientChainRuns, AfterSending
  <2>3. ClientBelongsToCall'
    BY <2>1 DEF IInv, TypeOK, ClientBelongsToCall, OpenClient
  <2> QED
    BY <2>2, <2>3
<1>4. RecordTellsOutcome' /\ IceHeldUntilAnswer'
  BY DEF IInv, RecordTellsOutcome, IceHeldUntilAnswer, Answered
<1>5. TracksObeyUser' /\ NoRecordingBeforeConnected'
  BY DEF IInv, TracksObeyUser, NoRecordingBeforeConnected, ShouldHaveLocalVideoTrack
<1> QED
  BY <1>1, <1>2, <1>3, <1>4, <1>5 DEF IInv

LEMMA NegotiatedInv ==
    ASSUME IInv, NEW c \in Calls, Negotiated(c)
    PROVE  IInv'
<1> USE DEF Negotiated
<1>1. LegalFrame /\ ClientChainRuns
  BY AdvanceFrame, AdvanceRuns DEF Steps, AfterSending
<1>2. CASE direction[c] = "incoming" /\ client[c] = "new"
  BY <1>1, <1>2, DescribedInv DEF IInv, TypeOK
<1>3. CASE ~(direction[c] = "incoming" /\ client[c] = "new")
  <2>1. client' = client
    BY <1>3 DEF IInv, TypeOK
  <2> QED
    BY <1>1, <2>1, FrameInv
<1> QED
  BY <1>2, <1>3

\* The app ends: the calls are gone, their records stay.
LEMMA AppCrashesInv ==
    ASSUME IInv, AppCrashes
    PROVE  IInv'
<1> USE NoneAssumption DEF AppCrashes, TerminateCall, CloseClient, StopAudioSession,
                           ResetIceUpdates
<1>1. TypeOK'
  <2>1. /\ step' \in [Calls -> Steps]
        /\ \A c \in Calls : state[c] = "unborn" => step'[c] = "none" /\ callRecord[c] = "none"
    BY DEF IInv, TypeOK, Steps
  <2>2. client' \in [Calls -> ClientStates]
    BY DEF IInv, TypeOK, ClientStates
  <2> QED
    BY <2>1, <2>2 DEF IInv, TypeOK
<1>2. CallInv'
  BY DEF IInv, TypeOK, CallInv, Answered
<1>3. ReadyForNewCall' /\ ClientBelongsToCall' /\ RingsOnlyAfterAnswer'
  BY DEF IInv, TypeOK, ReadyForNewCall, ClientBelongsToCall, RingsOnlyAfterAnswer, Answered
<1>4. RecordTellsOutcome' /\ IceHeldUntilAnswer'
  BY DEF IInv, RecordTellsOutcome, IceHeldUntilAnswer, Answered
<1>5. TracksObeyUser' /\ NoRecordingBeforeConnected'
  BY DEF TracksObeyUser, NoRecordingBeforeConnected
<1> QED
  BY <1>1, <1>2, <1>3, <1>4, <1>5 DEF IInv

LEMMA OfferCreatedInv ==
    ASSUME IInv, NEW c \in Calls, OfferCreated(c)
    PROVE  IInv'
<1> USE DEF OfferCreated
<1>1. CASE peerConnectionClient = None
  BY <1>1, AppCrashesInv
<1>2. CASE peerConnectionClient # None
  <2>1. LegalFrame /\ ClientChainRuns
    BY <1>2, AdvanceFrame, AdvanceRuns DEF Steps, AfterSending
  <2>2. CASE peerConnectionClient = c /\ client[c] = "new"
    BY <1>2, <2>1, <2>2, DescribedInv DEF IInv, TypeOK
  <2>3. CASE ~(peerConnectionClient = c /\ client[c] = "new")
    <3>1. client' = client
      BY <1>2, <2>3 DEF IInv, TypeOK
    <3> QED
      BY <1>2, <2>1, <3>1, FrameInv
  <2> QED
    BY <2>2, <2>3
<1> QED
  BY <1>1, <1>2

LEMMA SendOfferInv ==
    ASSUME IInv, NEW c \in Calls, SendOffer(c)
    PROVE  IInv'
<1>1. state[c] # "unborn"
  BY DEF SendOffer, IInv, TypeOK
<1>2. LegalFrame /\ ClientChainRuns
  BY <1>1, MessageFrame, AdvanceRuns DEF SendOffer, Steps, MessageTypes, AfterSending
<1> QED
  BY <1>2, FrameInv DEF SendOffer

LEMMA SendAnswerInv ==
    ASSUME IInv, NEW c \in Calls, SendAnswer(c)
    PROVE  IInv'
<1> USE DEF SendAnswer
<1>1. CASE Obsolete(c)
  BY <1>1, OnlyAdvanceInv DEF AfterSending
<1>2. CASE ~Obsolete(c)
  <2>0. state[c] # "unborn"
    BY DEF IInv, TypeOK
  <2>1. LegalFrame /\ ClientChainRuns
    BY <1>2, <2>0, MessageFrame, AdvanceRuns DEF Steps, MessageTypes, AfterSending
  <2>2. call = c /\ <<"answer", c>> \in exchanged'
    BY <1>2 DEF Obsolete
  <2>3. CASE client[c] = "local"
    BY <1>2, <2>1, <2>2, <2>3, DescribedInv DEF IInv, TypeOK
  <2>4. CASE client[c] # "local"
    <3>1. client' = client
      BY <1>2, <2>4 DEF IInv, TypeOK
    <3> QED
      BY <1>2, <2>1, <3>1, FrameInv
  <2> QED
    BY <2>3, <2>4
<1> QED
  BY <1>1, <1>2

LEMMA MessageSentInv ==
    ASSUME IInv, NEW c \in Calls, MessageSent(c)
    PROVE  IInv'
<1> USE DEF MessageSent
<1>1. CASE Obsolete(c)
  BY <1>1, OnlyAdvanceInv DEF AfterSending
<1>2. CASE ~Obsolete(c)
  <2> USE <1>2
  <2>1. LegalFrame /\ ClientChainRuns
    BY AdvanceFrame, AdvanceRuns DEF Steps, AfterSending
  <2>2. TypeOK'
    BY <2>1 DEF LegalFrame, IInv, TypeOK
  <2>3. CallInv' /\ RingsOnlyAfterAnswer'
    BY DEF IInv, CallInv, RingsOnlyAfterAnswer, Answered
  <2>4. ReadyForNewCall' /\ ClientBelongsToCall'
    <3>1. step'[c] = "waiting"
      BY DEF Advance, IInv, TypeOK
    <3> QED
      BY <2>1, <3>1 DEF IInv, ReadyForNewCall, ClientBelongsToCall, LegalFrame, ClientChainRuns,
                        AfterSending
  <2>5. RecordTellsOutcome' /\ IceHeldUntilAnswer'
    BY DEF IInv, RecordTellsOutcome, IceHeldUntilAnswer, Answered
  <2>6. TracksObeyUser' /\ NoRecordingBeforeConnected'
    BY DEF IInv, TracksObeyUser, NoRecordingBeforeConnected, ShouldHaveLocalVideoTrack
  <2> QED
    BY <2>2, <2>3, <2>4, <2>5, <2>6 DEF IInv
<1> QED
  BY <1>1, <1>2

LEMMA ChainFailedInv ==
    ASSUME IInv, NEW c \in Calls, ChainFailed(c)
    PROVE  IInv'
<1>1. LegalFrame
  BY AdvanceFrame DEF ChainFailed, Steps, AfterSending
<1>2. call # None \/ Obsolete(c) => ClientChainRuns
  BY DEF ChainFailed, Advance, Obsolete, ClientChainRuns, IInv, TypeOK, ReadyForNewCall
<1> QED
  BY <1>1, <1>2, FrameInv, FailedCallInv DEF ChainFailed, HandleTimeout

LEMMA ChainStepInv ==
    ASSUME IInv, NEW c \in Calls, ChainStep(c)
    PROVE  IInv'
<1>1. CASE GotIceServers(c) \/ Negotiated(c) \/ OfferCreated(c)
  BY <1>1, GotIceServersInv, NegotiatedInv, OfferCreatedInv
<1>2. CASE SendOffer(c) \/ SendAnswer(c) \/ MessageSent(c)
  BY <1>2, SendOfferInv, SendAnswerInv, MessageSentInv
<1>3. CASE NegotiationFailed(c) \/ SendingFailed(c) \/ ConnectingTimedOut(c)
  BY <1>3, OnlyAdvanceInv
     DEF NegotiationFailed, SendingFailed, ConnectingTimedOut, AfterSending
<1>4. CASE ChainFailed(c)
  BY <1>4, ChainFailedInv
<1>5. CASE BackgroundTaskExpired(c)
  BY <1>5, SameFrame, FailedCallInv DEF BackgroundTaskExpired
<1> QED
  BY <1>1, <1>2, <1>3, <1>4, <1>5 DEF ChainStep
-----------------------------------------------------------------------------
(***************************************************************************)
(* Messages of the other party.                                            *)
(***************************************************************************)
LEMMA HandleReceivedOfferInv ==
    ASSUME IInv, NEW c \in Calls, NEW p \in Contacts, HandleReceivedOffer(c, p)
    PROVE  IInv'
<1> USE NoneAssumption DEF HandleReceivedOffer
<1>1. CASE HandleLocalBusyCall(c)
  <2> USE <1>1 DEF HandleLocalBusyCall, HandleMissedCall
  <2>1. callRecord[c] = "none" /\ savedRecords[c] = 0 /\ step[c] = "none" /\ call # c
    BY DEF IInv, TypeOK, CallInv, Ringing
  <2>2. TypeOK'
    BY <2>1 DEF IInv, TypeOK, CallState, Ringing, Records, MessageTypes
  <2>3. CallInv'
    BY <2>1 DEF IInv, TypeOK, CallInv, Answered, Ringing
  <2>4. ReadyForNewCall' /\ ClientBelongsToCall'
    BY <2>1 DEF IInv, TypeOK, ReadyForNewCall, ClientBelongsToCall
  <2>5. RingsOnlyAfterAnswer' /\ RecordTellsOutcome'
    BY <2>1 DEF IInv, TypeOK, RingsOnlyAfterAnswer, RecordTellsOutcome, Answered
  <2>6. IceHeldUntilAnswer'
    BY DEF IInv, TypeOK, IceHeldUntilAnswer, Answered
  <2>7. TracksObeyUser' /\ NoRecordingBeforeConnected'
    BY <2>1 DEF IInv, TypeOK, TracksObeyUser, NoRecordingBeforeConnected, ShouldHaveLocalVideoTrack
  <2> QED
    BY <2>2, <2>3, <2>4, <2>5, <2>6, <2>7 DEF IInv
<1>2. CASE call = None /\ BecomesCurrent(c, p) /\ step' = [step EXCEPT ![c] = "iceServers"]
           /\ UNCHANGED <<sendIceUpdatesImmediately, pendingIceUpdateMessages,
                          callRecord, savedRecords, exchanged>>
  <2> USE <1>2 DEF BecomesCurrent
  <2>1. TypeOK'
    BY DEF IInv, TypeOK, CallState, Ringing, Steps
  <2>2. CallInv'
    BY DEF IInv, TypeOK, CallInv, Answered, Ringing
  <2>3. ReadyForNewCall' /\ ClientBelongsToCall'
    BY DEF IInv, TypeOK, ReadyForNewCall, ClientBelongsToCall
  <2>4. RingsOnlyAfterAnswer' /\ RecordTellsOutcome'
    BY DEF IInv, TypeOK, RingsOnlyAfterAnswer, RecordTellsOutcome, Answered
  <2>5. IceHeldUntilAnswer'
    BY DEF IInv, TypeOK, IceHeldUntilAnswer, Answered
  <2>6. TracksObeyUser' /\ NoRecordingBeforeConnected'
    BY DEF IInv, ReadyForNewCall, TracksObeyUser, NoRecordingBeforeConnected
  <2> QED
    BY <2>1, <2>2, <2>3, <2>4, <2>5, <2>6 DEF IInv
<1> QED
  BY <1>1, <1>2

LEMMA HandleReceivedAnswerInv ==
    ASSUME IInv, NEW c \in Calls, HandleReceivedAnswer(c)
    PROVE  IInv'
<1> USE NoneAssumption DEF HandleReceivedAnswer
<1>1. state[c] # "unborn"
  BY DEF Offered, IInv, CallInv, MessageTypes
<1>2. LegalFrame
  <2>1. exchanged' \subseteq MessageTypes \X Calls /\ exchanged \subseteq exchanged'
    BY DEF IInv, TypeOK, MessageTypes
  <2>2. \A d \in Calls, type \in MessageTypes :
           state[d] = "unborn" => <<type, d>> \notin exchanged'
    BY <1>1 DEF IInv, CallInv
  <2>3. \A d \in Calls : direction[d] = "outgoing" /\ <<"ice", d>> \in exchanged' =>
           <<"answer", d>> \in exchanged'
    BY DEF IInv, IceHeldUntilAnswer, Answered
  <2> QED
    BY <2>1, <2>2, <2>3 DEF LegalFrame, IInv, TypeOK
<1>3. CASE ~(call = c /\ peerConnectionClient # None)
  BY <1>2, <1>3, FailedCallInv
<1>4. CASE call = c /\ peerConnectionClient # None
  <2> USE <1>4 DEF LegalFrame
  <2>1. TypeOK'
    <3>1. client' \in [Calls -> ClientStates]
      BY DEF IInv, TypeOK, ClientStates, OpenClient
    <3> QED
      BY <1>2, <3>1 DEF IInv, TypeOK
  <2>2. CallInv'
    <3>1. \A d \in Calls : client'[d] \in {"described", "connected"} => Answered(d)'
      BY <1>2 DEF IInv, TypeOK, CallInv, Answered
    <3> QED
      BY <1>2, <3>1 DEF IInv, CallInv, Answered
  <2>3. ReadyForNewCall' /\ ClientBelongsToCall'
    BY DEF IInv, TypeOK, ReadyForNewCall, ClientBelongsToCall, OpenClient
  <2>4. RingsOnlyAfterAnswer' /\ RecordTellsOutcome' /\ IceHeldUntilAnswer'
    BY <1>2 DEF IInv, RingsOnlyAfterAnswer, RecordTellsOutcome, IceHeldUntilAnswer, Answered
  <2>5. TracksObeyUser' /\ NoRecordingBeforeConnected'
    BY DEF IInv, TracksObeyUser, NoRecordingBeforeConnected, ShouldHaveLocalVideoTrack
  <2> QED
    BY <2>1, <2>2, <2>3, <2>4, <2>5 DEF IInv
<1> QED
  BY <1>3, <1>4

LEMMA HandleRemoteHangupInv ==
    ASSUME IInv, HandleRemoteHangup
    PROVE  IInv'
<1> USE NoneAssumption DEF HandleRemoteHangup
<1>1. CASE call = None
  BY <1>1, SameFrame, FailedCallInv
<1>2. CASE call # None
  <2> USE <1>2 DEF HandleMissedCall, TerminateCall, CloseClient, StopAudioSession,
                   ResetIceUpdates, Ringing
  <2>1. /\ call \in Calls /\ direction[call] \in {"outgoing", "incoming"}
        /\ callRecord[call] = "none" => direction[call] = "incoming"
        /\ callRecord[call] = "incoming" => direction[call] = "incoming"
    BY DEF IInv, TypeOK, CallInv, RecordTellsOutcome
  <2>2. /\ \A c \in Calls \ {call} :
             callRecord'[c] = callRecord[c] /\ savedRecords'[c] = savedRecords[c]
        /\ \/ callRecord'[call] = callRecord[call] /\ savedRecords'[call] = savedRecords[call]
           \/ /\ callRecord'[call] = "missed"
              /\ callRecord[call] \in {"none", "incoming"}
              /\ savedRecords'[call] = IF callRecord[call] = "none"
                                         THEN savedRecords[call] + 1 ELSE savedRecords[call]
        /\ callRecord' \in [Calls -> Records]
        /\ savedRecords' \in [Calls -> Nat]
    BY <2>1 DEF IInv, TypeOK, Records
  <2>3. /\ callRecord'[call] # "none" /\ savedRecords'[call] # 0
    BY <2>1, <2>2 DEF IInv, TypeOK, CallInv, RecordTellsOutcome
  <2>4. TypeOK'
    <3>1. client' \in [Calls -> ClientStates]
      BY DEF IInv, TypeOK, ClientStates
    <3>2. /\ state' \in [Calls -> CallState \cup {"unborn"}]
          /\ \A c \in Calls : state'[c] = "unborn" <=> state[c] = "unborn"
      BY <2>1 DEF IInv, TypeOK, CallInv, CallState, Ended
    <3>3. \A c \in Calls : callRecord'[c] = "none" <=> savedRecords'[c] = 0
      BY <2>2, <2>3 DEF IInv, TypeOK
    <3>4. \A c \in Calls : state'[c] = "unborn" => step'[c] = "none" /\ callRecord'[c] = "none"
      BY <2>1, <2>2, <3>2 DEF IInv, TypeOK
    <3>5. \A c \in Calls : /\ state'[c] = "unborn" <=> direction'[c] = "none"
                           /\ state'[c] = "unborn" <=> contact'[c] = None
      BY <3>2 DEF IInv, TypeOK
    <3> QED
      BY <2>2, <3>1, <3>2, <3>3, <3>4, <3>5 DEF IInv, TypeOK
  <2>5. CallInv'
    BY <2>1, <2>2 DEF IInv, TypeOK, CallInv, Answered
  <2>6. ReadyForNewCall' /\ ClientBelongsToCall'
    BY DEF IInv, ReadyForNewCall, ClientBelongsToCall
  <2>7. RingsOnlyAfterAnswer'
    BY <2>1 DEF IInv, TypeOK, RingsOnlyAfterAnswer, Answered
  <2>8. RecordTellsOutcome'
    BY <2>1, <2>2, <2>3 DEF IInv, TypeOK, RecordTellsOutcome
  <2>9. IceHeldUntilAnswer' /\ TracksObeyUser' /\ NoRecordingBeforeConnected'
    BY DEF IInv, IceHeldUntilAnswer, TracksObeyUser, NoRecordingBeforeConnected, Answered
  <2> QED
    BY <2>4, <2>5, <2>6, <2>7, <2>8, <2>9 DEF IInv
<1> QED
  BY <1>1, <1>2

LEMMA HandleRemoteBusyInv ==
    ASSUME IInv, NEW c \in Calls, HandleRemoteBusy(c)
    PROVE  IInv'
<1>1. LegalFrame
  BY SameFrame DEF HandleRemoteBusy
<1>2. "remoteBusy" \in Ended \ {"remoteHangup"}
  BY DEF Ended
<1> QED
  BY <1>1, <1>2, FailedCallInv, TerminateInv DEF HandleRemoteBusy

LEMMA ReceivedMessageInv ==
    ASSUME IInv, NEW c \in Calls, ReceivedMessage(c)
    PROVE  IInv'
<1>1. CASE \E p \in Contacts : HandleReceivedOffer(c, p)
  BY <1>1, HandleReceivedOfferInv
<1>2. CASE HandleReceivedAnswer(c)
  BY <1>2, HandleReceivedAnswerInv
<1>3. CASE HandleRemoteAddedIceCandidate(c)
  BY <1>3, SameFrame, FrameInv, FailedCallInv DEF HandleRemoteAddedIceCandidate
<1>4. CASE ReceivedHangup(c)
  BY <1>4, HandleRemoteHangupInv DEF ReceivedHangup
<1>5. CASE HandleRemoteBusy(c)
  BY <1>5, HandleRemoteBusyInv
<1> QED
  BY <1>1, <1>2, <1>3, <1>4, <1>5 DEF ReceivedMessage
-----------------------------------------------------------------------------
(***************************************************************************)
(* Callbacks of the peer connection.                                       *)
(***************************************************************************)
LEMMA PeerConnectionClientIceConnectedInv ==
    ASSUME IInv, PeerConnectionClientIceConnected
    PROVE  IInv'
<1> USE NoneAssumption DEF PeerConnectionClientIceConnected
<1>1. CASE call = None
  BY <1>1, SameFrame, FailedCallInv
<1>2. CASE call # None
  <2> USE <1>2 DEF UpdateIsVideoEnabled
  <2>1. call = peerConnectionClient /\ call \in Calls /\ Answered(call)
    BY DEF CallbackIn, IInv, TypeOK, CallInv, ClientBelongsToCall
  <2>2. /\ \A c \in Calls \ {call} : state'[c] = state[c]
        /\ \/ state'[call] = state[call]
           \/ state'[call] = "remoteRinging" /\ state[call] = "dialing"
           \/ state'[call] = "localRinging" /\ state[call] = "answering"
        /\ state' \in [Calls -> CallState \cup {"unborn"}]
    <3>1. state'[call] = CASE state[call] = "dialing" -> "remoteRinging"
                           [] state[call] = "answering" -> "localRinging"
                           [] OTHER -> state[call]
      BY <2>1 DEF IInv, TypeOK
    <3>2. \A c \in Calls \ {call} : state'[c] = state[c]
      BY <2>1 DEF IInv, TypeOK
    <3>3. DOMAIN state' = Calls /\ state' = [c \in Calls |-> state'[c]]
      BY DEF IInv, TypeOK
    <3>4. \A c \in Calls : state'[c] \in CallState \cup {"unborn"}
      BY <2>1, <3>1, <3>2 DEF IInv, TypeOK, CallState, Ringing
    <3>5. state' \in [Calls -> CallState \cup {"unborn"}]
      BY <3>3, <3>4
    <3>6. \/ state'[call] = state[call]
          \/ state'[call] = "remoteRinging" /\ state[call] = "dialing"
          \/ state'[call] = "localRinging" /\ state[call] = "answering"
      BY <3>1
    <3> QED
      BY <3>2, <3>5, <3>6
  <2>3. TypeOK'
    <3>1. client' \in [Calls -> ClientStates]
      BY DEF IInv, TypeOK, ClientStates, OpenClient
    <3>2. videoEnabled' \in BOOLEAN
      BY DEF IInv, TypeOK, ShouldHaveLocalVideoTrack
    <3>3. \A c \in Calls : state'[c] = "unborn" <=> state[c] = "unborn"
      BY <2>2
    <3> QED
      BY <2>2, <3>1, <3>2, <3>3 DEF IInv, TypeOK
  <2>4. CallInv'
    BY <2>1, <2>2 DEF IInv, TypeOK, CallInv, Answered, Ringing
  <2>5. ReadyForNewCall' /\ ClientBelongsToCall'
    BY <2>1 DEF IInv, TypeOK, ReadyForNewCall, ClientBelongsToCall, OpenClient
  <2>6. RingsOnlyAfterAnswer' /\ RecordTellsOutcome' /\ IceHeldUntilAnswer'
    BY <2>1, <2>2 DEF IInv, RingsOnlyAfterAnswer, RecordTellsOutcome, IceHeldUntilAnswer,
                      Answered, Ringing
  <2>7. TracksObeyUser' /\ NoRecordingBeforeConnected'
    BY <2>1, <2>2 DEF IInv, TracksObeyUser, NoRecordingBeforeConnected, ShouldHaveLocalVideoTrack
  <2> QED
    BY <2>3, <2>4, <2>5, <2>6, <2>7 DEF IInv
<1> QED
  BY <1>1, <1>2

LEMMA HandleLocalAddedIceCandidateInv ==
    ASSUME IInv, HandleLocalAddedIceCandidate
    PROVE  IInv'
<1> USE NoneAssumption DEF HandleLocalAddedIceCandidate
<1>1. CASE call = None
  BY <1>1, SameFrame, FailedCallInv
<1>2. CASE call # None
  <2> USE <1>2
  <2>1. call \in Calls /\ state[call] # "unborn"
    BY DEF IInv, TypeOK, CallInv, Ringing
  <2>2. LegalFrame
    <3>1. exchanged' \subseteq MessageTypes \X Calls /\ exchanged \subseteq exchanged'
      BY <2>1 DEF IInv, TypeOK, MessageTypes
    <3>2. \A d \in Calls, type \in MessageTypes :
             state[d] = "unborn" => <<type, d>> \notin exchanged'
      BY <2>1 DEF IInv, CallInv
    <3>3. \A d \in Calls : direction[d] = "outgoing" /\ <<"ice", d>> \in exchanged' =>
             <<"answer", d>> \in exchanged'
      BY <2>1 DEF IInv, CallInv, IceHeldUntilAnswer, Answered
    <3> QED
      BY <3>1, <3>2, <3>3 DEF LegalFrame, IInv, TypeOK
  <2>3. CASE sendIceUpdatesImmediately
    <3>1. ClientChainRuns
      BY DEF ClientChainRuns
    <3> QED
      BY <2>2, <2>3, <3>1, FrameInv
  <2>4. CASE ~sendIceUpdatesImmediately
    <3> USE <2>4
    <3>1. TypeOK'
      BY <2>1 DEF IInv, TypeOK
    <3>2. CallInv' /\ RingsOnlyAfterAnswer'
      BY DEF IInv, CallInv, RingsOnlyAfterAnswer, Answered
    <3>3. ReadyForNewCall' /\ ClientBelongsToCall'
      BY <2>1 DEF IInv, ReadyForNewCall, ClientBelongsToCall
    <3>4. RecordTellsOutcome' /\ IceHeldUntilAnswer'
      BY DEF IInv, RecordTellsOutcome, IceHeldUntilAnswer, Answered
    <3>5. TracksObeyUser' /\ NoRecordingBeforeConnected'
      BY DEF IInv, TracksObeyUser, NoRecordingBeforeConnected, ShouldHaveLocalVideoTrack
    <3> QED
      BY <3>1, <3>2, <3>3, <3>4, <3>5 DEF IInv
  <2> QED
    BY <2>3, <2>4 DEF IInv, TypeOK
<1> QED
  BY <1>1, <1>2

\* Connecting the current call, at the caller when the callee says so, at the
\* callee when the user answers.
LEMMA HandleConnectedCallInv ==
    ASSUME IInv, call # None, peerConnectionClient # None, Answered(call),
           audioSession' \in BOOLEAN,
           NEW records \in [Calls -> Records], HandleConnectedCall(records),
           \A c \in Calls \ {call} : records[c] = callRecord[c],
           \/ records[call] \in {"outgoingIncomplete", "outgoing"} /\ direction[call] = "outgoing"
           \/ records[call] = "incomingIncomplete" /\ direction[call] = "incoming",
           savedRecords' \in [Calls -> Nat],
           \A c \in Calls \ {call} : savedRecords'[c] = savedRecords[c],
           savedRecords'[call] # 0
    PROVE  IInv'
<1> USE NoneAssumption DEF HandleConnectedCall, UpdateIsVideoEnabled
<1>1. call \in Calls
  BY DEF IInv, TypeOK
<1>2. /\ state' \in [Calls -> CallState \cup {"unborn"}]
      /\ state'[call] = "connected"
      /\ \A c \in Calls \ {call} : state'[c] = state[c]
  BY <1>1 DEF IInv, TypeOK, CallState
<1>3. /\ callRecord' \in [Calls -> Records]
      /\ callRecord'[call] = direction[call]
      /\ \A c \in Calls \ {call} : callRecord'[c] = callRecord[c]
  BY <1>1 DEF UpdateCallRecordType, Records
<1>4. TypeOK'
  <2>1. /\ step' \in [Calls -> Steps]
        /\ \A c \in Calls : state[c] = "unborn" => step'[c] = "none"
    BY DEF FulfillCallConnectedPromise, IInv, TypeOK, Steps
  <2>2. state[call] # "unborn"
    BY DEF IInv, CallInv, Ringing
  <2>3. videoEnabled' \in BOOLEAN /\ audioEnabled' \in BOOLEAN
    BY DEF IInv, TypeOK, ShouldHaveLocalVideoTrack
  <2>4. \A c \in Calls : callRecord'[c] = "none" <=> savedRecords'[c] = 0
    BY <1>3 DEF IInv, TypeOK
  <2>5. \A c \in Calls : state'[c] = "unborn" <=> state[c] = "unborn"
    BY <1>2, <2>2
  <2>6. \A c \in Calls : state'[c] = "unborn" => step'[c] = "none" /\ callRecord'[c] = "none"
    BY <1>2, <1>3, <2>1 DEF IInv, TypeOK
  <2> QED
    BY <1>2, <1>3, <2>1, <2>3, <2>4, <2>5, <2>6 DEF IInv, TypeOK
<1>5. CallInv'
  BY <1>1, <1>2, <1>3 DEF IInv, TypeOK, CallInv, Answered
<1>6. ReadyForNewCall' /\ ClientBelongsToCall'
  BY DEF IInv, ReadyForNewCall, ClientBelongsToCall, FulfillCallConnectedPromise
<1>7. RingsOnlyAfterAnswer' /\ RecordTellsOutcome' /\ IceHeldUntilAnswer'
  BY <1>1, <1>2, <1>3 DEF IInv, TypeOK, RingsOnlyAfterAnswer, RecordTellsOutcome, IceHeldUntilAnswer,
                   Answered, Ringing
<1>8. TracksObeyUser' /\ NoRecordingBeforeConnected'
  BY <1>2 DEF IInv, TypeOK, TracksObeyUser, NoRecordingBeforeConnected, ShouldHaveLocalVideoTrack
<1> QED
  BY <1>4, <1>5, <1>6, <1>7, <1>8 DEF IInv

LEMMA DataChannelConnectedInv ==
    ASSUME IInv, DataChannelConnected
    PROVE  IInv'
<1> USE NoneAssumption DEF DataChannelConnected, CallbackIn
<1>1. CASE call = peerConnectionClient
  <2> USE <1>1
  <2>1. call # None /\ peerConnectionClient # None /\ call \in Calls /\ Answered(call)
    BY DEF IInv, TypeOK, CallInv
  <2>2. audioSession' \in BOOLEAN
    BY DEF RecipientAcceptedCall, IInv, TypeOK
  <2>3. direction[call] = "outgoing" /\ callRecord[call] \in {"outgoingIncomplete", "outgoing"}
    BY <2>1 DEF IInv, CallInv
  <2>4. savedRecords[call] # 0
    BY <2>1, <2>3 DEF IInv, TypeOK
  <2>5. callRecord \in [Calls -> Records] /\ savedRecords \in [Calls -> Nat]
    BY DEF IInv, TypeOK
  <2>6. HandleConnectedCall(callRecord) /\ savedRecords' = savedRecords
    OBVIOUS
  <2> HIDE DEF DataChannelConnected
  <2> QED
    BY <2>1, <2>2, <2>3, <2>4, <2>5, <2>6, HandleConnectedCallInv
<1>2. CASE call # peerConnectionClient
  BY <1>2, SameFrame, FailedCallInv
<1> QED
  BY <1>1, <1>2

LEMMA DataChannelVideoStreamingStatusInv ==
    ASSUME IInv, NEW enabled \in BOOLEAN, DataChannelVideoStreamingStatus(enabled)
    PROVE  IInv'
<1> USE NoneAssumption DEF DataChannelVideoStreamingStatus
<1>1. CASE call = None
  BY <1>1, SameFrame, FailedCallInv
<1>2. CASE call # None
  <2> USE <1>2
  <2>1. TypeOK'
    BY DEF IInv, TypeOK
  <2>2. CallInv' /\ ReadyForNewCall' /\ ClientBelongsToCall'
    BY DEF IInv, CallInv, ReadyForNewCall, ClientBelongsToCall, Answered
  <2>3. RingsOnlyAfterAnswer' /\ RecordTellsOutcome' /\ IceHeldUntilAnswer'
    BY DEF IInv, RingsOnlyAfterAnswer, RecordTellsOutcome, IceHeldUntilAnswer, Answered
  <2>4. TracksObeyUser' /\ NoRecordingBeforeConnected'
    BY DEF IInv, TracksObeyUser, NoRecordingBeforeConnected, ShouldHaveLocalVideoTrack
  <2> QED
    BY <2>1, <2>2, <2>3, <2>4 DEF IInv
<1> QED
  BY <1>1, <1>2

LEMMA CallbackInv ==
    ASSUME IInv, Callback
    PROVE  IInv'
<1>1. CASE PeerConnectionClientIceConnected \/ HandleLocalAddedIceCandidate
  BY <1>1, PeerConnectionClientIceConnectedInv, HandleLocalAddedIceCandidateInv
<1>2. CASE PeerConnectionClientIceFailed
  BY <1>2, SameFrame, FailedCallInv DEF PeerConnectionClientIceFailed
<1>3. CASE DataChannelConnected
  BY <1>3, DataChannelConnectedInv
<1>4. CASE DataChannelHangup
  BY <1>4, HandleRemoteHangupInv, SameFrame, FailedCallInv DEF DataChannelHangup
<1>5. CASE \E enabled \in BOOLEAN : DataChannelVideoStreamingStatus(enabled)
  BY <1>5, DataChannelVideoStreamingStatusInv
<1> QED
  BY <1>1, <1>2, <1>3, <1>4, <1>5 DEF Callback
-----------------------------------------------------------------------------
(***************************************************************************)
(* The user and the application.                                           *)
(***************************************************************************)
\* Placing a call, as every adaptee does it: the call is created for it.
LEMMA HandleOutgoingCallInv ==
    ASSUME IInv, NEW c \in Calls, NEW p \in Contacts, call = None, state[c] = "unborn",
           direction' = [direction EXCEPT ![c] = "outgoing"],
           contact' = [contact EXCEPT ![c] = p],
           HandleOutgoingCall(c, p)
    PROVE  IInv'
<1> USE NoneAssumption DEF HandleOutgoingCall, BecomesCurrent
<1>1. callRecord[c] = "none" /\ savedRecords[c] = 0
  BY DEF IInv, TypeOK
<1>2. /\ state' \in [Calls -> CallState \cup {"unborn"}]
      /\ state'[c] \in {"dialing", "localFailure"}
      /\ \A d \in Calls \ {c} : state'[d] = state[d]
  BY DEF IInv, TypeOK, CallState, Ringing, Ended
<1>3. /\ callRecord' \in [Calls -> Records] /\ callRecord'[c] = "outgoingIncomplete"
      /\ \A d \in Calls \ {c} : callRecord'[d] = callRecord[d]
      /\ savedRecords' \in [Calls -> Nat] /\ savedRecords'[c] = 1
      /\ \A d \in Calls \ {c} : savedRecords'[d] = savedRecords[d]
  BY <1>1 DEF IInv, TypeOK, Records
<1>4. /\ direction' \in [Calls -> {"none", "outgoing", "incoming"}]
      /\ direction'[c] = "outgoing"
      /\ \A d \in Calls \ {c} : direction'[d] = direction[d]
      /\ contact' \in [Calls -> Contacts \cup {None}]
      /\ contact'[c] = p
      /\ \A d \in Calls \ {c} : contact'[d] = contact[d]
  BY DEF IInv, TypeOK
<1>5. TypeOK'
  <2>1. /\ step' \in [Calls -> Steps]
        /\ \A d \in Calls \ {c} : step'[d] = step[d]
    BY DEF IInv, TypeOK, Steps
  <2>2. \A d \in Calls : /\ state'[d] = "unborn" <=> direction'[d] = "none"
                         /\ state'[d] = "unborn" <=> contact'[d] = None
    BY <1>2, <1>4 DEF IInv, TypeOK
  <2>3. \A d \in Calls : /\ state'[d] = "unborn" => step'[d] = "none" /\ callRecord'[d] = "none"
                         /\ callRecord'[d] = "none" <=> savedRecords'[d] = 0
    BY <1>2, <1>3, <2>1 DEF IInv, TypeOK
  <2>4. /\ call' \in Calls \cup {None} /\ thread' \in Contacts \cup {None}
        /\ peerConnectionClient' \in Calls \cup {None}
        /\ sendIceUpdatesImmediately' \in BOOLEAN /\ pendingIceUpdateMessages' \subseteq Calls
        /\ fulfillCallConnectedPromise' \in Calls \cup {None}
        /\ isRemoteVideoEnabled' \in BOOLEAN
        /\ isMuted' \in BOOLEAN /\ hasLocalVideo' \in BOOLEAN
        /\ audioEnabled' \in BOOLEAN /\ videoEnabled' \in BOOLEAN
        /\ audioSession' \in BOOLEAN /\ foreground' \in BOOLEAN
        /\ client' \in [Calls -> ClientStates] /\ exchanged' \subseteq MessageTypes \X Calls
    BY DEF IInv, TypeOK
  <2> QED
    BY <1>2, <1>3, <1>4, <2>1, <2>2, <2>3, <2>4 DEF TypeOK
<1>6. CallInv'
  BY <1>2, <1>3, <1>4 DEF IInv, TypeOK, CallInv, Answered, Ringing
<1>7. ReadyForNewCall' /\ ClientBelongsToCall'
  BY <1>4 DEF IInv, TypeOK, ReadyForNewCall, ClientBelongsToCall
<1>8. RingsOnlyAfterAnswer' /\ RecordTellsOutcome'
  BY <1>2, <1>3, <1>4 DEF IInv, TypeOK, RingsOnlyAfterAnswer, RecordTellsOutcome, Answered
<1>9. IceHeldUntilAnswer'
  BY <1>4 DEF IInv, TypeOK, CallInv, IceHeldUntilAnswer, Answered, MessageTypes
<1>10. TracksObeyUser' /\ NoRecordingBeforeConnected'
  BY DEF IInv, ReadyForNewCall, TracksObeyUser, NoRecordingBeforeConnected
<1> QED
  BY <1>5, <1>6, <1>7, <1>8, <1>9, <1>10 DEF IInv

\* Answering: the adaptee makes sure that the call is the current one and came
\* in, and shows no answer button before it rings here.
LEMMA HandleAnswerCallInv ==
    ASSUME IInv, call \in Calls, direction[call] = "incoming",
           state[call] \in {"localRinging", "connected"},
           peerConnectionClient = None \/ audioSession' \in BOOLEAN,
           HandleAnswerCall
    PROVE  IInv'
<1>1. CASE peerConnectionClient = None
  BY <1>1, SameFrame, FailedCallInv DEF HandleAnswerCall
<1>2. CASE peerConnectionClient # None
  <2> DEFINE records == [callRecord EXCEPT ![call] = "incomingIncomplete"]
  <2>1. /\ HandleConnectedCall(records)
        /\ savedRecords' = [savedRecords EXCEPT ![call] = @ + 1]
    BY <1>2 DEF HandleAnswerCall
  <2>2. call # None /\ Answered(call)
    BY NoneAssumption DEF IInv, RingsOnlyAfterAnswer
  <2>3. records \in [Calls -> Records]
    BY DEF IInv, TypeOK, Records
  <2>4. /\ records[call] = "incomingIncomplete"
        /\ \A c \in Calls \ {call} : records[c] = callRecord[c]
    BY DEF IInv, TypeOK
  <2>5. /\ savedRecords' \in [Calls -> Nat] /\ savedRecords'[call] # 0
        /\ \A c \in Calls \ {call} : savedRecords'[c] = savedRecords[c]
    BY <2>1 DEF IInv, TypeOK
  <2> HIDE DEF records
  <2> QED
    BY <1>2, <2>1, <2>2, <2>3, <2>4, <2>5, HandleConnectedCallInv
<1> QED
  BY <1>1, <1>2

LEMMA HandleLocalHungupCallInv ==
    ASSUME IInv, NEW c \in Calls, HandleLocalHungupCall(c)
    PROVE  IInv'
<1> USE DEF HandleLocalHungupCall
<1>1. CASE call = c /\ peerConnectionClient # None
  <2>1. state[c] # "unborn" /\ call # None
    BY <1>1, NoneAssumption DEF IInv, CallInv, Ringing
  <2>2. LegalFrame
    BY <1>1, <2>1, MessageFrame DEF MessageTypes
  <2>3. "localHangup" \in Ended \ {"remoteHangup"}
    BY DEF Ended
  <2> QED
    BY <1>1, <2>1, <2>2, <2>3, TerminateInv
<1>2. CASE ~(call = c /\ peerConnectionClient # None)
  BY <1>2, SameFrame, FailedCallInv
<1> QED
  BY <1>1, <1>2

\* A switch changes a preference and the tracks that follow it.
LEMMA SwitchInv ==
    ASSUME IInv, NEW muted \in BOOLEAN, NEW video \in BOOLEAN,
           isMuted' = muted, hasLocalVideo' = video, foreground' \in BOOLEAN,
           call = None => ~audioEnabled' /\ ~videoEnabled',
           peerConnectionClient = None => ~audioEnabled' /\ ~videoEnabled',
           audioEnabled' \in BOOLEAN, audioEnabled' => ~muted,
           videoEnabled' \in BOOLEAN, videoEnabled' => ShouldHaveLocalVideoTrack',
           UNCHANGED <<callVars, serviceVars, audioSession, step, client, exchanged>>
    PROVE  IInv'
<1>1. TypeOK'
  BY DEF IInv, TypeOK
<1>2. CallInv' /\ ReadyForNewCall' /\ ClientBelongsToCall'
  BY DEF IInv, CallInv, ReadyForNewCall, ClientBelongsToCall, Answered
<1>3. RingsOnlyAfterAnswer' /\ RecordTellsOutcome' /\ IceHeldUntilAnswer'
  BY DEF IInv, RingsOnlyAfterAnswer, RecordTellsOutcome, IceHeldUntilAnswer, Answered
<1>4. TracksObeyUser' /\ NoRecordingBeforeConnected'
  BY DEF IInv, TracksObeyUser, NoRecordingBeforeConnected, ShouldHaveLocalVideoTrack
<1> QED
  BY <1>1, <1>2, <1>3, <1>4 DEF IInv

LEMMA SetIsMutedInv ==
    ASSUME IInv, NEW muted \in BOOLEAN, SetIsMuted(muted)
    PROVE  IInv'
<1> USE DEF SetIsMuted
<1>1. CASE call = None \/ peerConnectionClient = None
  BY <1>1, SameFrame, FailedCallInv
<1>2. CASE ~(call = None \/ peerConnectionClient = None)
  BY <1>2, SwitchInv DEF IInv, TypeOK, TracksObeyUser, ShouldHaveLocalVideoTrack
<1> QED
  BY <1>1, <1>2

LEMMA SetHasLocalVideoInv ==
    ASSUME IInv, NEW enabled \in BOOLEAN, SetHasLocalVideo(enabled)
    PROVE  IInv'
<1> USE DEF SetHasLocalVideo, UpdateIsVideoEnabled
<1>1. CASE call = None \/ peerConnectionClient = None
  BY <1>1, SameFrame, FailedCallInv
<1>2. CASE ~(call = None \/ peerConnectionClient = None)
  <2>1. videoEnabled' \in BOOLEAN
    BY <1>2 DEF IInv, TypeOK, ShouldHaveLocalVideoTrack
  <2> QED
    BY <1>2, <2>1, SwitchInv DEF IInv, TypeOK, TracksObeyUser
<1> QED
  BY <1>1, <1>2

LEMMA DidEnterBackgroundOrBecomeActiveInv ==
    ASSUME IInv, DidEnterBackgroundOrBecomeActive
    PROVE  IInv'
<1> USE DEF DidEnterBackgroundOrBecomeActive, UpdateIsVideoEnabled
<1>1. /\ call = None => ~audioEnabled /\ ~videoEnabled
      /\ peerConnectionClient = None => ~audioEnabled /\ ~videoEnabled
      /\ audioEnabled \in BOOLEAN /\ (audioEnabled => ~isMuted)
  BY DEF IInv, TypeOK, CallInv, ReadyForNewCall, TracksObeyUser
<1>2. videoEnabled' \in BOOLEAN /\ (videoEnabled' => ShouldHaveLocalVideoTrack')
  BY <1>1 DEF IInv, TypeOK, ShouldHaveLocalVideoTrack
<1>3. foreground' \in BOOLEAN /\ isMuted \in BOOLEAN /\ hasLocalVideo \in BOOLEAN
  BY DEF IInv, TypeOK
<1>4. /\ call = None => ~audioEnabled' /\ ~videoEnabled'
      /\ peerConnectionClient = None => ~audioEnabled' /\ ~videoEnabled'
  BY <1>1
<1> QED
  BY <1>1, <1>2, <1>3, <1>4, SwitchInv

LEMMA CreateCallUIAdapterInv ==
    ASSUME IInv, CreateCallUIAdapter
    PROVE  IInv'
<1> USE NoneAssumption DEF CreateCallUIAdapter, TerminateCall, CloseClient, StopAudioSession,
                           ResetIceUpdates
<1>1. TypeOK'
  <2>1. client' \in [Calls -> ClientStates]
    BY DEF IInv, TypeOK, ClientStates
  <2> QED
    BY <2>1 DEF IInv, TypeOK
<1>2. CallInv' /\ RingsOnlyAfterAnswer'
  BY DEF IInv, TypeOK, CallInv, RingsOnlyAfterAnswer, Answered
<1>3. ReadyForNewCall' /\ ClientBelongsToCall'
  BY DEF IInv, ReadyForNewCall, ClientBelongsToCall
<1>4. RecordTellsOutcome' /\ IceHeldUntilAnswer'
  BY DEF IInv, RecordTellsOutcome, IceHeldUntilAnswer, Answered
<1>5. TracksObeyUser' /\ NoRecordingBeforeConnected'
  BY DEF TracksObeyUser, NoRecordingBeforeConnected
<1> QED
  BY <1>1, <1>2, <1>3, <1>4, <1>5 DEF IInv

LEMMA ServiceNextInv ==
    ASSUME IInv, ServiceNext
    PROVE  IInv'
BY ReceivedMessageInv, ChainStepInv, CallbackInv, DidEnterBackgroundOrBecomeActiveInv,
   CreateCallUIAdapterInv DEF ServiceNext
-----------------------------------------------------------------------------
(***************************************************************************)
(* Which calls change their state.                                         *)
(***************************************************************************)
\* A step changes the state of the current call, or of one that comes to be.
OnlyCurrentChanges ==
    \A c \in Calls : call # c /\ state[c] # "unborn" => state'[c] = state[c]

LEMMA FailedCallState == HandleFailedCall => OnlyCurrentChanges
BY DEF HandleFailedCall, OnlyCurrentChanges

LEMMA HandlersState ==
    ASSUME IInv
    PROVE  /\ HandleAnswerCall => OnlyCurrentChanges
           /\ \A c \in Calls : HandleLocalHungupCall(c) => OnlyCurrentChanges
           /\ \A on \in BOOLEAN : SetIsMuted(on) \/ SetHasLocalVideo(on) => OnlyCurrentChanges
<1>1. HandleAnswerCall => OnlyCurrentChanges
  BY FailedCallState DEF HandleAnswerCall, HandleConnectedCall, OnlyCurrentChanges, IInv, TypeOK
<1>2. ASSUME NEW c \in Calls, HandleLocalHungupCall(c) PROVE OnlyCurrentChanges
  <2>1. CASE HandleFailedCall
    BY <2>1, FailedCallState
  <2>2. CASE ~HandleFailedCall
    BY <1>2, <2>2 DEF HandleLocalHungupCall, OnlyCurrentChanges, IInv, TypeOK
  <2> QED
    BY <2>1, <2>2
<1>3. ASSUME NEW on \in BOOLEAN, SetIsMuted(on) \/ SetHasLocalVideo(on)
      PROVE  OnlyCurrentChanges
  BY <1>3, FailedCallState DEF SetIsMuted, SetHasLocalVideo, OnlyCurrentChanges
<1> QED
  BY <1>1, <1>2, <1>3

LEMMA ServiceNextState ==
    ASSUME IInv, ServiceNext
    PROVE  OnlyCurrentChanges
<1>1. ASSUME NEW c \in Calls, ReceivedMessage(c) PROVE OnlyCurrentChanges
  BY <1>1, FailedCallState
     DEF ReceivedMessage, HandleReceivedOffer, HandleLocalBusyCall, HandleMissedCall,
         BecomesCurrent, HandleReceivedAnswer, HandleRemoteAddedIceCandidate, ReceivedHangup,
         HandleRemoteHangup, HandleRemoteBusy, OnlyCurrentChanges, IInv, TypeOK
<1>2. ASSUME NEW c \in Calls, ChainStep(c) PROVE OnlyCurrentChanges
  <2>1. CASE HandleFailedCall
    BY <2>1, FailedCallState
  <2>2. CASE ~HandleFailedCall
    <3>1. state' = state
      BY <1>2, <2>2
         DEF ChainStep, GotIceServers, Negotiated, NegotiationFailed, OfferCreated, SendOffer,
             SendAnswer, MessageSent, SendingFailed, ConnectingTimedOut, ChainFailed,
             BackgroundTaskExpired, OnlyAdvance, HandleTimeout, AppCrashes
    <3> QED
      BY <3>1 DEF OnlyCurrentChanges
  <2> QED
    BY <2>1, <2>2
<1>3. ASSUME Callback PROVE OnlyCurrentChanges
  <2>1. CASE HandleFailedCall
    BY <2>1, FailedCallState
  <2>2. CASE PeerConnectionClientIceConnected /\ ~HandleFailedCall
    BY <2>2 DEF PeerConnectionClientIceConnected, OnlyCurrentChanges, IInv, TypeOK
  <2>3. CASE (DataChannelConnected \/ DataChannelHangup) /\ ~HandleFailedCall
    BY <2>3 DEF DataChannelConnected, DataChannelHangup, HandleConnectedCall,
                HandleRemoteHangup, OnlyCurrentChanges, IInv, TypeOK
  <2>4. CASE HandleLocalAddedIceCandidate /\ ~HandleFailedCall
    BY <2>4 DEF HandleLocalAddedIceCandidate, OnlyCurrentChanges
  <2>5. CASE /\ \E enabled \in BOOLEAN : DataChannelVideoStreamingStatus(enabled)
             /\ ~HandleFailedCall
    BY <2>5 DEF DataChannelVideoStreamingStatus, OnlyCurrentChanges
  <2> QED
    BY <1>3, <2>1, <2>2, <2>3, <2>4, <2>5 DEF Callback, PeerConnectionClientIceFailed
<1>4. ASSUME DidEnterBackgroundOrBecomeActive \/ CreateCallUIAdapter
      PROVE  OnlyCurrentChanges
  BY <1>4 DEF DidEnterBackgroundOrBecomeActive, CreateCallUIAdapter, OnlyCurrentChanges
<1> QED
  BY <1>1, <1>2, <1>3, <1>4 DEF ServiceNext
=============================================================================
