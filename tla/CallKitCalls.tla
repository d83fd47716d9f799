---------------------------- MODULE CallKitCalls ----------------------------
(***************************************************************************)
(* The call service under the CallKitCallUIAdaptee.  What the user does is *)
(* requested of CallKit as a transaction and takes effect when CallKit     *)
(* has the adaptee perform it, in a later turn of the main loop; by then   *)
(* the call may be over and another one current.                           *)
(*                                                                         *)
(* CallKit itself is external: which calls it shows (known), the           *)
(* transactions it accepted and has not performed, and its activation of   *)
(* the audio session.                                                      *)
(***************************************************************************)
EXTENDS CallService, Sequences, Functions

CONSTANT MaxTransactions    \* bound: transactions accepted and not yet performed

VARIABLES
    calls,          \* CallKitCallManager.calls
    reporting,      \* calls whose reportNewIncomingCall has yet to call back
    known,          \* calls that CallKit shows to the user
    transactions,   \* <<action, call>>, in the order CallKit performs them
    willActivate    \* CallKit is about to activate the audio session

adapteeVars == <<calls, reporting, known, transactions, willActivate>>
allVars     == <<vars, adapteeVars>>

Actions == {"start", "answer", "end", "hold", "mute", "unmute"}

CallKitInit ==
    /\ Init
    /\ calls = {} /\ reporting = {} /\ known = {}
    /\ transactions = <<>> /\ willActivate = FALSE
-----------------------------------------------------------------------------
(***************************************************************************)
(* What the service tells the adaptee.                                     *)
(***************************************************************************)
\* The call that this step ends in one of the given states, if any.
Ending(states) == {c \in {call} \ {None} : call' = None /\ state'[c] \in states}

\* failCall takes the call from the list; remoteDidHangupCall and remoteBusy do not.
FailCall == calls' = calls \ Ending({"localFailure"})

\* CallKit is told of every end that it did not ask for itself.
ReportedEnd == Ending({"localFailure", "remoteHangup", "remoteBusy"})

\* CallKit may deny an incoming call.
ReportIncomingCall(c) ==
    \/ known' = known \cup {c} /\ reporting' = reporting \cup {c}
    \/ UNCHANGED <<known, reporting>>

StartsRinging ==
    call # None /\ state[call] = "answering" /\ state'[call] = "localRinging"

Notified ==
    /\ FailCall
    /\ IF StartsRinging
         THEN ReportIncomingCall(call)
         ELSE known' = known \ ReportedEnd /\ UNCHANGED reporting
    /\ UNCHANGED <<transactions, willActivate>>

\* A new adaptee, with a manager and a provider of its own.
NewAdaptee ==
    /\ calls' = {} /\ reporting' = {} /\ known' = {}
    /\ transactions' = <<>> /\ willActivate' = FALSE

\* The step that unwraps nil and ends the app.
UnwrapsNil(c) ==
    step[c] = "negotiated" /\ direction[c] = "outgoing" /\ peerConnectionClient = None

Service ==
    \/ \E c \in Calls : ReceivedMessage(c) /\ Notified
    \/ \E c \in Calls : ~UnwrapsNil(c) /\ ChainStep(c) /\ Notified
    \/ \E c \in Calls : UnwrapsNil(c) /\ ChainStep(c) /\ NewAdaptee
    \/ Callback /\ Notified
    \/ DidEnterBackgroundOrBecomeActive /\ UNCHANGED adapteeVars
    \/ CreateCallUIAdapter /\ NewAdaptee
-----------------------------------------------------------------------------
(***************************************************************************)
(* Requests.  CallKit accepts or refuses; the adaptee only logs which.     *)
(***************************************************************************)
RequestTransaction(action, c) ==
    /\ Len(transactions) < MaxTransactions
    /\ <<action, c>> \notin Range(transactions)
    /\ transactions' = Append(transactions, <<action, c>>)

\* The call is in the list before CallKit accepts it, or refuses.
StartAndShowOutgoingCall(c, p) ==
    /\ call = None
    /\ state[c] = "unborn"
    /\ direction' = [direction EXCEPT ![c] = "outgoing"]
    /\ contact' = [contact EXCEPT ![c] = p]
    /\ state' = [state EXCEPT ![c] = "dialing"]
    /\ calls' = calls \cup {c}
    /\ \/ RequestTransaction("start", c) /\ known' = known \cup {c}
       \/ UNCHANGED <<transactions, known>>
    /\ UNCHANGED <<callRecord, savedRecords, serviceVars, mediaVars, step, client,
                   exchanged, foreground, reporting, willActivate>>

\* On the system's call screen or on the app's.  Holding is offered until
\* recipientAcceptedCall or reportIncomingCall says it is not supported.
Request(action, c) ==
    /\ c \in known
    /\ action = "answer" => direction[c] = "incoming" /\ state[c] # "connected"
    /\ action = "hold" => direction[c] = "outgoing" /\ state[c] # "connected"
    /\ action \in {"mute", "unmute", "hold"} => "mute" \in Switches
    /\ RequestTransaction(action, c)
    /\ UNCHANGED <<vars, calls, reporting, known, willActivate>>

\* Video is no CallKit action: the adaptee calls the service at once, whichever
\* call's screen it is.
PressVideo(c, enabled) ==
    /\ c \in (known \cup {call}) \ {None}
    /\ state[c] \notin {"answering", "localRinging"}
    /\ SetHasLocalVideo(enabled)
    /\ Notified
-----------------------------------------------------------------------------
(***************************************************************************)
(* The provider's delegate.                                                *)
(***************************************************************************)
\* Defect: the call of the action is not looked up.
PerformsUnlisted(action, c) ==
    /\ transactions # <<>>
    /\ Head(transactions) = <<action, c>>
    /\ transactions' = Tail(transactions)

\* The next transaction, of an action on a call that the manager finds.
Performs(action, c) ==
    /\ transactions # <<>>
    /\ Head(transactions) = <<action, c>>
    /\ c \in calls
    /\ transactions' = Tail(transactions)

\* The outcome of handleOutgoingCall is not waited for.
PerformStartCall(c) ==
    /\ Performs("start", c)
    /\ HandleOutgoingCall(c, contact[c])
    /\ UNCHANGED <<direction, contact, calls, reporting, known>>
    /\ willActivate' = TRUE

\* An answer for another call than the current one is ignored.
PerformAnswerCall(c) ==
    /\ Performs("answer", c)
    /\ \/ call = None /\ HandleFailedCall /\ UNCHANGED <<step, exchanged>>
       \/ call = c /\ HandleAnswerCall
                   /\ (peerConnectionClient # None => UNCHANGED audioSession)
       \/ call \notin {None, c} /\ UNCHANGED vars
    /\ FailCall
    /\ known' = known \ ReportedEnd
    /\ willActivate' = TRUE
    /\ UNCHANGED reporting

PerformEndCall(c) ==
    /\ Performs("end", c)
    /\ HandleLocalHungupCall(c)
    /\ calls' = calls \ ({c} \cup Ending({"localFailure"}))
    /\ known' = known \ ({c} \cup ReportedEnd)
    /\ UNCHANGED <<reporting, willActivate>>

PerformSetHeld(c) ==
    /\ Performs("hold", c)
    /\ audioSession' = FALSE
    /\ UNCHANGED <<callVars, serviceVars, isMuted, hasLocalVideo, audioEnabled, videoEnabled,
                   step, client, exchanged, foreground, calls, reporting, known, willActivate>>

\* The manager is asked for the action's call; the service mutes the current one.
PerformSetMuted(c, muted) ==
    /\ Performs(IF muted THEN "mute" ELSE "unmute", c)
    /\ SetIsMuted(muted)
    /\ FailCall
    /\ known' = known \ ReportedEnd
    /\ UNCHANGED <<reporting, willActivate>>

\* An action on a call that is not in the list is failed, or left to time out: a
\* call whose start fails is taken off the screen.
FailsAction ==
    /\ transactions # <<>>
    /\ LET action == Head(transactions)[1]
           c == Head(transactions)[2]
       IN /\ c \notin calls
          /\ known' = IF action = "start" THEN known \ {c} ELSE known
    /\ transactions' = Tail(transactions)
    /\ UNCHANGED <<vars, calls, reporting, willActivate>>

\* The completion of reportNewIncomingCall: the call has been allowed.
IncomingCallAllowed(c) ==
    /\ c \in reporting
    /\ reporting' = reporting \ {c}
    /\ calls' = calls \cup {c}
    /\ UNCHANGED <<vars, known, transactions, willActivate>>

DidActivate ==
    /\ willActivate
    /\ willActivate' = FALSE
    /\ audioSession' = TRUE
    /\ UNCHANGED <<callVars, serviceVars, isMuted, hasLocalVideo, audioEnabled, videoEnabled,
                   step, client, exchanged, foreground, calls, reporting, known, transactions>>

ProviderDidReset ==
    /\ HandleFailedCall
    /\ UNCHANGED <<step, exchanged, reporting>>
    /\ calls' = {} /\ known' = {}
    /\ transactions' = <<>> /\ willActivate' = FALSE

Delegate ==
    \/ \E c \in Calls : \/ PerformStartCall(c) \/ PerformAnswerCall(c) \/ PerformEndCall(c)
                        \/ PerformSetHeld(c)
                        \/ \E muted \in BOOLEAN : PerformSetMuted(c, muted)
                        \/ IncomingCallAllowed(c)
    \/ FailsAction
    \/ DidActivate
    \/ ProviderDidReset

User ==
    \E c \in Calls :
        \/ \E p \in Contacts : StartAndShowOutgoingCall(c, p)
        \/ \E action \in Actions \ {"start"} : Request(action, c)
        \/ \E enabled \in BOOLEAN : PressVideo(c, enabled)

CallKitNext == Service \/ Delegate \/ User

CallKitSpec == CallKitInit /\ [][CallKitNext]_allVars
-----------------------------------------------------------------------------
(***************************************************************************)
(* Properties.                                                             *)
(***************************************************************************)
\* The types of the fields of the service and of the adaptee, its manager and CallKit.
CallKitTypeOK ==
    /\ TypeOK
    /\ calls \subseteq Calls /\ reporting \subseteq Calls /\ known \subseteq Calls
    /\ transactions \in Seq(Actions \X Calls)
    /\ willActivate \in BOOLEAN

\* What the service promises of its calls holds under CallKit too, whose transactions
\* come a turn later than the user's wish, are refused, fail, or are lost in a reset.
CallKitInv == CallKitTypeOK /\ ReadyForNewCall /\ RecordTellsOutcome /\ TracksObeyUser

\* "So we can find it in the provider delegate callbacks": a connected call is in
\* the manager's list and on CallKit's screen, so that the user can always end it,
\* however its connection raced with resets, refusals, ends and other calls.
ConnectedCallCanBeEnded ==
    call # None /\ state[call] = "connected" => call \in calls \cap known
-----------------------------------------------------------------------------
(***************************************************************************)
(* What a comment of the code says and the code does not keep: TLC finds   *)
(* it violated.                                                            *)
(***************************************************************************)
\* handleConnectedCall: "We don't risk transmitting any media until the remote
\* client has admitted to being connected."
NoMediaBeforeAccepted ==
    audioEnabled /\ audioSession /\ client[peerConnectionClient] = "connected"
        => state[call] = "connected"
=============================================================================
