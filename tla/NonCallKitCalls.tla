--------------------------- MODULE NonCallKitCalls ---------------------------
(***************************************************************************)
(* The call service under the NonCallKitCallUIAdaptee: the call screen and *)
(* the notification actions call it directly.                              *)
(***************************************************************************)
EXTENDS CallService

CONSTANT MaxRecords     \* bound: TSCall rows saved for one call

\* The adaptee's own guard: whatever call the user acts on, any other than the
\* current one is refused.
IsCurrent(c) == c = call

\* An incoming call is shown once ICE has connected, an outgoing one at once.  The
\* screen's call controls are hidden while the call rings here.
ControlsShown(c) == IsCurrent(c) /\ state[c] \notin {"answering", "localRinging"}

StartAndShowOutgoingCall(c, p) ==
    /\ call = None
    /\ state[c] = "unborn"
    /\ direction' = [direction EXCEPT ![c] = "outgoing"]
    /\ contact' = [contact EXCEPT ![c] = p]
    /\ HandleOutgoingCall(c, p)

\* The answer button is there while the call rings here; the action of its
\* notification is there afterwards, too.
AnswerCall(c) ==
    /\ IsCurrent(c)
    /\ direction[c] = "incoming"
    /\ state[c] \in {"localRinging", "connected"}
    /\ savedRecords[c] < MaxRecords
    /\ IF peerConnectionClient = None THEN audioSession' = FALSE
                                      ELSE audioSession' = TRUE
    /\ HandleAnswerCall

DeclineCall(c) ==
    /\ IsCurrent(c)
    /\ direction[c] = "incoming"
    /\ state[c] \in {"localRinging", "connected"}
    /\ HandleLocalHungupCall(c)

\* The screen of a call that is over still has its hangup button: the guard lets it
\* pass when there is no call at all.  (Only an outgoing call can leave a client
\* behind for it to clean up.)
LocalHangupCall(c) ==
    \/ ControlsShown(c) /\ HandleLocalHungupCall(c)
    \/ call = None /\ direction[c] = "outgoing" /\ HandleLocalHungupCall(c)

PressMute(c, muted) == ControlsShown(c) /\ SetIsMuted(muted)

PressVideo(c, enabled) == ControlsShown(c) /\ SetHasLocalVideo(enabled)

UserStep(c) ==
    \/ \E p \in Contacts : StartAndShowOutgoingCall(c, p)
    \/ AnswerCall(c) \/ DeclineCall(c) \/ LocalHangupCall(c)
    \/ \E on \in BOOLEAN : PressMute(c, on) \/ PressVideo(c, on)

Next == ServiceNext \/ \E c \in Calls : UserStep(c)

Spec == Init /\ [][Next]_vars

FairSpec == Spec /\ ChainFairness
=============================================================================
