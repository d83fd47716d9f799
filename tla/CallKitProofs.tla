--------------------------- MODULE CallKitProofs ---------------------------
(***************************************************************************)
(* The call service under the CallKit adaptee, for any number of calls,    *)
(* contacts and transactions: the service's own invariant still holds, and *)
(* the manager's list, CallKit's screen and the transactions agree with    *)
(* the calls well enough for a connected call to be found and ended.       *)
(***************************************************************************)
EXTENDS CallKitCalls, CallServiceProofs

USE DEF vars, callVars, serviceVars, mediaVars

Queued(action, c) == <<action, c>> \in Range(transactions)

\* The calls that the adaptee or CallKit has to do with.
Shown == calls \cup reporting \cup known \cup {c \in Calls : \E a \in Actions : Queued(a, c)}

AdapteeTypeOK ==
    /\ calls \subseteq Calls /\ reporting \subseteq Calls /\ known \subseteq Calls
    /\ transactions \in Seq(Actions \X Calls)
    /\ willActivate \in BOOLEAN

\* A call is shown only once it rings, if it came in.
ShownOnceRinging ==
    /\ \A c \in Shown : state[c] \notin {"unborn", "answering"}
    /\ \A c \in Calls : state[c] = "answering" => direction[c] = "incoming"

NoneTwice ==
    \A i, j \in 1 .. Len(transactions) : transactions[i] = transactions[j] => i = j

\* A start that CallKit has yet to perform is of a call that never was the current one,
\* and that CallKit still shows if the manager still lists it.
StartsAreNew ==
    \A c \in Calls : Queued("start", c) =>
        /\ direction[c] = "outgoing" /\ state[c] = "dialing" /\ call # c
        /\ step[c] = "none"
        /\ c \in calls => c \in known

AnsweredCameIn ==
    /\ \A c \in reporting : direction[c] = "incoming"
    /\ \A c \in Calls : Queued("answer", c) => direction[c] = "incoming"

CurrentIsListed ==
    call # None =>
        /\ call \in calls \cup reporting => call \in known
        /\ direction[call] = "outgoing" \/ state[call] = "connected" => call \in calls
        /\ direction[call] = "incoming" => state[call] \in {"answering", "localRinging", "connected"}

ListInv ==
    /\ AdapteeTypeOK /\ ShownOnceRinging /\ NoneTwice
    /\ StartsAreNew /\ AnsweredCameIn /\ CurrentIsListed

LEMMA CallKitInitInv == CallKitInit => IInv /\ ListInv
<1> SUFFICES ASSUME CallKitInit PROVE IInv /\ ListInv
  OBVIOUS
<1>1. IInv
  BY InitInv DEF CallKitInit
<1>2. Range(transactions) = {}
  BY DEF CallKitInit, Range
<1>3. AdapteeTypeOK /\ NoneTwice
  <2>1. <<>> \in Seq(Actions \X Calls) /\ Len(<<>>) = 0
    OBVIOUS
  <2>2. AdapteeTypeOK
    BY <2>1 DEF CallKitInit, AdapteeTypeOK
  <2>3. NoneTwice
    BY <2>1 DEF CallKitInit, NoneTwice
  <2> QED  BY <2>2, <2>3
<1>4. ShownOnceRinging /\ StartsAreNew /\ AnsweredCameIn /\ CurrentIsListed
  BY <1>2 DEF CallKitInit, Init, ShownOnceRinging, StartsAreNew, AnsweredCameIn,
              CurrentIsListed, Shown, Queued
<1> QED
  BY <1>1, <1>3, <1>4 DEF ListInv
-----------------------------------------------------------------------------
(***************************************************************************)
(* What a step does to the calls, and to the list.                         *)
(***************************************************************************)
\* Calls go on, end, or come in; the current one may be answered if it is listed.
CallsGoOn ==
    /\ \A c \in Calls : state[c] # "unborn" =>
         /\ direction'[c] = direction[c]
         /\ state'[c] # "unborn"
         /\ state'[c] = "answering" => state[c] = "answering"
         /\ call # c => state'[c] = state[c]
    /\ \A c \in Calls : state[c] = "unborn" =>
         state'[c] = "unborn" \/ (state'[c] = "answering" /\ direction'[c] = "incoming")
    /\ call' # None /\ call' = call /\ direction[call] = "incoming" =>
         \/ state'[call] = state[call]
         \/ state[call] = "answering" /\ state'[call] = "localRinging"
         \/ state'[call] = "connected" /\ call \in calls
    /\ call' # None /\ call' # call =>
         call' \in Calls /\ state[call'] = "unborn" /\ state'[call'] = "answering"

\* No chain begins of a call that had come to be before.
NoChainBegins ==
    \A c \in Calls : state[c] # "unborn" /\ step[c] = "none" => step'[c] = "none"

QueueShrinks ==
    /\ transactions' \in Seq(Actions \X Calls) /\ NoneTwice'
    /\ Range(transactions') \subseteq Range(transactions)

\* The list loses calls, or takes one that CallKit allowed; the screen loses calls that
\* are not listed, or are over, and takes one that begins to ring.
ListGoesOn ==
    /\ calls' \subseteq calls \cup reporting
    /\ \A c \in (known' \cup reporting') \ (known \cup reporting) : c = call /\ StartsRinging
    /\ \A c \in reporting' \ reporting : c = call /\ StartsRinging /\ c \in known'
    /\ \A c \in calls' : c # call /\ c \in known => c \in known'
    /\ call' # None /\ call' = call =>
         /\ call \in calls => call \in calls'
         /\ call \in known => call \in known'
    /\ willActivate' \in BOOLEAN

LEMMA ListInvKept ==
    ASSUME IInv, ListInv, CallsGoOn, NoChainBegins, QueueShrinks, ListGoesOn
    PROVE  ListInv'
<1>1. /\ \A a, c : Queued(a, c)' => Queued(a, c)
      /\ call # None => call \in Calls /\ state[call] # "unborn"
      /\ \A c \in Calls : state[c] # "unborn" => direction[c] \in {"outgoing", "incoming"}
  BY DEF Queued, QueueShrinks, IInv, TypeOK, CallInv, Ringing
<1>2. /\ calls \subseteq Calls /\ reporting \subseteq Calls /\ known \subseteq Calls
      /\ StartsRinging => /\ call \in Calls /\ state[call] = "answering"
                          /\ state'[call] = "localRinging" /\ direction[call] = "incoming"
                          /\ call # None
  BY <1>1 DEF ListInv, AdapteeTypeOK, ShownOnceRinging, StartsRinging
<1>3. AdapteeTypeOK' /\ NoneTwice'
  BY <1>2 DEF AdapteeTypeOK, QueueShrinks, ListGoesOn
<1>4. ShownOnceRinging'
  <2>1. ASSUME NEW c \in Shown' PROVE state'[c] \notin {"unborn", "answering"}
    <3>1. c \in Shown \/ (c = call /\ StartsRinging)
      BY <1>1 DEF Shown, ListGoesOn
    <3>2. CASE c \in Shown
      <4>1. c \in Calls /\ state[c] \notin {"unborn", "answering"}
        BY <1>2, <3>2 DEF Shown, ListInv, ShownOnceRinging
      <4> QED  BY <4>1 DEF CallsGoOn
    <3> QED  BY <1>2, <3>1, <3>2
  <2>2. ASSUME NEW c \in Calls, state'[c] = "answering" PROVE direction'[c] = "incoming"
    BY <2>2 DEF CallsGoOn, ListInv, ShownOnceRinging
  <2> QED  BY <2>1, <2>2 DEF ShownOnceRinging
<1>5. StartsAreNew'
  <2> SUFFICES ASSUME NEW c \in Calls, Queued("start", c)'
               PROVE  /\ direction'[c] = "outgoing" /\ state'[c] = "dialing" /\ call' # c
                      /\ step'[c] = "none"
                      /\ c \in calls' => c \in known'
    BY DEF StartsAreNew
  <2>1. /\ direction[c] = "outgoing" /\ state[c] = "dialing" /\ call # c
        /\ step[c] = "none"
        /\ c \in calls => c \in known
    BY <1>1 DEF ListInv, StartsAreNew
  <2>2. direction'[c] = "outgoing" /\ state'[c] = "dialing" /\ call' # c
    BY <2>1, NoneAssumption DEF CallsGoOn
  <2>3. c \notin reporting
    BY <2>1 DEF ListInv, AnsweredCameIn
  <2>4. step'[c] = "none"
    BY <2>1 DEF NoChainBegins
  <2> QED  BY <2>1, <2>2, <2>3, <2>4 DEF ListGoesOn
<1>6. AnsweredCameIn'
  <2>1. ASSUME NEW c \in reporting' PROVE direction'[c] = "incoming"
    <3>1. c \in Calls /\ state[c] # "unborn" /\ direction[c] = "incoming"
      BY <1>2 DEF ListGoesOn, ListInv, AnsweredCameIn, ShownOnceRinging, Shown
    <3> QED  BY <3>1 DEF CallsGoOn
  <2>2. ASSUME NEW c \in Calls, Queued("answer", c)' PROVE direction'[c] = "incoming"
    <3>1. state[c] # "unborn" /\ direction[c] = "incoming"
      BY <1>1, <2>2 DEF ListInv, AnsweredCameIn, IInv, TypeOK
    <3> QED  BY <3>1 DEF CallsGoOn
  <2> QED  BY <2>1, <2>2 DEF AnsweredCameIn
<1>7. CurrentIsListed'
  <2>1. CASE call' = None
    BY <2>1 DEF CurrentIsListed
  <2>2. CASE call' # None /\ call' # call
    <3>1. /\ call' \in Calls /\ state[call'] = "unborn" /\ state'[call'] = "answering"
          /\ direction'[call'] = "incoming"
      BY <2>2 DEF CallsGoOn
    <3>2. call' \notin calls \cup reporting
      BY <3>1 DEF ListInv, ShownOnceRinging, Shown
    <3>3. call' \notin calls' \cup reporting'
      BY <2>2, <3>2 DEF ListGoesOn
    <3> QED  BY <3>1, <3>3 DEF CurrentIsListed
  <2>3. CASE call' # None /\ call' = call
    <3>1. /\ call \in Calls /\ state[call] # "unborn" /\ direction'[call] = direction[call]
      BY <1>1, <2>3 DEF CallsGoOn
    <3>2. /\ call \in calls \cup reporting => call \in known
          /\ direction[call] = "outgoing" \/ state[call] = "connected" => call \in calls
          /\ direction[call] = "incoming" =>
               state[call] \in {"answering", "localRinging", "connected"}
      BY <2>3 DEF ListInv, CurrentIsListed
    <3>3. call \in calls' \cup reporting' => call \in known'
      BY <2>3, <3>2 DEF ListGoesOn
    <3>4. direction[call] = "outgoing" \/ state'[call] = "connected" => call \in calls'
      <4>1. direction[call] = "outgoing" \/ state'[call] = "connected" => call \in calls
        BY <1>1, <2>3, <3>1, <3>2 DEF CallsGoOn
      <4> QED  BY <2>3, <4>1 DEF ListGoesOn
    <3>5. direction[call] = "incoming" =>
            state'[call] \in {"answering", "localRinging", "connected"}
      BY <2>3, <3>2 DEF CallsGoOn
    <3> QED  BY <2>3, <3>1, <3>3, <3>4, <3>5 DEF CurrentIsListed
  <2> QED  BY <2>1, <2>2, <2>3
<1> QED
  BY <1>3, <1>4, <1>5, <1>6, <1>7 DEF ListInv
-----------------------------------------------------------------------------
(***************************************************************************)
(* The queue of transactions.                                              *)
(***************************************************************************)
LEMMA TakenOff ==
    ASSUME ListInv, transactions # <<>>, transactions' = Tail(transactions)
    PROVE  /\ QueueShrinks
           /\ Head(transactions) \in Range(transactions)
           /\ Head(transactions) \notin Range(transactions')
<1> DEFINE T == transactions
<1>1. T \in Seq(Actions \X Calls) /\ T # <<>> /\ Len(T) \in Nat \ {0}
  BY DEF ListInv, AdapteeTypeOK
<1>2. /\ Tail(T) \in Seq(Actions \X Calls) /\ Len(Tail(T)) = Len(T) - 1
      /\ DOMAIN Tail(T) = 1 .. Len(T) - 1 /\ DOMAIN T = 1 .. Len(T)
      /\ \A i \in 1 .. Len(T) - 1 : Tail(T)[i] = T[i + 1]
      /\ Head(T) = T[1]
  BY <1>1
<1>3. \A i, j \in 1 .. Len(T) : T[i] = T[j] => i = j
  BY DEF ListInv, NoneTwice
<1>4. NoneTwice'
  <2> SUFFICES ASSUME NEW i \in 1 .. Len(T) - 1, NEW j \in 1 .. Len(T) - 1, T[i + 1] = T[j + 1]
               PROVE  i = j
    BY <1>2 DEF NoneTwice
  <2>1. i + 1 \in 1 .. Len(T) /\ j + 1 \in 1 .. Len(T)
    BY <1>1
  <2> QED  BY <1>3, <2>1
<1>5. Range(transactions') \subseteq Range(T) /\ Head(T) \notin Range(transactions')
  <2>1. \A i \in 1 .. Len(T) - 1 : i + 1 \in 1 .. Len(T) /\ i + 1 # 1 /\ 1 \in 1 .. Len(T)
    BY <1>1
  <2> QED  BY <1>2, <1>3, <2>1 DEF Range
<1>6. Head(T) \in Range(T)
  BY <1>1, <1>2 DEF Range
<1> QED
  BY <1>2, <1>4, <1>5, <1>6 DEF QueueShrinks

LEMMA PutOn ==
    ASSUME ListInv, NEW action \in Actions, NEW c \in Calls, RequestTransaction(action, c)
    PROVE  /\ transactions' \in Seq(Actions \X Calls) /\ NoneTwice'
           /\ Range(transactions') = Range(transactions) \cup {<<action, c>>}
<1> DEFINE T == transactions
           t == <<action, c>>
<1>1. /\ T \in Seq(Actions \X Calls) /\ t \in Actions \X Calls /\ Len(T) \in Nat
      /\ t \notin Range(T) /\ transactions' = Append(T, t)
  BY DEF ListInv, AdapteeTypeOK, RequestTransaction
<1> HIDE DEF t
<1>2. /\ Append(T, t) \in Seq(Actions \X Calls) /\ Len(Append(T, t)) = Len(T) + 1
      /\ DOMAIN Append(T, t) = 1 .. Len(T) + 1 /\ DOMAIN T = 1 .. Len(T)
      /\ \A i \in 1 .. Len(T) : Append(T, t)[i] = T[i]
      /\ Append(T, t)[Len(T) + 1] = t
  BY <1>1
<1>3. \A i, j \in 1 .. Len(T) : T[i] = T[j] => i = j
  BY DEF ListInv, NoneTwice
<1>4. \A i \in 1 .. Len(T) + 1 : i \in 1 .. Len(T) \/ i = Len(T) + 1
  BY <1>1
<1>5. \A i \in 1 .. Len(T) : T[i] # t
  BY <1>1, <1>2 DEF Range
<1>6. NoneTwice'
  BY <1>1, <1>2, <1>3, <1>4, <1>5 DEF NoneTwice
<1>7. Range(transactions') = Range(T) \cup {t}
  <2>1. 1 .. Len(T) + 1 = (1 .. Len(T)) \cup {Len(T) + 1}
    BY <1>1
  <2> QED  BY <1>1, <1>2, <2>1 DEF Range
<1> QED
  BY <1>1, <1>2, <1>6, <1>7 DEF t

LEMMA QueueStays ==
    ASSUME ListInv, UNCHANGED transactions
    PROVE  QueueShrinks
BY DEF QueueShrinks, ListInv, AdapteeTypeOK, NoneTwice
-----------------------------------------------------------------------------
(***************************************************************************)
(* What the service does.                                                  *)
(***************************************************************************)
\* Every way out of a call.
LEMMA EndGoesOn ==
    ASSUME IInv, NEW ended \in Ended, call' = None, direction' = direction,
           state' = IF call = None THEN state ELSE [state EXCEPT ![call] = ended]
    PROVE  CallsGoOn
<1>1. \A c \in Calls : state'[c] = IF c = call THEN ended ELSE state[c]
  BY NoneAssumption DEF IInv, TypeOK
<1>2. ended \notin {"unborn", "answering"}
  BY DEF Ended
<1>3. \A c \in Calls : state[c] = "unborn" => c # call
  BY NoneAssumption DEF IInv, CallInv, Ringing
<1> QED
  BY <1>1, <1>2, <1>3 DEF CallsGoOn

LEMMA FailedCallGoesOn ==
    ASSUME IInv, HandleFailedCall
    PROVE  CallsGoOn /\ call' = None
<1>1. "localFailure" \in Ended
  BY DEF Ended
<1> QED
  BY <1>1, EndGoesOn DEF HandleFailedCall, TerminateCall

\* Steps that leave every call as it is.
LEMMA SameCallsGoOn ==
    ASSUME direction' = direction, state' = state, call' = call \/ call' = None
    PROVE  CallsGoOn
BY DEF CallsGoOn

LEMMA MessageBeginsNoChain ==
    ASSUME IInv, NEW c \in Calls, ReceivedMessage(c)
    PROVE  NoChainBegins
<1>1. CASE UNCHANGED step
  BY <1>1 DEF NoChainBegins
<1>2. ASSUME NEW p \in Contacts, HandleReceivedOffer(c, p) PROVE NoChainBegins
  <2>1. state[c] = "unborn" /\ (step' = step \/ step' = [step EXCEPT ![c] = "iceServers"])
    BY <1>2 DEF HandleReceivedOffer, HandleLocalBusyCall
  <2> QED  BY <2>1 DEF NoChainBegins, IInv, TypeOK
<1> QED
  BY <1>1, <1>2 DEF ReceivedMessage, HandleReceivedAnswer, HandleRemoteAddedIceCandidate,
                    ReceivedHangup, HandleRemoteHangup, HandleRemoteBusy

LEMMA ChainBeginsNoOther ==
    ASSUME IInv, NEW c \in Calls, ChainStep(c)
    PROVE  NoChainBegins
<1>1. CASE AppCrashes
  BY <1>1 DEF AppCrashes, NoChainBegins
<1>2. CASE UNCHANGED step
  BY <1>2 DEF NoChainBegins
<1>3. ASSUME NEW to, Advance(c, to), step[c] # "none" PROVE NoChainBegins
  BY <1>3 DEF Advance, NoChainBegins, IInv, TypeOK
<1>4. AppCrashes \/ UNCHANGED step \/ (step[c] # "none" /\ \E to : Advance(c, to))
  BY DEF ChainStep, GotIceServers, Negotiated, NegotiationFailed, OfferCreated, SendOffer,
         SendAnswer, MessageSent, SendingFailed, ConnectingTimedOut, ChainFailed,
         BackgroundTaskExpired, OnlyAdvance
<1> QED
  BY <1>1, <1>2, <1>3, <1>4

LEMMA OthersBeginNoChain ==
    /\ UNCHANGED step => NoChainBegins
    /\ Callback \/ HandleAnswerCall => NoChainBegins
<1>1. UNCHANGED step => NoChainBegins
  BY DEF NoChainBegins
<1>2. ASSUME FulfillCallConnectedPromise PROVE NoChainBegins
  BY <1>2 DEF FulfillCallConnectedPromise, NoChainBegins
<1>3. Callback \/ HandleAnswerCall => UNCHANGED step \/ FulfillCallConnectedPromise
  BY DEF Callback, PeerConnectionClientIceConnected, PeerConnectionClientIceFailed,
         HandleLocalAddedIceCandidate, DataChannelConnected, DataChannelHangup,
         HandleRemoteHangup, DataChannelVideoStreamingStatus, HandleAnswerCall,
         HandleConnectedCall
<1> QED
  BY <1>1, <1>2, <1>3

LEMMA MessageGoesOn ==
    ASSUME IInv, NEW c \in Calls, ReceivedMessage(c)
    PROVE  CallsGoOn
<1> USE NoneAssumption
<1>1. CASE HandleFailedCall
  BY <1>1, FailedCallGoesOn
<1>2. ASSUME NEW p \in Contacts, HandleReceivedOffer(c, p) PROVE CallsGoOn
  <2>1. /\ state[c] = "unborn" /\ call # c
        /\ direction' = [direction EXCEPT ![c] = "incoming"]
        /\ state' = [state EXCEPT ![c] = "answering"]
        /\ call' = call \/ (call = None /\ call' = c)
    BY <1>2 DEF HandleReceivedOffer, HandleLocalBusyCall, BecomesCurrent,
                IInv, CallInv, Ringing
  <2>2. /\ direction'[c] = "incoming" /\ state'[c] = "answering"
        /\ \A d \in Calls \ {c} : direction'[d] = direction[d] /\ state'[d] = state[d]
    BY <2>1 DEF IInv, TypeOK
  <2>3. call' # None /\ call' = call => call \in Calls \ {c}
    BY <2>1 DEF IInv, TypeOK
  <2> QED  BY <2>1, <2>2, <2>3 DEF CallsGoOn
<1>3. CASE HandleReceivedAnswer(c) /\ ~HandleFailedCall
  <2>1. direction' = direction /\ state' = state /\ call' = call
    BY <1>3 DEF HandleReceivedAnswer
  <2> QED  BY <2>1, SameCallsGoOn
<1>4. CASE HandleRemoteAddedIceCandidate(c) /\ ~HandleFailedCall
  <2>1. direction' = direction /\ state' = state /\ call' = call
    BY <1>4 DEF HandleRemoteAddedIceCandidate
  <2> QED  BY <2>1, SameCallsGoOn
<1>5. CASE (HandleRemoteHangup \/ HandleRemoteBusy(c)) /\ ~HandleFailedCall
  <2>1. \E ended \in Ended : /\ call # None /\ call' = None /\ direction' = direction
                             /\ state' = [state EXCEPT ![call] = ended]
    BY <1>5 DEF HandleRemoteHangup, HandleRemoteBusy, TerminateCall, Ended
  <2> QED  BY <2>1, EndGoesOn
<1> QED
  BY <1>1, <1>2, <1>3, <1>4, <1>5 DEF ReceivedMessage, ReceivedHangup

LEMMA ChainGoesOn ==
    ASSUME IInv, NEW c \in Calls, ChainStep(c)
    PROVE  CallsGoOn /\ (UnwrapsNil(c) => call' = None)
<1>1. CASE HandleFailedCall
  BY <1>1, FailedCallGoesOn
<1>2. CASE ~HandleFailedCall
  <2>1. direction' = direction /\ state' = state /\ (call' = call \/ call' = None)
    BY <1>2 DEF ChainStep, GotIceServers, Negotiated, NegotiationFailed, OfferCreated, SendOffer,
                SendAnswer, MessageSent, SendingFailed, ConnectingTimedOut, ChainFailed,
                BackgroundTaskExpired, OnlyAdvance, HandleTimeout, AppCrashes, TerminateCall
  <2>2. UnwrapsNil(c) => call' = None
    BY DEF UnwrapsNil, ChainStep, GotIceServers, Negotiated, NegotiationFailed, OfferCreated,
           SendOffer, SendAnswer, MessageSent, SendingFailed, ConnectingTimedOut, ChainFailed,
           BackgroundTaskExpired, AppCrashes, TerminateCall
  <2> QED  BY <2>1, <2>2, SameCallsGoOn
<1> QED
  BY <1>1, <1>2

LEMMA CallbackGoesOn ==
    ASSUME IInv, ListInv, Callback
    PROVE  CallsGoOn
<1> USE NoneAssumption
<1>1. CASE HandleFailedCall
  BY <1>1, FailedCallGoesOn
<1>2. CASE PeerConnectionClientIceConnected /\ ~HandleFailedCall
  <2>1. /\ call \in Calls /\ call # None
        /\ state[call] = "answering" => direction[call] = "incoming"
        /\ direction[call] = "incoming" =>
             state[call] \in {"answering", "localRinging", "connected"}
    BY <1>2 DEF PeerConnectionClientIceConnected, ListInv, CurrentIsListed, ShownOnceRinging,
                IInv, TypeOK
  <2>2. /\ direction' = direction /\ call' = call
        /\ state' = [state EXCEPT ![call] = CASE @ = "dialing" -> "remoteRinging"
                                               [] @ = "answering" -> "localRinging"
                                               [] OTHER -> @]
    BY <1>2 DEF PeerConnectionClientIceConnected
  <2>3. state \in [Calls -> CallState \cup {"unborn"}] /\ state[call] # "unborn"
    BY <2>1 DEF IInv, TypeOK, CallInv, Ringing
  <2> QED  BY <2>1, <2>2, <2>3 DEF CallsGoOn
<1>3. CASE DataChannelConnected /\ ~HandleFailedCall
  <2>1. /\ call \in Calls /\ call # None /\ direction[call] = "outgoing"
        /\ direction' = direction /\ call' = call
        /\ state' = [state EXCEPT ![call] = "connected"]
    BY <1>3 DEF DataChannelConnected, CallbackIn, HandleConnectedCall, IInv, TypeOK
  <2>2. state \in [Calls -> CallState \cup {"unborn"}] /\ state[call] # "unborn"
    BY <2>1 DEF IInv, TypeOK, CallInv, Ringing
  <2> QED  BY <2>1, <2>2 DEF CallsGoOn
<1>4. CASE DataChannelHangup /\ ~HandleFailedCall
  <2>1. /\ call # None /\ call' = None /\ direction' = direction
        /\ state' = [state EXCEPT ![call] = "remoteHangup"]
    BY <1>4 DEF DataChannelHangup, CallbackIn, HandleRemoteHangup, TerminateCall
  <2>2. "remoteHangup" \in Ended
    BY DEF Ended
  <2> QED  BY <2>1, <2>2, EndGoesOn
<1>5. CASE HandleLocalAddedIceCandidate /\ ~HandleFailedCall
  <2>1. direction' = direction /\ state' = state /\ call' = call
    BY <1>5 DEF HandleLocalAddedIceCandidate
  <2> QED  BY <2>1, SameCallsGoOn
<1>6. CASE /\ \E enabled \in BOOLEAN : DataChannelVideoStreamingStatus(enabled)
           /\ ~HandleFailedCall
  <2>1. direction' = direction /\ state' = state /\ call' = call
    BY <1>6 DEF DataChannelVideoStreamingStatus
  <2> QED  BY <2>1, SameCallsGoOn
<1> QED
  BY <1>1, <1>2, <1>3, <1>4, <1>5, <1>6 DEF Callback, PeerConnectionClientIceFailed

LEMMA HandlersGoOn ==
    ASSUME IInv
    PROVE  /\ \A c \in Calls : HandleLocalHungupCall(c) => CallsGoOn /\ call' = None
           /\ \A on \in BOOLEAN : SetIsMuted(on) \/ SetHasLocalVideo(on) =>
                CallsGoOn /\ ~StartsRinging /\ call' \in {call, None}
<1>1. ASSUME NEW c \in Calls, HandleLocalHungupCall(c) PROVE CallsGoOn /\ call' = None
  <2>1. CASE HandleFailedCall
    BY <2>1, FailedCallGoesOn
  <2>2. CASE ~HandleFailedCall
    <3>1. /\ call = c /\ call # None /\ call' = None /\ direction' = direction
          /\ state' = [state EXCEPT ![call] = "localHangup"]
      BY <1>1, <2>2, NoneAssumption DEF HandleLocalHungupCall, TerminateCall
    <3>2. "localHangup" \in Ended
      BY DEF Ended
    <3> QED  BY <3>1, <3>2, EndGoesOn
  <2> QED  BY <2>1, <2>2
<1>2. ASSUME NEW on \in BOOLEAN, SetIsMuted(on) \/ SetHasLocalVideo(on)
      PROVE  CallsGoOn /\ ~StartsRinging /\ call' \in {call, None}
  <2>1. CASE HandleFailedCall
    <3>1. state' = IF call = None THEN state ELSE [state EXCEPT ![call] = "localFailure"]
      BY <2>1 DEF HandleFailedCall
    <3>2. ~StartsRinging
      BY <3>1 DEF StartsRinging, IInv, TypeOK
    <3> QED  BY <2>1, <3>2, FailedCallGoesOn
  <2>2. CASE ~HandleFailedCall
    <3>1. direction' = direction /\ state' = state /\ call' = call
      BY <1>2, <2>2 DEF SetIsMuted, SetHasLocalVideo
    <3> QED  BY <3>1, SameCallsGoOn DEF StartsRinging
  <2> QED  BY <2>1, <2>2
<1> QED
  BY <1>1, <1>2
-----------------------------------------------------------------------------
(***************************************************************************)
(* The steps of the composition.                                           *)
(***************************************************************************)
LEMMA EndingIsCurrent ==
    /\ \A states : Ending(states) \subseteq {call}
    /\ call' # None => \A states : Ending(states) = {}
BY DEF Ending

LEMMA NotifiedGoesOn ==
    ASSUME ListInv, Notified
    PROVE  QueueShrinks /\ ListGoesOn
<1>1. QueueShrinks
  BY QueueStays DEF Notified
<1>2. calls' \subseteq calls /\ \A c \in calls : c \in calls' \/ (c = call /\ call' = None)
  BY EndingIsCurrent DEF Notified, FailCall
<1>3. CASE StartsRinging
  <2>1. \/ known' = known \cup {call} /\ reporting' = reporting \cup {call}
        \/ known' = known /\ reporting' = reporting
    BY <1>3 DEF Notified, ReportIncomingCall
  <2> QED  BY <1>1, <1>2, <1>3, <2>1 DEF ListGoesOn, Notified, ListInv, AdapteeTypeOK
<1>4. CASE ~StartsRinging
  <2>1. known' = known \ ReportedEnd /\ reporting' = reporting
    BY <1>4 DEF Notified
  <2>2. \A c \in known : c \in known' \/ (c = call /\ call' = None)
    BY <2>1, EndingIsCurrent DEF ReportedEnd
  <2> QED  BY <1>1, <1>2, <2>1, <2>2 DEF ListGoesOn, Notified, ListInv, AdapteeTypeOK
<1> QED
  BY <1>3, <1>4

LEMMA NewAdapteeGoesOn ==
    ASSUME NewAdaptee, call' = None
    PROVE  QueueShrinks /\ ListGoesOn
<1>1. <<>> \in Seq(Actions \X Calls) /\ Len(<<>>) = 0 /\ DOMAIN <<>> = {}
  OBVIOUS
<1>2. transactions' = <<>>
  BY DEF NewAdaptee
<1>3. NoneTwice'
  BY <1>1, <1>2 DEF NoneTwice
<1>4. Range(transactions') = {}
  BY <1>1, <1>2 DEF Range
<1> QED
  BY <1>1, <1>2, <1>3, <1>4 DEF NewAdaptee, QueueShrinks, ListGoesOn

LEMMA ServiceKeeps ==
    ASSUME IInv, ListInv, Service
    PROVE  IInv' /\ ListInv'
<1>1. ASSUME NEW c \in Calls, ReceivedMessage(c), Notified PROVE IInv' /\ ListInv'
  BY <1>1, ReceivedMessageInv, MessageGoesOn, MessageBeginsNoChain, NotifiedGoesOn, ListInvKept
<1>2. ASSUME NEW c \in Calls, ChainStep(c), Notified PROVE IInv' /\ ListInv'
  BY <1>2, ChainStepInv, ChainGoesOn, ChainBeginsNoOther, NotifiedGoesOn, ListInvKept
<1>3. ASSUME NEW c \in Calls, UnwrapsNil(c), ChainStep(c), NewAdaptee PROVE IInv' /\ ListInv'
  BY <1>3, ChainStepInv, ChainGoesOn, ChainBeginsNoOther, NewAdapteeGoesOn, ListInvKept
<1>4. CASE Callback /\ Notified
  BY <1>4, CallbackInv, CallbackGoesOn, OthersBeginNoChain, NotifiedGoesOn, ListInvKept
<1>5. CASE DidEnterBackgroundOrBecomeActive /\ UNCHANGED adapteeVars
  <2>1. CallsGoOn /\ NoChainBegins
    BY <1>5, SameCallsGoOn, OthersBeginNoChain DEF DidEnterBackgroundOrBecomeActive
  <2>2. QueueShrinks /\ ListGoesOn
    BY <1>5, QueueStays DEF adapteeVars, ListGoesOn, ListInv, AdapteeTypeOK
  <2> QED  BY <1>5, <2>1, <2>2, DidEnterBackgroundOrBecomeActiveInv, ListInvKept
<1>6. CASE CreateCallUIAdapter /\ NewAdaptee
  <2>1. CallsGoOn /\ NoChainBegins /\ call' = None
    BY <1>6, SameCallsGoOn, OthersBeginNoChain DEF CreateCallUIAdapter, TerminateCall
  <2> QED  BY <1>6, <2>1, CreateCallUIAdapterInv, NewAdapteeGoesOn, ListInvKept
<1> QED
  BY <1>1, <1>2, <1>3, <1>4, <1>5, <1>6 DEF Service

\* The adaptee's handlers that only turn the audio session on or off.
LEMMA AudioSessionInv ==
    ASSUME CallKit, IInv, audioSession' \in BOOLEAN,
           UNCHANGED <<callVars, serviceVars, isMuted, hasLocalVideo, audioEnabled, videoEnabled,
                       step, client, exchanged, foreground>>
    PROVE  IInv'
<1>1. TypeOK'
  BY DEF IInv, TypeOK
<1>2. CallInv' /\ ReadyForNewCall' /\ ClientBelongsToCall'
  BY DEF IInv, CallInv, ReadyForNewCall, ClientBelongsToCall, Answered
<1>3. RingsOnlyAfterAnswer' /\ RecordTellsOutcome' /\ IceHeldUntilAnswer'
  BY DEF IInv, RingsOnlyAfterAnswer, RecordTellsOutcome, IceHeldUntilAnswer, Answered
<1>4. TracksObeyUser' /\ NoRecordingBeforeConnected'
  BY DEF IInv, TracksObeyUser, NoRecordingBeforeConnected
<1> QED
  BY <1>1, <1>2, <1>3, <1>4 DEF IInv

LEMMA Performed ==
    ASSUME ListInv, NEW action \in Actions, NEW c \in Calls, Performs(action, c)
    PROVE  /\ QueueShrinks /\ c \in calls
           /\ Queued(action, c) /\ <<action, c>> \notin Range(transactions')
BY TakenOff DEF Performs, Queued
-----------------------------------------------------------------------------
(***************************************************************************)
(* The provider's delegate.                                                *)
(***************************************************************************)
\* Placing a call that was created when the user asked for it.
LEMMA StartedCallInv ==
    ASSUME IInv, NEW c \in Calls, state[c] = "dialing", direction[c] = "outgoing",
           step[c] = "none", HandleOutgoingCall(c, contact[c]), UNCHANGED <<direction, contact>>
    PROVE  IInv'
<1> USE NoneAssumption DEF HandleOutgoingCall, BecomesCurrent
<1>1. CASE call # None
  <2>1. /\ state' \in [Calls -> CallState \cup {"unborn"}] /\ state'[c] = "localFailure"
        /\ \A d \in Calls \ {c} : state'[d] = state[d]
    BY <1>1 DEF IInv, TypeOK, CallState, Ended
  <2>2. UNCHANGED <<callRecord, savedRecords, serviceVars, mediaVars, step, client,
                    exchanged, foreground>>
    BY <1>1
  <2>3. TypeOK'
    <3>1. \A d \in Calls : /\ state'[d] = "unborn" <=> state[d] = "unborn"
                           /\ state[d] = "unborn" => step[d] = "none" /\ callRecord[d] = "none"
      BY <2>1 DEF IInv, TypeOK
    <3> QED  BY <2>1, <2>2, <3>1 DEF IInv, TypeOK
  <2>4. CallInv' /\ ReadyForNewCall' /\ ClientBelongsToCall'
    BY <2>1, <2>2 DEF IInv, TypeOK, CallInv, ReadyForNewCall, ClientBelongsToCall, Answered
  <2>5. RingsOnlyAfterAnswer' /\ IceHeldUntilAnswer'
    BY <2>1, <2>2 DEF IInv, RingsOnlyAfterAnswer, IceHeldUntilAnswer, Answered
  <2>6. RecordTellsOutcome'
    BY <2>1, <2>2 DEF IInv, TypeOK, RecordTellsOutcome, Ringing
  <2>7. TracksObeyUser' /\ NoRecordingBeforeConnected'
    <3>1. call # c \/ ~(state[call] = "connected")
      OBVIOUS
    <3>2. call \in Calls
      BY <1>1 DEF IInv, TypeOK
    <3> QED  BY <2>1, <2>2, <3>1, <3>2 DEF IInv, TracksObeyUser, NoRecordingBeforeConnected
  <2> QED  BY <2>3, <2>4, <2>5, <2>6, <2>7 DEF IInv
<1>2. CASE call = None
  <2>1. /\ state' \in [Calls -> CallState \cup {"unborn"}]
        /\ state'[c] \in {"dialing", "localFailure"}
        /\ \A d \in Calls \ {c} : state'[d] = state[d]
    BY <1>2 DEF IInv, TypeOK, CallState, Ringing, Ended
  <2>2. /\ callRecord' \in [Calls -> Records] /\ callRecord'[c] = "outgoingIncomplete"
        /\ \A d \in Calls \ {c} : callRecord'[d] = callRecord[d]
        /\ savedRecords' \in [Calls -> Nat] /\ savedRecords'[c] # 0
        /\ \A d \in Calls \ {c} : savedRecords'[d] = savedRecords[d]
    BY <1>2 DEF IInv, TypeOK, Records
  <2>3. TypeOK'
    <3>1. /\ step' \in [Calls -> Steps]
          /\ \A d \in Calls \ {c} : step'[d] = step[d]
      BY <1>2 DEF IInv, TypeOK, Steps
    <3>2. \A d \in Calls : /\ state'[d] = "unborn" <=> direction'[d] = "none"
                           /\ state'[d] = "unborn" <=> contact'[d] = None
      BY <2>1 DEF IInv, TypeOK
    <3>3. \A d \in Calls : /\ state'[d] = "unborn" => step'[d] = "none" /\ callRecord'[d] = "none"
                           /\ callRecord'[d] = "none" <=> savedRecords'[d] = 0
      BY <2>1, <2>2, <3>1 DEF IInv, TypeOK
    <3>4. /\ call' \in Calls \cup {None} /\ thread' \in Contacts \cup {None}
          /\ sendIceUpdatesImmediately' \in BOOLEAN /\ pendingIceUpdateMessages' \subseteq Calls
      <4>1. /\ call' = c /\ thread' = contact[c]
            /\ sendIceUpdatesImmediately' = FALSE /\ pendingIceUpdateMessages' = {}
        BY <1>2
      <4>2. contact[c] \in Contacts \cup {None}
        BY DEF IInv, TypeOK
      <4> QED  BY <4>1, <4>2
    <3>5. /\ peerConnectionClient' \in Calls \cup {None}
          /\ fulfillCallConnectedPromise' \in Calls \cup {None}
          /\ isRemoteVideoEnabled' \in BOOLEAN
          /\ isMuted' \in BOOLEAN /\ hasLocalVideo' \in BOOLEAN
          /\ audioEnabled' \in BOOLEAN /\ videoEnabled' \in BOOLEAN
          /\ audioSession' \in BOOLEAN /\ foreground' \in BOOLEAN
          /\ client' \in [Calls -> ClientStates]
      BY <1>2 DEF IInv, TypeOK
    <3>6. /\ direction' \in [Calls -> {"none", "outgoing", "incoming"}]
          /\ contact' \in [Calls -> Contacts \cup {None}]
          /\ exchanged' \subseteq MessageTypes \X Calls
      <4>1. UNCHANGED <<direction, contact, exchanged>>
        BY <1>2
      <4> QED  BY <4>1 DEF IInv, TypeOK
    <3> QED  BY <2>1, <2>2, <3>1, <3>2, <3>3, <3>4, <3>5, <3>6 DEF TypeOK
  <2>4. CallInv'
    BY <1>2, <2>1, <2>2 DEF IInv, TypeOK, CallInv, Answered, Ringing
  <2>5. ReadyForNewCall' /\ ClientBelongsToCall'
    <3>1. \A d \in Calls : step[d] \in AfterSending => step'[d] \in AfterSending
      BY <1>2 DEF IInv, TypeOK, AfterSending
    <3> QED
      BY <1>2, <3>1 DEF IInv, TypeOK, ReadyForNewCall, ClientBelongsToCall, AfterSending
  <2>6. RingsOnlyAfterAnswer' /\ RecordTellsOutcome'
    BY <1>2, <2>1, <2>2 DEF IInv, TypeOK, RingsOnlyAfterAnswer, RecordTellsOutcome, Answered, Ringing
  <2>7. IceHeldUntilAnswer'
    BY <1>2 DEF IInv, IceHeldUntilAnswer, Answered
  <2>8. TracksObeyUser' /\ NoRecordingBeforeConnected'
    BY <1>2 DEF IInv, ReadyForNewCall, TracksObeyUser, NoRecordingBeforeConnected
  <2> QED  BY <2>3, <2>4, <2>5, <2>6, <2>7, <2>8 DEF IInv
<1> QED
  BY <1>1, <1>2

LEMMA PerformStartCallKeeps ==
    ASSUME IInv, ListInv, NEW c \in Calls, PerformStartCall(c)
    PROVE  IInv' /\ ListInv'
<1> USE NoneAssumption
<1>1. /\ QueueShrinks /\ c \in calls /\ Queued("start", c) /\ ~Queued("start", c)'
  BY Performed DEF PerformStartCall, Actions, Queued
<1>2. /\ direction[c] = "outgoing" /\ state[c] = "dialing" /\ call # c /\ c \in known
      /\ step[c] = "none"
  BY <1>1 DEF ListInv, StartsAreNew
<1>3. IInv'
  BY <1>2, StartedCallInv DEF PerformStartCall
<1>4. /\ UNCHANGED <<direction, contact, calls, reporting, known>> /\ willActivate' = TRUE
      /\ state'[c] \in {"dialing", "localFailure"}
      /\ \A d \in Calls \ {c} : state'[d] = state[d]
      /\ call' = IF call = None THEN c ELSE call
      /\ \A a, d : Queued(a, d)' => Queued(a, d)
  BY <1>1 DEF PerformStartCall, HandleOutgoingCall, BecomesCurrent, IInv, TypeOK, Queued,
              QueueShrinks
<1>5. AdapteeTypeOK' /\ NoneTwice'
  BY <1>1, <1>4 DEF QueueShrinks, ListInv, AdapteeTypeOK
<1>6. Shown' \subseteq Shown
  BY <1>4 DEF Shown
<1>7. \A d \in Shown : d \in Calls /\ state[d] \notin {"unborn", "answering"}
  BY DEF ListInv, AdapteeTypeOK, ShownOnceRinging, Shown
<1>8. ShownOnceRinging'
  <2>1. \A d \in Shown' : state'[d] \notin {"unborn", "answering"}
    BY <1>4, <1>6, <1>7
  <2>2. \A d \in Calls : state'[d] = "answering" => direction'[d] = "incoming"
    BY <1>4 DEF ListInv, ShownOnceRinging
  <2> QED  BY <2>1, <2>2 DEF ShownOnceRinging
<1>9. StartsAreNew'
  <2>1. \A d \in Calls \ {c} : step'[d] = step[d]
    BY DEF PerformStartCall, HandleOutgoingCall, IInv, TypeOK
  <2> QED  BY <1>1, <1>4, <2>1 DEF ListInv, StartsAreNew
<1>10. AnsweredCameIn'
  BY <1>4 DEF ListInv, AnsweredCameIn
<1>11. CurrentIsListed'
  <2>1. CASE call = None
    BY <1>1, <1>2, <1>4, <2>1 DEF CurrentIsListed
  <2>2. CASE call # None
    <3>1. call' = call /\ state'[call] = state[call]
      BY <1>2, <1>4, <2>2 DEF IInv, TypeOK
    <3> QED  BY <1>4, <2>2, <3>1 DEF ListInv, CurrentIsListed
  <2> QED  BY <2>1, <2>2
<1> QED
  BY <1>3, <1>5, <1>8, <1>9, <1>10, <1>11 DEF ListInv

LEMMA PerformAnswerCallKeeps ==
    ASSUME CallKit, IInv, ListInv, NEW c \in Calls, PerformAnswerCall(c)
    PROVE  IInv' /\ ListInv'
<1> USE NoneAssumption
<1>1. QueueShrinks /\ c \in calls /\ Queued("answer", c)
  BY Performed DEF PerformAnswerCall, Actions
<1>2. ListGoesOn
  <2>1. /\ calls' = calls \ Ending({"localFailure"}) /\ known' = known \ ReportedEnd
        /\ reporting' = reporting /\ willActivate' = TRUE
    BY DEF PerformAnswerCall, FailCall
  <2> QED  BY <2>1, EndingIsCurrent DEF ReportedEnd, ListGoesOn
<1>3. CASE call = None /\ HandleFailedCall /\ UNCHANGED <<step, exchanged>>
  BY <1>1, <1>2, <1>3, SameFrame, FailedCallInv, FailedCallGoesOn, OthersBeginNoChain,
     ListInvKept
<1>4. CASE call = c /\ HandleAnswerCall /\ (peerConnectionClient # None => UNCHANGED audioSession)
  <2>1. direction[call] = "incoming" /\ state[call] \in {"answering", "localRinging", "connected"}
    BY <1>1, <1>4 DEF ListInv, AnsweredCameIn, CurrentIsListed
  <2>2. state[call] # "answering"
    BY <1>1, <1>4 DEF ListInv, ShownOnceRinging, Shown
  <2>3. peerConnectionClient = None \/ audioSession' \in BOOLEAN
    BY <1>4 DEF IInv, TypeOK
  <2>4. IInv'
    BY <1>4, <2>1, <2>2, <2>3, HandleAnswerCallInv
  <2>5. CallsGoOn
    <3>1. CASE peerConnectionClient = None
      BY <1>4, <3>1, FailedCallGoesOn DEF HandleAnswerCall
    <3>2. CASE peerConnectionClient # None
      <4>1. /\ direction' = direction /\ call' = call
            /\ state' = [state EXCEPT ![call] = "connected"]
        BY <1>4, <3>2 DEF HandleAnswerCall, HandleConnectedCall
      <4>2. state \in [Calls -> CallState \cup {"unborn"}] /\ state[call] # "unborn"
        BY <1>4 DEF IInv, TypeOK, CallInv, Ringing
      <4> QED  BY <1>1, <1>4, <4>1, <4>2 DEF CallsGoOn
    <3> QED  BY <3>1, <3>2
  <2> QED  BY <1>1, <1>2, <1>4, <2>4, <2>5, OthersBeginNoChain, ListInvKept
<1>5. CASE call \notin {None, c} /\ UNCHANGED vars
  <2>1. CallsGoOn
    BY <1>5, SameCallsGoOn
  <2> QED  BY <1>1, <1>2, <1>5, <2>1, SameFrame, FrameInv, OthersBeginNoChain, ListInvKept
<1> QED
  BY <1>3, <1>4, <1>5 DEF PerformAnswerCall

LEMMA PerformEndCallKeeps ==
    ASSUME IInv, ListInv, NEW c \in Calls, PerformEndCall(c)
    PROVE  IInv' /\ ListInv'
<1>1. QueueShrinks
  BY Performed DEF PerformEndCall, Actions
<1>2. CallsGoOn /\ NoChainBegins /\ call' = None /\ IInv'
  BY HandleLocalHungupCallInv, HandlersGoOn, OthersBeginNoChain
     DEF PerformEndCall, HandleLocalHungupCall
<1>3. ListGoesOn
  <2>1. /\ calls' = calls \ ({c} \cup Ending({"localFailure"}))
        /\ known' = known \ ({c} \cup ReportedEnd)
        /\ reporting' = reporting /\ willActivate' = willActivate
    BY DEF PerformEndCall
  <2> QED  BY <1>2, <2>1, EndingIsCurrent DEF ReportedEnd, ListGoesOn, ListInv, AdapteeTypeOK
<1> QED
  BY <1>1, <1>2, <1>3, ListInvKept

LEMMA PerformSetMutedKeeps ==
    ASSUME IInv, ListInv, NEW c \in Calls, NEW muted \in BOOLEAN, PerformSetMuted(c, muted)
    PROVE  IInv' /\ ListInv'
<1>1. QueueShrinks
  BY Performed DEF PerformSetMuted, Actions
<1>2. CallsGoOn /\ NoChainBegins /\ IInv'
  BY SetIsMutedInv, HandlersGoOn, OthersBeginNoChain DEF PerformSetMuted, SetIsMuted
<1>3. ListGoesOn
  <2>1. /\ calls' = calls \ Ending({"localFailure"}) /\ known' = known \ ReportedEnd
        /\ reporting' = reporting /\ willActivate' = willActivate
    BY DEF PerformSetMuted, FailCall
  <2> QED  BY <2>1, EndingIsCurrent DEF ReportedEnd, ListGoesOn, ListInv, AdapteeTypeOK
<1> QED
  BY <1>1, <1>2, <1>3, ListInvKept

\* The actions that leave the calls alone.
LEMMA AudioActionsKeep ==
    ASSUME CallKit, IInv, ListInv, (\E c \in Calls : PerformSetHeld(c)) \/ DidActivate
    PROVE  IInv' /\ ListInv'
<1>1. QueueShrinks
  BY Performed, QueueStays DEF PerformSetHeld, DidActivate, Actions
<1>2. /\ UNCHANGED <<callVars, serviceVars, isMuted, hasLocalVideo, audioEnabled, videoEnabled,
                     step, client, exchanged, foreground, calls, reporting, known>>
      /\ willActivate' \in BOOLEAN /\ audioSession' \in BOOLEAN
  BY DEF PerformSetHeld, DidActivate, ListInv, AdapteeTypeOK
<1>3. CallsGoOn /\ NoChainBegins
  BY <1>2, SameCallsGoOn, OthersBeginNoChain
<1>4. ListGoesOn
  BY <1>2 DEF ListGoesOn
<1> QED
  BY <1>1, <1>2, <1>3, <1>4, AudioSessionInv, ListInvKept

LEMMA FailsActionKeeps ==
    ASSUME IInv, ListInv, FailsAction
    PROVE  IInv' /\ ListInv'
<1> DEFINE action == Head(transactions)[1]
           c == Head(transactions)[2]
<1>1. /\ transactions # <<>> /\ transactions' = Tail(transactions) /\ c \notin calls
      /\ known' = IF action = "start" THEN known \ {c} ELSE known
      /\ UNCHANGED <<vars, calls, reporting, willActivate>>
  BY DEF FailsAction
<1>2. Head(transactions) \in Actions \X Calls
  BY <1>1 DEF ListInv, AdapteeTypeOK
<1>3. QueueShrinks /\ Head(transactions) \in Range(transactions)
  BY <1>1, TakenOff
<1>4. c \in Calls /\ (action = "start" => Queued("start", c))
  BY <1>2, <1>3 DEF Queued
<1>5. action = "start" => c # call
  BY <1>4 DEF ListInv, StartsAreNew
<1> HIDE DEF action, c
<1>6. CallsGoOn /\ NoChainBegins
  BY <1>1, SameCallsGoOn, OthersBeginNoChain
<1>7. ListGoesOn
  BY <1>1, <1>5 DEF ListGoesOn, ListInv, AdapteeTypeOK
<1> QED
  BY <1>1, <1>3, <1>6, <1>7, SameFrame, FrameInv, ListInvKept

LEMMA IncomingCallAllowedKeeps ==
    ASSUME IInv, ListInv, NEW c \in Calls, IncomingCallAllowed(c)
    PROVE  IInv' /\ ListInv'
<1>1. QueueShrinks /\ CallsGoOn /\ NoChainBegins
  BY QueueStays, SameCallsGoOn, OthersBeginNoChain DEF IncomingCallAllowed
<1>2. ListGoesOn
  BY DEF IncomingCallAllowed, ListGoesOn, ListInv, AdapteeTypeOK
<1> QED
  BY <1>1, <1>2, SameFrame, FrameInv, ListInvKept DEF IncomingCallAllowed

LEMMA ProviderDidResetKeeps ==
    ASSUME IInv, ListInv, ProviderDidReset
    PROVE  IInv' /\ ListInv'
<1>1. IInv' /\ CallsGoOn /\ NoChainBegins /\ call' = None
  BY SameFrame, FailedCallInv, FailedCallGoesOn, OthersBeginNoChain DEF ProviderDidReset
<1>2. <<>> \in Seq(Actions \X Calls) /\ Len(<<>>) = 0 /\ DOMAIN <<>> = {}
  OBVIOUS
<1>3. transactions' = <<>>
  BY DEF ProviderDidReset
<1>4. NoneTwice' /\ Range(transactions') = {}
  BY <1>2, <1>3 DEF NoneTwice, Range
<1>5. QueueShrinks
  BY <1>2, <1>3, <1>4 DEF QueueShrinks
<1>6. ListGoesOn
  BY <1>1 DEF ProviderDidReset, ListGoesOn
<1> QED
  BY <1>1, <1>5, <1>6, ListInvKept

LEMMA DelegateKeeps ==
    ASSUME CallKit, IInv, ListInv, Delegate
    PROVE  IInv' /\ ListInv'
BY PerformStartCallKeeps, PerformAnswerCallKeeps, PerformEndCallKeeps, PerformSetMutedKeeps,
   AudioActionsKeep, FailsActionKeeps, IncomingCallAllowedKeeps, ProviderDidResetKeeps
   DEF Delegate
-----------------------------------------------------------------------------
(***************************************************************************)
(* The user.                                                               *)
(***************************************************************************)
\* The call is created, and waits for CallKit to have it placed.
LEMMA CreatedCallInv ==
    ASSUME IInv, NEW c \in Calls, NEW p \in Contacts, call = None, state[c] = "unborn",
           direction' = [direction EXCEPT ![c] = "outgoing"],
           contact' = [contact EXCEPT ![c] = p],
           state' = [state EXCEPT ![c] = "dialing"],
           UNCHANGED <<callRecord, savedRecords, serviceVars, mediaVars, step, client,
                       exchanged, foreground>>
    PROVE  IInv'
<1> USE NoneAssumption
<1>1. /\ state' \in [Calls -> CallState \cup {"unborn"}] /\ state'[c] = "dialing"
      /\ \A d \in Calls \ {c} : state'[d] = state[d]
      /\ direction' \in [Calls -> {"none", "outgoing", "incoming"}]
      /\ direction'[c] = "outgoing"
      /\ \A d \in Calls \ {c} : direction'[d] = direction[d]
      /\ contact' \in [Calls -> Contacts \cup {None}] /\ contact'[c] = p
      /\ \A d \in Calls \ {c} : contact'[d] = contact[d]
  BY DEF IInv, TypeOK, CallState, Ringing
<1>2. step[c] = "none" /\ callRecord[c] = "none" /\ savedRecords[c] = 0
  BY DEF IInv, TypeOK
<1>3. TypeOK'
  <2>1. \A d \in Calls : /\ state'[d] = "unborn" <=> direction'[d] = "none"
                         /\ state'[d] = "unborn" <=> contact'[d] = None
                         /\ state'[d] = "unborn" => step[d] = "none" /\ callRecord[d] = "none"
    BY <1>1 DEF IInv, TypeOK
  <2> QED  BY <1>1, <2>1 DEF IInv, TypeOK
<1>4. CallInv'
  BY <1>1, <1>2 DEF IInv, CallInv, Answered
<1>5. ReadyForNewCall' /\ ClientBelongsToCall'
  BY DEF IInv, ReadyForNewCall, ClientBelongsToCall
<1>6. RingsOnlyAfterAnswer' /\ RecordTellsOutcome'
  BY <1>1, <1>2 DEF IInv, RingsOnlyAfterAnswer, RecordTellsOutcome, Answered
<1>7. IceHeldUntilAnswer'
  <2>1. <<"ice", c>> \notin exchanged
    BY DEF IInv, CallInv, MessageTypes
  <2> QED  BY <1>1, <2>1 DEF IInv, IceHeldUntilAnswer, Answered
<1>8. TracksObeyUser' /\ NoRecordingBeforeConnected'
  BY DEF IInv, TracksObeyUser, NoRecordingBeforeConnected
<1> QED
  BY <1>3, <1>4, <1>5, <1>6, <1>7, <1>8 DEF IInv

LEMMA StartAndShowKeeps ==
    ASSUME IInv, ListInv, NEW c \in Calls, NEW p \in Contacts, StartAndShowOutgoingCall(c, p)
    PROVE  IInv' /\ ListInv'
<1> USE NoneAssumption
<1>1. IInv'
  BY CreatedCallInv DEF StartAndShowOutgoingCall
<1>2. /\ call = None /\ call' = None /\ state[c] = "unborn"
      /\ state'[c] = "dialing" /\ direction'[c] = "outgoing"
      /\ \A d \in Calls \ {c} : state'[d] = state[d] /\ direction'[d] = direction[d]
      /\ calls' = calls \cup {c} /\ UNCHANGED <<reporting, willActivate>>
      /\ known' = known \/ known' = known \cup {c}
      /\ known \subseteq known'
  BY DEF StartAndShowOutgoingCall, IInv, TypeOK
<1>3. /\ transactions' \in Seq(Actions \X Calls) /\ NoneTwice'
      /\ \/ Range(transactions') = Range(transactions)
         \/ Range(transactions') = Range(transactions) \cup {<<"start", c>>} /\ c \in known'
  <2>1. CASE UNCHANGED transactions
    BY <2>1, QueueStays DEF QueueShrinks, ListInv, AdapteeTypeOK
  <2>2. CASE RequestTransaction("start", c) /\ known' = known \cup {c}
    BY <2>2, PutOn DEF Actions
  <2> QED  BY <2>1, <2>2 DEF StartAndShowOutgoingCall
<1>4. \A d \in Shown : d \in Calls \ {c} /\ state[d] # "answering"
  BY <1>2 DEF ListInv, AdapteeTypeOK, ShownOnceRinging, Shown
<1>5. AdapteeTypeOK'
  BY <1>2, <1>3 DEF ListInv, AdapteeTypeOK
<1>6. \A a \in Actions : \A d \in Calls :
        Queued(a, d)' => Queued(a, d) \/ (a = "start" /\ d = c /\ c \in known')
  BY <1>3 DEF Queued
<1>7. ShownOnceRinging'
  <2>1. Shown' \subseteq Shown \cup {c}
    BY <1>2, <1>6 DEF Shown
  <2>2. \A d \in Shown' : state'[d] \notin {"unborn", "answering"}
    BY <1>2, <1>4, <2>1 DEF ListInv, ShownOnceRinging
  <2> QED  BY <1>2, <2>2 DEF ListInv, ShownOnceRinging
<1>8. StartsAreNew' /\ AnsweredCameIn'
  <2>1. "start" \in Actions /\ "answer" \in Actions /\ "start" # "answer"
    BY DEF Actions
  <2>2. \A a \in Actions : ~Queued(a, c)
    BY <1>4 DEF Shown
  <2>3. StartsAreNew'
    <3>1. step' = step /\ step[c] = "none"
      BY <1>2 DEF StartAndShowOutgoingCall, IInv, TypeOK
    <3> QED  BY <1>2, <1>6, <2>1, <2>2, <3>1 DEF ListInv, StartsAreNew
  <2>4. \A d \in reporting : d \in Calls \ {c}
    BY <1>4 DEF Shown
  <2>5. AnsweredCameIn'
    BY <1>2, <1>6, <2>1, <2>2, <2>4 DEF ListInv, AnsweredCameIn
  <2> QED  BY <2>3, <2>5
<1>9. CurrentIsListed'
  BY <1>2 DEF CurrentIsListed
<1> QED
  BY <1>1, <1>3, <1>5, <1>7, <1>8, <1>9 DEF ListInv

LEMMA RequestKeeps ==
    ASSUME IInv, ListInv, NEW c \in Calls, NEW action \in Actions \ {"start"}, Request(action, c)
    PROVE  IInv' /\ ListInv'
<1>1. /\ UNCHANGED <<vars, calls, reporting, known, willActivate>> /\ c \in known
      /\ action = "answer" => direction[c] = "incoming"
  BY DEF Request
<1>2. IInv'
  BY <1>1, SameFrame, FrameInv
<1>3. /\ transactions' \in Seq(Actions \X Calls) /\ NoneTwice'
      /\ Range(transactions') = Range(transactions) \cup {<<action, c>>}
  BY PutOn DEF Request
<1>4. AdapteeTypeOK'
  BY <1>1, <1>3 DEF ListInv, AdapteeTypeOK
<1>5. \A a, d : Queued(a, d)' => Queued(a, d) \/ (a = action /\ d = c)
  BY <1>3 DEF Queued
<1>6. Shown' \subseteq Shown
  BY <1>1, <1>5 DEF Shown
<1>7. ShownOnceRinging'
  BY <1>1, <1>6 DEF ListInv, ShownOnceRinging
<1>8. StartsAreNew' /\ AnsweredCameIn' /\ CurrentIsListed'
  BY <1>1, <1>5 DEF ListInv, StartsAreNew, AnsweredCameIn, CurrentIsListed
<1> QED
  BY <1>2, <1>3, <1>4, <1>7, <1>8 DEF ListInv

LEMMA UserKeeps ==
    ASSUME IInv, ListInv, User
    PROVE  IInv' /\ ListInv'
<1>1. ASSUME NEW c \in Calls, NEW enabled \in BOOLEAN, PressVideo(c, enabled)
      PROVE  IInv' /\ ListInv'
  BY <1>1, SetHasLocalVideoInv, HandlersGoOn, OthersBeginNoChain, NotifiedGoesOn, ListInvKept
     DEF PressVideo, SetHasLocalVideo
<1> QED
  BY <1>1, StartAndShowKeeps, RequestKeeps DEF User

LEMMA CallKitNextInv ==
    ASSUME CallKit
    PROVE  (IInv /\ ListInv) /\ [CallKitNext]_allVars => (IInv /\ ListInv)'
<1> SUFFICES ASSUME IInv, ListInv, [CallKitNext]_allVars PROVE IInv' /\ ListInv'
  OBVIOUS
<1>1. CASE Service \/ Delegate \/ User
  BY <1>1, ServiceKeeps, DelegateKeeps, UserKeeps
<1>2. CASE UNCHANGED allVars
  <2>1. CallsGoOn /\ NoChainBegins /\ QueueShrinks
    BY <1>2, SameCallsGoOn, OthersBeginNoChain, QueueStays DEF allVars, adapteeVars
  <2>2. ListGoesOn
    BY <1>2 DEF allVars, adapteeVars, ListGoesOn, ListInv, AdapteeTypeOK
  <2> QED  BY <1>2, <2>1, <2>2, SameFrame, FrameInv, ListInvKept DEF allVars
<1> QED
  BY <1>1, <1>2 DEF CallKitNext

\* Under CallKit the service's invariant still holds, and so does the one that relates
\* the adaptee's list, CallKit's screen and the transactions to the calls.
THEOREM CallKitInvariance ==
    ASSUME CallKit
    PROVE  CallKitSpec => [](IInv /\ ListInv)
<1>1. CallKitInit => IInv /\ ListInv
  BY CallKitInitInv
<1>2. (IInv /\ ListInv) /\ [CallKitNext]_allVars => (IInv /\ ListInv)'
  BY CallKitNextInv
<1> HIDE DEF vars
<1> QED
  BY <1>1, <1>2, PTL DEF CallKitSpec

\* What the service promises of its calls it keeps under CallKit, although transactions
\* are performed late, refused, failed, or lost in a reset.
THEOREM ServiceKeepsItsPromises ==
    ASSUME CallKit
    PROVE  CallKitSpec => []CallKitInv
<1>1. IInv /\ ListInv => CallKitInv
  BY DEF IInv, ListInv, AdapteeTypeOK, CallKitInv, CallKitTypeOK
<1>2. CallKitSpec => [](IInv /\ ListInv)
  BY CallKitInvariance
<1> QED
  BY <1>1, <1>2, PTL

\* A connected call is listed and shown, so that the user can end it.
THEOREM ConnectedIsListed ==
    ASSUME CallKit
    PROVE  CallKitSpec => []ConnectedCallCanBeEnded
<1>1. IInv /\ ListInv => ConnectedCallCanBeEnded
  BY DEF ListInv, CurrentIsListed, ConnectedCallCanBeEnded
<1>2. CallKitSpec => [](IInv /\ ListInv)
  BY CallKitInvariance
<1> QED
  BY <1>1, <1>2, PTL

\* No transaction that was requested of an old call, nor anything else, changes a call
\* that is over.
THEOREM OverIsOverUnderCallKit ==
    ASSUME CallKit
    PROVE  CallKitSpec => EndedStaysEnded
<1>1. ASSUME IInv, ListInv, CallKitNext, NEW c \in Calls, state[c] \in Ended, call # c
      PROVE  state'[c] = state[c]
  <2>1. state[c] \notin {"unborn", "dialing"}
    BY <1>1 DEF Ended
  <2>2. CASE CallsGoOn
    BY <1>1, <2>1, <2>2 DEF CallsGoOn
  <2>3. CASE Service
    BY <1>1, <2>2, <2>3, MessageGoesOn, ChainGoesOn, CallbackGoesOn, SameCallsGoOn
       DEF Service, DidEnterBackgroundOrBecomeActive, CreateCallUIAdapter, TerminateCall
  <2>4. ASSUME NEW d \in Calls, PerformStartCall(d) PROVE state'[c] = state[c]
    <3>1. state[d] = "dialing"
      BY <1>1, <2>4, Performed DEF PerformStartCall, Actions, ListInv, StartsAreNew
    <3> QED  BY <1>1, <2>1, <2>4, <3>1 DEF PerformStartCall, HandleOutgoingCall, IInv, TypeOK
  <2>5. ASSUME NEW d \in Calls, PerformAnswerCall(d) PROVE state'[c] = state[c]
    BY <1>1, <2>5, HandlersState, FailedCallState, <2>1 DEF PerformAnswerCall, OnlyCurrentChanges
  <2>6. ASSUME NEW d \in Calls, PerformEndCall(d) PROVE state'[c] = state[c]
    BY <1>1, <2>2, <2>6, HandlersGoOn DEF PerformEndCall
  <2>7. ASSUME NEW d \in Calls, NEW on \in BOOLEAN, PerformSetMuted(d, on) \/ PressVideo(d, on)
        PROVE  state'[c] = state[c]
    BY <1>1, <2>2, <2>7, HandlersGoOn DEF PerformSetMuted, PressVideo
  <2>8. CASE ProviderDidReset
    BY <1>1, <2>2, <2>8, FailedCallGoesOn DEF ProviderDidReset
  <2>9. CASE \/ FailsAction \/ DidActivate
             \/ \E d \in Calls : \/ IncomingCallAllowed(d) \/ PerformSetHeld(d)
                                 \/ \E action \in Actions : Request(action, d)
    BY <2>9 DEF FailsAction, DidActivate, IncomingCallAllowed, PerformSetHeld, Request
  <2>10. ASSUME NEW d \in Calls, NEW p \in Contacts, StartAndShowOutgoingCall(d, p)
         PROVE  state'[c] = state[c]
    BY <1>1, <2>1, <2>10 DEF StartAndShowOutgoingCall, IInv, TypeOK
  <2> QED
    BY <1>1, <2>3, <2>4, <2>5, <2>6, <2>7, <2>8, <2>9, <2>10 DEF CallKitNext, Delegate, User
<1>2. (IInv /\ ListInv) /\ [CallKitNext]_allVars =>
        [\A c \in Calls : state[c] \in Ended /\ call # c => state'[c] = state[c]]_vars
  BY <1>1 DEF allVars
<1>3. CallKitSpec => [](IInv /\ ListInv)
  BY CallKitInvariance
<1> HIDE DEF vars
<1> QED
  BY <1>2, <1>3, PTL DEF CallKitSpec, EndedStaysEnded
=============================================================================
