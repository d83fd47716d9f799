# Signal-iOS in TLA+

TLA+ modules, TLC runs and TLAPS proofs for the calls of Signal-iOS, from the call service down
to the playout queue, and for what a launch of the app does to its stored state.
`PROJECT.json` lists the components, the runs, the source lines each definition
models, the hazards and the theorems; this file explains them.

## The system

The repository holds two generations of calls and the services around them.

**WebRTC calls** (`Signal/src/call`, Swift).  `CallService` owns the state of the one
current call: the `SignalCall`, its contact's thread, the `PeerConnectionClient`, the
queue of ICE candidates that wait for an answer and the promise that cancels the
connection timeout.  Everything in it happens on the main thread (`AssertIsOnMainThread`
in every handler), so a handler is atomic; what interleaves are

* the continuations of two promise chains, `handleOutgoingCall` and `handleReceivedOffer`,
  whose blocks run in later turns of the main loop,
* callbacks of WebRTC, which hop from the signaling queue to the main thread,
* Signal Service messages, which may be late, lost or repeated,
* the user, through `CallUIAdapter` and one of its two adaptees (CallKit or not),
* timers, the background task and the application's foreground state.

Its hard behaviours are therefore stale ones: a continuation, timer, message or button
that belongs to a call which is over, while another call is current.

**RedPhone calls** (`Signal/src/phone`, `Signal/src/network`, `Signal/src/audio`,
Objective-C).  A `CallController` drives a call through signalling over pipelined HTTP
(`HttpManager`), a ZRTP handshake over UDP with retransmission (`ZrtpManager` with
`ZrtpInitiator` or `ZrtpResponder`), SRTP with extended sequence numbers
(`SequenceCounter`), and a playout chain (`JitterQueue`, `AudioProcessor`,
`StretchFactorController`, `CyclicalBuffer`).  Futures, cancel tokens and run loop timers
connect the parts (`FutureUtil`, `TimeUtil`, `ObservableValue`).

**Around them**: jobs (`MessageFetcherJob`, `SyncPushTokensJob`, `SessionResetJob`),
migrations, push handling, contacts, profiling, and the screens.  SignalServiceKit, which
sends messages and stores threads and records, is another repository; WebRTC, speex and
spandsp are vendored.

| Component | State | Operations | What makes it correct |
|---|---|---|---|
| CallService | current call, thread, client, ICE queue, timeout promise | handlers for offer, answer, ICE, hangup, busy; user's answer, decline, hangup, mute, video; chain continuations | between calls nothing is left but the client of a chain still under way and a promise; a client drives only its own call; rings only after the answer; a call ends once |
| SignalCall, TSCall | state, direction, record | set by the service | the record says what happened |
| PeerConnectionClient | description, ICE and data channel state, tracks | create, describe, terminate, callbacks | tracks obey the user; silent after terminate |
| CallAudioSession | running or not | start, stop | runs only in a connected call |
| CallKit adaptee and manager | list of calls known to CallKit | CX actions | list and service agree |
| ZRTP | role's state, packet to retransmit, count | hello, commit, DH, confirm | both ends reach the same keys or fail |
| RedPhone's `PhoneManager`, `CallController` | current call, progress, termination, acceptance | push, answer, hang up, relay | one call lives; nothing sent before the answer; progress is monotonic |
| ObservableValue | value, callbacks, queue of actions | watch, adjust, seal, from any thread | each watcher is told every change in order, and the end |
| AudioPacker, SrtpStream, SequenceCounter | 16 bit number, extended number at each end | number, encrypt, decrypt | both ends make the same initialisation vector |
| JitterQueue, PriorityQueue | read head, span, numbers queued, heap | enqueue, dequeue, resync, discard | what was recorded is played in order; no stall |
| RemoteIOAudio, CallAudioManager, CyclicalBuffer | playback ring, pool of buffers, tasks for the low latency thread | callbacks, refill, terminate | two threads share sound and buffers without losing or repeating any |
| HttpManager, HttpSocket, NetworkStream | queue of pending requests, write buffer, connection, two locks | send, receive, fail, terminate | the n-th response answers the n-th request; every request made before a failure ends |
| Migrations | version, record of migrations, preferences | check, run, record | made before recorded, also under a crash; never over the user's choice |
| Push token sync, message fetcher | tokens at two servers and recorded; envelopes | upload, record; fetch, handle, acknowledge | success is true; nothing handled out of order or lost |
| OutboundCallInitiator, push manager, contacts, screens | lookups, notification settings, address book | glue around system callbacks | (see "Not modelled") |

## Modules

| Module | Models |
|---|---|
| `CallService` | `CallService.swift`, `SignalCall.swift`, `PeerConnectionClient.swift`, `WebRTCCallMessageHandler.swift`: state, handlers, chains, callbacks, and the properties |
| `NonCallKitCalls` | `NonCallKitCallUIAdaptee.swift` and the call screen's controls composed with the service: `Next`, `Spec`, `FairSpec` |
| `CallKitCalls` | `CallKitCallUIAdaptee.swift` and `CallKitCallManager.swift` composed with the service, with CallKit as an external party: `CallKitSpec` |
| `ZrtpHandshake` | `ZrtpManager`, `ZrtpInitiator`, `ZrtpResponder` at both ends of a lossy network |
| `KeyExchange` | what a handshake promises; `ZrtpHandshake` implements it (`AgreesOnSecret`) |
| `RedPhoneCalls` | `PhoneManager`, `CallController`, `CallConnectUtil` of both roles, `RecentCallManager`'s view of them |
| `JitterQueue` | `JitterQueue.m`: what the queue does with each packet and each pull |
| `PriorityQueue` | `PriorityQueue.m`: the heap, with the comparator as a parameter; the path an item takes is given by where one turn of the loop leads |
| `AudioStream` | one direction of the audio: `AudioPacker`, `SequenceCounter` and `SrtpStream` at both ends, the network, `JitterQueue` over its heap |
| `PlayoutWindow` | what the playout promises, with numbers that do not wrap; `AudioStream` implements it (`PlaysInOrder`) |
| `CyclicalBuffer` | `CyclicalBuffer.m`: the ring of bytes that grows |
| `Fifo` | a queue of bytes; `CyclicalBuffer` implements it (`ReadsWhatWasWritten`) |
| `RemoteIOAudio` | `RemoteIOAudio.m` and `CallAudioManager.m`: the audio unit's and the low latency thread over one ring and one pool |
| `HttpSignalling` | `HttpManager`, `HttpSocket` and `NetworkStream` with two threads and two locks |
| `ObservableValue` | `ObservableValue.m`: changes, watchers and the queue of actions, from any thread |
| `CallProgress` | the progress of a `CallController` on top of it: advancing, watching, terminating |
| `ValueStream` | what an observable promises; `ObservableValue` implements it (`TellsEveryChange`) |
| `Migrations` | `VersionMigrations`, `OWSDatabaseMigrationRunner`, the three migrations, with crashes |
| `PushTokens` | `SyncPushTokensJob`, `AccountManager.updatePushTokens`, with failures and restarts |
| `MessageFetcher` | `MessageFetcherJob` with overlapping runs, lost acknowledgements and deaths of the app |
| `MCNonCallKit`, `MCCallKit`, `MCZrtp`, `MCAudio`, `MCHttpSignalling`, `MCCallProgress`, `MCLaunches` | instances for TLC: symmetries, values, and specifications that put parts without common state into one run (`RedPhoneCalls` needs none: its run checks liveness, for which symmetry is not sound) |
| `CallServiceProofs` | inductive invariant of the call service and lemmas about each handler |
| `NonCallKitProofs` | the theorems of the call service |
| `CallKitProofs` | inductive invariant and theorems of the CallKit composition |
| `ZrtpProofs` | inductive invariant, type correctness and refinement of the handshake |
| `RedPhoneProofs` | inductive invariant, type correctness and safety of RedPhone calls; of a call's progress, which implements the stream of values |
| `PlayoutProofs` | inductive invariant and properties of the jitter queue, with its 16 bit arithmetic; the stream implements the window, its heap holds the queue; the ring implements a queue; types, pool and refill of the audio threads |
| `ServerProofs` | inductive invariants of the pipelined requests, the migrations, the token sync and the fetcher |
| `Induction` | induction on the natural numbers and functions by recursion, stated for sets and functions so that the other modules can cite them |

Operators named as a defect ("Defect: ..." in the comment before them) are never used by a
specification; `PROJECT.json` puts each in place of the definition it spoils to show that a
property notices.

### CallService

A call is a member of `Calls`; the identity stands for `localId` and `signalingId`, both
fresh random values.  A chain creates at most one client, so a client is named by its call.
`step[c]` is how far the chain of `c` has come, `client[c]` the life of its client,
`exchanged` the set of messages handed to or taken from the Signal Service: a message in it
may be received at any time, any number of times, or never.  That covers loss, delay,
reordering and repetition.  The environment is a correct peer: an answer, a busy or
candidates come only for an offer that was sent, a hangup for an offer that was sent or
received.

An action is a whole handler: the observers of `call` and of its state
(`updateIsVideoEnabled`) run before the handler returns and are part of it.  A block of a
promise chain is an action of its own.  `AppCrashes` is what a failed force unwrap does:
the app ends, and starts again with its call records and no calls.

Two things of a call are left in the service when it is over, and `ReadyForNewCall` says which
exactly.  The block that takes the ICE servers looks at no call, so it installs the client of an
outgoing call that ended meanwhile; the client knows no other party, and its chain still runs, so
that the end of the chain, or of a next call before it, terminates the client.  If a next call
gets its own ICE servers first, the assertion at `CallService.swift:304` meets that client ("Other
disagreements").  And `terminateCall` does not
clear `fulfillCallConnectedPromise`; what is left is the promise of a call whose message was
sent, so that fulfilling it during a next call ends at most the waiting of a chain.

Abstracted: the contents of descriptions and candidates, TURN servers, localisation and
notifications, permission dialogs (`setHasLocalVideo` is modelled with permission granted;
without it nothing changes), and whether a RedPhone call is going on, which is a free choice
at each offer.

### CallKitCalls

The adaptee turns what the user does into transactions requested of CallKit; CallKit accepts
or refuses one, and has the adaptee perform an accepted one in a later turn (`transactions`
is in the order it does so).  `calls` is the manager's list, by which a transaction finds its
call again, `known` what CallKit shows.  Where the service's handlers tell the adapter of a
failure, a hangup, a busy or a ringing call, the adaptee's part is conjoined to the handler's
step (`Notified`), since they run in the same turn.  The external parts are free choices:
refusal, reset of the provider, denial of an incoming call, activation of the audio session.
Requesting is bounded by `MaxTransactions`.

### ZrtpHandshake

Both ends run the code, so that all state is per role.  `net` holds every packet sent and not
lost; receiving leaves a packet there, so that it may come again, late and out of order.
A packet is its type and what can differ between handshakes: the participant (protocol and
key pair) it carries or the secret under which it is authenticated.  Packets whose checks fail
are logged and dropped by the code and are not sent by a peer that runs it.  A run loop
timer is a member of `timers`; cancelling removes it.  The retransmission count is modelled as
the code computes it: it is zero whenever it is compared.

`KeyExchange` says what counts: an end's secret is set once, only the responder may finish
first, and both are the same.

### RedPhoneCalls

A call is a `CallController`.  `stage` is where its chain of futures is: connecting to the
signalling server, waiting for the session or for the confirmation of ringing, waiting for
the user, contacting the relay, securing, calling.  Its cancel token stops the chain with the
call, so a step of the chain needs a call that is alive (`Live`).  The microphone permission
is requested before a call is created and granted at any later time: `permissionRequests`
counts dialogs (at most `MaxRequests` per session).  The list of recent calls is told of a
call by two hops over the main run loop, `AddCall`.  The `CallService` appears as the flag
`webRTCCall`, which changes at any time.

Each action is atomic although the code runs some on the low latency thread and others on the
main thread; the futures and the observable value serialise them one by one, but a
handler that completes several of them may be interleaved with another.  `CallProgress` takes
that apart for the progress and its watchers.

### JitterQueue and AudioStream

The i-th packet recorded is the number `i`; on the wire it carries a number modulo
`2 * HalfRange`, which is 2^16 in the code.  Every operator of `JitterQueue` computes with
the short way round the circle, as `NumberUtil congruentDifferenceMod2ToThe16From:to:` does.
`TryEnqueue` is `tryEnqueue:` with the `discardExcess` that ends it, in its three outcomes
(resynchronise, take, refuse); `DequeueOutOfSync`, `DequeueNothing` and `DequeuePacket`
are those of `tryDequeue`.  The queue is the set of its packets; `items` of `AudioStream` is
the array of the heap, which every step computes with `PriorityQueue`, and `HeapHoldsQueue`
says that the two agree.

`AudioStream` adds the other end: packets are numbered, encrypted with a vector made of the 64
bit number, lost, repeated and reordered.  A packet that is decrypted with another vector is
`Garbled`.  `InTime` states what is assumed of the network: a packet arrives within a quarter
of the range of the last one and within half of it of the read head.  Without it no 16 bit
number could be extended.  `head` is a history variable, the read head without wrapping, and
the mapping to `PlayoutWindow`: what waits is the numbers of the packets that wait, and
silence is `readHeadSpan - 1`.

### RemoteIOAudio

Each of the audio unit's callbacks runs under the lock of the class, and so is one action; it
posts the rest to the low latency thread, in `tasks`.  That thread looks at the state under the
lock and refills the ring after it has released it, one decoded frame at a time (`filling`), so
that callbacks and the end of the call come in between.  Sound is counted in units.  `Chunk` is
what can be written at a time; the ring itself is `CyclicalBuffer`, with its bytes, so that
`ReadsWhatWasWritten` is about what the speaker plays and not only about how much.

### HttpSignalling

The user's thread makes requests and terminates; the run loop's thread handles the
stream's events.  A thread that takes a lock, does its work and releases it is one step; where
it holds one while it waits for the other, or goes on after it released the other, it has a
place of its own (`userAt`, `runLoopAt`).  So a failure of the network, or garbage, is three
steps of the run loop: the queue is cleared under the manager's lock (`FailureIsReported`,
`HandleGarbage`); the error handler, called without it, ends the call (`ErrorHandlerEndsCall`) or does
not, for the initiator's does and the responder's only notes the error; and the stream is closed
(`StreamTerminates`).  The user's thread may queue a request between any two of them, which
nobody fails.  The failure of a connection that never came about is reported a second time.
HTTP messages are whole: a chunk that ends in the middle of one only delays it, for the code
keeps the rest.  Reads and writes take any number of messages.  The server answers each request
once and in order, and makes requests of its own: ringing, hangup, and garbage.  One thread
makes requests; two could queue them in one order and send them in the other, since the queue
is appended to under the lock and the request is sent outside it.

### ObservableValue and CallProgress

A thread that calls an operation while actions are run leaves its action in the queue; the
thread that runs them is `runner`, and its step is one action or one callback.  A thread is
back from its call when it is no longer the runner.  `CallProgress` follows `CallController`: it
advances, is watched by a screen (told on the main thread) and by a background task (that stops
with the canceller's token), and terminates in four steps: the result of `termination`, the
advance, the handlers of the token, the seal.  `enableBackground` is not called by
anything at this commit; it is modelled because it is the code's other use of a watcher
that is removed.

### Migrations, PushTokens, MessageFetcher

The three have no state in common, and `MCLaunches` follows one of them in each
behaviour (`part`).

The update check runs on the main thread and records the version at its end, whereas a migration
is recorded by a block that its transaction's completion queues.  `Crash` keeps what is stored and
loses the rest.  `chosen` is a history variable: what the user set a preference to since the
migration that sets it was recorded.

The device's tokens are one number.  They change between launches only (an assumption); jobs of
one launch overlap.  A request that fails may have reached the server.

Envelopes are numbered in the order of the server.  A page is handled on the main thread, with
an acknowledgement between two envelopes that is sent and may be lost.  The page of another run
is not handled in between (`MainIsFree`).  What is left of a page is a set, whose least member is the
next.  `Unreadable` envelopes cannot be built, and stay at the
server for ever.

## Runs

A property of a run may be a conjunction of named parts where they say one thing together
(`ServiceInv`, `AnswerComesFirst`, `MediaFollowsCall`, `CallKitInv`, `AnswerIsKept`,
`QueueIsSound`, `StreamInv`, `PoolInv`, `PairingInv`, `SealIsTheEnd`, `RecordIsTrusted`); each
part has a comment of its own.  Deadlock is unchecked where behaviours end: a call that is over,
no packet left, a program that has done its work.

| Run | Instance | What it shows |
|---|---|---|
| `calls_safety` | two calls, two contacts, all switches, `MaxRecords` = 2, see below | what one call leaves to the next, which client drives it, what it records and transmits |
| `calls_liveness` | two calls, one contact, no switches | no call dials, answers or rings for ever |
| `callkit_safety` | two calls, one contact, all switches, one transaction, see below | the service keeps its promises, and a connected call can be ended, under CallKit |
| `redphone_calls` | two calls, one session, two attempts, one dialog | one call lives, answers are kept, every call is listed |
| `call_progress` | three threads, two watchers, values 0 to 3, two advances | every watcher is told every change, in order, and the end |
| `zrtp_handshake` | two protocols, two keys, lossy network | both ends agree, and come to an end |
| `http_signalling` | three requests, one message of the server | answers reach their requests; every request made before a failure is reported ends |
| `audio` | see below | packets and sound are played once, in order, for ever |
| `launches` | see below | what a launch repairs and fetches survives crashes |

**Bounds.**  Two calls are what every interference needs: one that is over or obsolete and one
that is current.  `MaxRecords` bounds the answer action of a notification, which adds a record
each time.  `calls_liveness` and `redphone_calls` have no symmetry, for it is not sound for
liveness.  A constraint keeps the largest two within minutes.  In
`calls_safety` a second call is followed while the app is in the foreground
(`BackgroundOfOneCall`).  In `callkit_safety` it is followed while one of the two calls is
not over, the app is in the foreground, nothing is muted, no video is on and no such action is
under way (`SwitchesOfOneCall`); tracks and queues are reset between calls, which
`ReadyForNewCall` says.  What the constraints leave out is within the theorems of
`NonCallKitProofs` and `CallKitProofs`, which hold for any number of calls and any use of the
switches.  One outstanding transaction is enough for each to be
overtaken by anything the service does.  `zrtp_handshake` has a responder that supports only the
implied protocol, and two key pairs, so that one participant could be mistaken for another.  In
`redphone_calls` a second call and a second attempt are where the rules for one and for the
next meet.

`audio` runs the two ends of the playout one at a time (`part`).  The packets' numbers have a
circle of 12 (`HalfRange` = 6); 12 are recorded and the first is 2, so that they wrap; at most two are in flight,
which allows loss, repetition and any order within the window; `TransitiveSafetyRange` and
`MaxQueueAhead` are 3, `BadSpanThreshold` is 2 and the heap holds up to 3, so that packets are
refused or dropped as excess and the queue resynchronises.  The ring begins with 3 units and grows when a
frame of 3 arrives; callbacks ask for 1 or 2 units up to three times, and there is one recording
buffer for two recordings.  In `http_signalling` three requests are enough for one to be answered, one to
be written and one to be pending, and the server's one message is a ringing, a hangup or garbage
between any two responses.  `call_progress` has two threads that may race with the main
one, and a value between the first and the end.  `launches` has two crashes (one of them in the launch that
repairs the first), three tokens and restarts, three envelopes in pages of two, the second of
them unreadable, and two deaths of the app between fetching and acknowledging.

**Fairness.**

* Call service (`ChainFairness`): weak fairness of each call's chain.  Network requests are
  answered, if only with an error (PromiseKit rejects), blocks queued on the main thread run,
  and the `after(120 s)` timer fires.  Nothing is assumed of the user, of messages or of ICE.
* Handshake: `TimersFire` is weak fairness of run loop timers; `NetworkDelivers` is strong
  fairness of receiving what the peer keeps sending, which is what a network that loses
  packets but is not dead means.
* RedPhone calls: weak fairness of the blocks given to the main run loop (`AddCall`), of
  nothing that depends on the network or the user.
* Audio: weak fairness of `PullPacket` and of `LowLatencyThread`.  The audio unit keeps calling
  and the run loop keeps running while a call lasts.  Nothing is assumed of the network.
* HTTP: weak fairness of a thread that has begun an operation (`UserContinues`), of the run loop
  that the stream is scheduled on (`RunLoop`), and of the server reading and answering
  (`ServerReads`).  The last is an assumption about another program: the code has no timeout, and a server
  that keeps the connection and says nothing leaves the request waiting.
* Progress: weak fairness of a thread within an operation (`Continues`), of the thread that
  runs the queue (`Runs`) and of the main run loop (`Show`).
* Launches: weak fairness of a launch that goes on and of a page being handled; runs of the
  fetcher recur (weak), and a fetch or an acknowledgement that is sent again and again arrives
  (strong), which is again an assumption about the network and the server.

**Disagreements.**  Three runs are expected to find a violation.  Each states what a comment of the code says
and the code does not do; `PROJECT.json` quotes them under `findings`.

| Run | What TLC finds |
|---|---|
| `old_hangup` | a slow hangup of an old call ends the current call with the same contact |
| `no_media_before_accepted` | under CallKit, muting and unmuting while the other party rings sends audio |
| `terminate_cancels` | the thread that hangs up takes `HttpManager`'s lock and then `NetworkStream`'s, the run loop takes them the other way round; each waits for the other and the connection stays |

### Other disagreements

Found in the same way, with the properties below added to the module and an instance as small as
those above; they have no run of their own.

| Source | What it says | What the code does | Property that fails |
|---|---|---|---|
| `CallService.swift:304` | "Unexpected PeerConnectionClient instance" (an assertion) | the continuation of a call that is over installs a client that the next call trips over | `[][\A c \in Calls : GotIceServers(c) /\ ~Obsolete(c) => peerConnectionClient = None]_vars` |
| `CallService.swift:753` | "cancel connection timeout" | a call that connects before its chain gets to set the promise is failed by the timeout | `[][\A c \in Calls : ConnectingTimedOut(c) /\ call = c => state[c] # "connected"]_vars` |
| `CallService.swift:352` | 712: "Don't kill the current call, but just ignore it." (an old call's answer) | fails the current call | `[][\A c \in Calls : HandleReceivedAnswer(c) /\ IsOld(c) => call' = call]_vars` |
| `CallService.swift:557` | "ignoring remote ice update for call" | fails the current call | `[][\A c \in Calls : HandleRemoteAddedIceCandidate(c) /\ IsOld(c) => call' = call]_vars` |
| `CallService.swift:431` | "The callee was already in another call." | a busy for an old call ends any current one | `[][\A c \in Calls : HandleRemoteBusy(c) /\ IsOld(c) => call' = call]_vars` |
| `CallService.swift:310` | `self.peerConnectionClient!` | the call may have ended a turn earlier | `[][\A c \in Calls : OfferCreated(c) => peerConnectionClient # None]_vars` |
| `CallService.swift:311` | 837: a hangup message ends calls that have not started | the offer is sent after the hangup | `[][\A c \in Calls : SendOffer(c) => state[c] \notin Ended]_vars` |
| `CallService.swift:728` | `SignalCall.swift:55`: `assert(oldValue == nil)` | answering twice saves two records | `\A c \in Calls : savedRecords[c] <= 1` |
| `CallService.swift:857` | "Can be used for Incoming and Outgoing calls." | muting before the client exists ends the call | `[][\A c \in Calls, m \in BOOLEAN : PressMute(c, m) => call' = call]_vars` |
| `CallService.swift:273` | `CallKitCallUIAdaptee.swift:231`: "it handles any errors by manually failing the call" | a start performed during another call fails without CallKit being told | `\A c \in known : state[c] # "localFailure"` |
| `CallService.swift:812` | "ignoring ... for call other than current call" | the end of such a call ends the current one | `[][\A c \in Calls : PerformEndCall(c) /\ call # c => call' = call]_allVars` |
| `ZrtpManager.m:129` | 137: "retransmit threshold exceeded" | the count is zero whenever it is compared, so a handshake that gets no answer retransmits for ever | `<>(\A r \in Roles : done[r])` with `TimersFire` alone |
| `ZrtpManager.m:159` | `ZrtpManager.h:41`: "the returned future will be given a failure" (when cancelled) | it stays incomplete | `\A r \in Roles : done[r] => futureHandshakeResult[r] # None` |
| `PhoneManager.m:94` | 98: "Ignoring duplicate incoming call signal." | a repeated push of the current call's session, after one of another, is answered with busy | `\A c \in Calls : Live(c) /\ ~isInitiator(c) => session[c] \notin signalledBusy`, two sessions |
| `CallConnectUtil_Responder.m:103` | `CallTermination.h:25`: "hung up (after they accepted)" | also when the call still rings | `\A c \in Calls : termination[c] = "HangupRemote" => accepted[c] = "yes"` |
| `PhoneManager.m:111` | `CallTermination.h:26`: "because we started another call" | an incoming call whose permission comes late replaces it, too | `[][\A c \in Calls : termination[c] = None /\ termination'[c] = "ReplacedByNext" => session'[curCallController'] = None]_redPhoneVars` |

Read in the code while modelling it, and reproduced by the modules where they reach that far:

* Audio.  `CallAudioManager.m:42`: the manager keeps a count of its own and ignores how much
  remains (`andBytesRemaining`).  A callback that found too little, and so took nothing, is still
  subtracted from it, so that the ring holds ever more than the count says: latency only grows.
  The state is checked under the lock and the delegate called after it.  `JitterQueue` accepts
  packets up to 0x1000 ahead but starts over after 0x100 pulls that found nothing: a packet further
  ahead than that with none before it is dropped before its turn.  `tryEnqueue` returns true also
  when `discardExcess` drops that very packet, and after a resynchronisation an old duplicate may
  be played again.
* HTTP.  `HttpManager.m:40`: requests are queued under the lock and sent outside it, so that two
  threads could send in another order than they queued (the model has one).  A failure of the
  network clears the queue (107) and closes the stream afterwards, and cancels the lifetime (37) only if
  the error handler ends the call: a request queued between the two or later is neither sent nor
  failed, and waits for ever unless the call ends.  `EveryRequestEnds` excepts it
  (`FailureIsKnown`); with `closedLocally /\ ~lifetimeCancelled` alone as the exception TLC finds a
  request queued between `HandleGarbage` and `StreamTerminates`.
  The response to the server's hangup is queued and the stream terminated before it is written.
  A connection that fails may be reported to the error handler more than once, which
  `StreamTerminates` models.
* Progress.  A screen's callback runs at once when it is called on the main thread
  (`Operation.m:37`) and overtakes values that wait for the run loop, so that what is shown may go
  back, although `CallController.h:16` says "CallController takes care of ensuring progress never
  goes backwards, maintaining thread safety, etc."  `CallController.m:114` reads the value
  while an advance may be queued.
* Launches.  `VersionMigrations.m:74` only queues the attribute update and the version is
  recorded first: a crash in between loses it, and `NEEDS_TO_REGISTER_ATTRIBUTES` (149) is read by
  nobody.  `OWSDatabaseMigration.m:58`: a migration that was made and not recorded is made again
  after a crash, and overrides what the user chose in between.  `SyncPushTokensJob.swift:51`: two
  jobs of one launch, between which the token changes, may record the older one.
  `MessageFetcherJob.swift:98`: a full page of envelopes that cannot be built is never
  acknowledged, and the run fetches it again and again.
* `OutboundCallInitiator.swift:85`: a call that begins during the lookup makes it return without
  dismissing the interstitial screen.

## Proofs

A theorem holds for every value of the constants that satisfies the named assumptions of its
modules; the run of the same property shows it on the instance above.

**Call service** (`CallServiceProofs`, `NonCallKitProofs`). `IInv` is the conjunction of
`TypeOK`, the safety invariants and `CallInv`. `CallInv` is what the others need: a client is
described only after the answer was exchanged (for `RingsOnlyAfterAnswer`), an outgoing current
call that sends candidates at once was answered (for `IceHeldUntilAnswer`), an outgoing current
call has a record (for `RecordTellsOutcome`), and without a client no track is enabled (for
`TracksObeyUser`). `ReadyForNewCall` needs no more than itself: a client that is there between calls
is that of an outgoing chain still under way (`ClientChainRuns`), so that the end of that chain
terminates it, and a promise is set only after the message was sent (`AfterSending`), from where
no chain goes back. Three lemmas carry most of the proof: `FrameInv` (a step that touches only
chains and messages), `TerminateInv` (every way out of a call) and `HandleConnectedCallInv`. The
theorems hold for any `Calls`, `Contacts`, `Switches` and `MaxRecords`, given `NoneAssumption`
(nil is neither a call nor a contact).

**CallKit** (`CallKitProofs`). With `CallKit` TRUE, and again for any calls, contacts and number
of transactions, `IInv` holds of the composition too, and with it `ListInv`, which relates the
manager's list, CallKit's screen and the queued transactions to the calls: a call is shown only
once it rings (`ShownOnceRinging`), no transaction is queued twice (`NoneTwice`), a start is
only queued for a call that never was the current one and whose chain has not begun
(`StartsAreNew`, kept by `NoChainBegins`), only incoming calls are
reported or answered (`AnsweredCameIn`), and what the current call's state says of the list and
the screen (`CurrentIsListed`). The last is what `ConnectedIsListed` needs; the others make it
inductive, since a late transaction must not find a call in a state that its request did not
see. `CallsGoOn` says what a step may do to the calls, `ListGoesOn` and `QueueShrinks` what it
may do to list, screen and queue, and `ListInvKept` combines them for nearly every step; only
starting, creating and requesting have proofs of their own.

**ZRTP** (`ZrtpProofs`). `ZrtpIInv` adds to the types what a role holds by the time it waits for
a packet (`HoldsWhatItNeeds`), what every packet that is or may again be sent says
(`PacketsTellTruth`), that an outcome is the secret agreed (`OutcomeIsAgreed`), and which timers
can be running (`TimersFit`). The refinement is not provable from the types alone, because an
old packet could say anything; `PacketsTellTruth` ties it to its sender's state.
`HandshakeImplementsExchange` shows that every step is one of `KeyExchange` or a stutter, and
`HelloTimeoutIsForHello` follows from `TimersFit`. They hold for any protocols, keys and
retransmission bound, given that the peer's protocols include the one that is implied and that
nil and the failure are not packets or secrets.

**RedPhone calls** (`RedPhoneProofs`). `PhoneIInv` adds to the types and the three safety
invariants `FuturesFit`: a call is over exactly when its termination is known, progress then is
Terminated, and a call that is alive is accepted or still to be answered. Without it the reason
of a hangup could not be told from `accepted`. `StepKinds` shows that every step is of one of
four kinds: it ends a call (`Ends`), takes one on (`GoesOn`), begins one in place of another
(`BeginChanges`) or leaves the calls alone (`FrameInv`). Each kind keeps the invariant, and
`ProgressIsMonotonic` follows from the same case split. They hold for any calls and sessions,
and any positive number of attempts, given that nil is none of the values that a future can have
(`NilAssumption`).

**Progress** (`RedPhoneProofs`). The invariant is built in layers, each inductive over the one
before: the types; `RunInv`, that a queue without a runner is empty; `EndInv`, which says that
the change to Terminated is queued at most once, whatever closes the value comes after it
(`EndQueue`), and both belong to the one thread that terminates (`EndThreads`); `WatchInv`
(`Begins`), that nothing is told to a watcher before the queue has added it; `ToldInv`, that the
last a watcher was told is the value, or the end if it was removed. Every step of the queue was
stated for an arbitrary queue first (`QueueRunKeeps...`), so that calling, which begins to run
at once, uses the same lemma. From them follow that nothing changes a sealed value
(`TheSealIsTheEnd`), that the queue implements `ValueStream` (`ImplementsValueStream`) and that
a watcher is told the end before it is removed. Given: `ObservableAssumption` and
`ProgressAssumption`, any threads, watchers and values.

**HTTP** (`ServerProofs`). `HttpInv` says that whoever waits is queued, and that a cancelled
lifetime means an empty queue and a closed stream or a thread on its way there that holds the
lock. `TerminatedEnds` is its consequence for any set of requests. `PairingHolds` says that each
response reaches the request it answers. Its invariant, `PairedInv`, adds to `PairingInv` that a
closed stream is not read from any more (`ClosedIsDeaf`); without that a response could be taken
off the queue of a manager whose stream has failed. While the stream is open, and until the
manager is told of a failure (`StreamIsOpen`), the queue of
pending requests is the responses read, those on their way, the requests at the server, those in
the write buffer and the one about to be sent, in this order (`QueueIsAlong`). Every step moves
messages from one of the five to the next. The requests among the messages of a sequence are
filtered by a recursive function of the library; `RecursionUnique` shows that such a filter goes
through concatenation, and that concatenating is associative is proved once.

**Launches** (`ServerProofs`). For any number of crashes, jobs, restarts, runs, envelopes and
deaths of the app. `MigrationInv`: a migration waits in one place at most, to be looked at, as a
transaction or as a completion, and a record that is merely assumed is of an app without data;
hence a record is true (`MigrationsAreTrusted`). `TokensInv`: a job that has come to the second
server has told the first, and the preference that is written last holds only what both were
given; hence success is true (`TokenSyncTellsTheTruth`). `FetcherInv`: an acknowledgement is of
what was handled, and what a run has left of its page is without gaps: an older envelope that is
readable and not handled is also among them (`PagesHaveNoGaps`). Without it an overlapping run
might hand over a later envelope first. `EnvelopesAreHandledInOrder` follows.

**Audio** (`PlayoutProofs`). The lemmas about differences on the circle come first: their range,
that they add where neither wraps, and that a number computed from a difference has that
difference. `JitterInv` says where the queue's numbers lie around the read head; that two
packets never lie half a range apart follows, so that the comparator is total
(`ComparatorIsSafe`), and so do `JitterQueueIsSound` and `ReadHeadNeverReturns`. They hold for
any range and bounds that satisfy `JitterAssumption`, those of the code among them.

The stream between the two ends needs one more fact, that both count alike: `PacketsInv` says
that there is a number with which the stream began, of which every number in use, on the wire,
in a counter, in the queue and at the read head, is a shortened sum (`Numbered`, `Placed`). From
it follow that every packet is decrypted with the vector it was encrypted with
(`AudioIsDecrypted`) and, since `StreamFollows` shows which step of `PlayoutWindow` each step of
the stream is, that what is played is a window that moves on through what was recorded
(`AudioPlaysInOrder`). Both rest on `InTime`, what is assumed of the network, which is a guard
of the model and not a hypothesis of the theorems.

`StreamIsSound` adds that the heap holds the queue and has its least packet on top. An item that
is enqueued goes up a path and what it passes goes down (`UpwardPath`, `EnqueueKeepsHeap`); the
gap that dequeueing leaves goes down a path of smaller children (`DownwardPath`,
`DequeueKeepsHeap`). The paths are functions by recursion, whose existence and end are by
induction over the number of turns. That the comparator orders the packets of the queue as their
distance from the read head does (`HeapOf`, `HeapStep`) is where the heap needs `JitterInv`.

For the ring, `PeekedByte` and `Wraps` relate the ring to the queue across the end of the array;
`EnqueueAppends` covers growing; `RingIsQueue` is the refinement for any capacity and any
chunks, and `SpeakerPlaysWhatWasDecoded` carries it to the two threads. `PoolIsKept` rests on
`BuffersConserved`: a buffer is free, recording or in exactly one task. `RefillIsAhead` is about
the low latency thread's own count: its invariant `RefillInv` compares the count with what the
ring holds and with what the tasks that wait are still to account for, a sum over a sequence by
recursion (`SumExists`). `AudioAssumption` asks of the requests that what is filled for one is
enough for another, that is, that none is longer than three of another or three frames.
`SteadyRequests` (none is longer than both another and a frame), a condition within
`StarvesOnlyWhenLate`, asks more; the code guarantees neither, they describe the audio unit,
which is outside.

**Induction** (`Induction`). The library states induction for an operator that is a parameter,
which no prover here can instantiate. Induction over the natural numbers is stated for a set
instead (`InductionOnNat`), definition by recursion for a set of functions `next`
(`RecursionExists`), and both are proved from the library's theorem about well-founded relations
(`WFMin`).

**Only model-checked.** Liveness, since the provers handle neither fairness nor ENABLED:
`NoCallRingsForever`, `HandshakeCompletes`, `EveryCallIsListed`, `TerminationIsShown`,
`EveryRequestEnds`, `NeverStalls`, `CatchesUp`, `MigrationsAreRecorded` and
`MessagesAreHandled`. Every other property of a run that passes is stated by a theorem. The
theorems are about the specifications of the components; that a run which puts several side by
side (`MCAudio`, `MCLaunches`) takes only their steps is by the form of its `Next`.

## Not modelled

The contents and layout of messages, packets and descriptions; HTTP parsing and serializing;
cryptography beyond what a secret or a vector depends on; codecs, stretching and the control of
the audio's depth (floating-point signal processing); sockets below the streams, endpoints and
DNS; the UDP variants; notifications, localisation, the screens (except which control is
shown); the sounds and vibration of `CallAudioService`; the lookup and the cancel token of
`OutboundCallInitiator`; registration and `SessionResetJob`; the push manager, contacts,
profiling; storage.  `PROJECT.json` names every component and the reason.

By size, most of the repository's C and header files are vendored speex and spandsp, which are
signal processing and third-party code.  The app's own logic is in its Objective-C and Swift files (about 34,700
and 7,100 lines, screens included), and that is where the mapped lines are.

## Plan

Done: the call service under both adaptees, RedPhone calls and their progress, the ZRTP
handshake, the playout from packet to speaker, pipelined signalling, and what a launch does.
Proved: every safety invariant, action property and refinement that the passing runs check.

1. `OutboundCallInitiator` with its lookup and token, and `CallAudioService` against the audio
   session.
2. `SessionResetJob`, and the retries and timeouts of `FutureUtil` against completion.
3. Two threads that make requests in `HttpSignalling`.
4. Push manager: background tasks around actions of a notification; the contacts updater.
5. Theorems about properties that no run states yet: the handlers of a call that is over, and
   the disagreements above with the condition under which the comment is true.
