---------------------------- MODULE CallProgress ----------------------------
(***************************************************************************)
(* The progress of a RedPhone call: the ObservableValue of a               *)
(* CallController (Signal/src/phone/callstate), which the threads of the   *)
(* signalling server, the relay and the user advance and terminate.        *)
(*                                                                         *)
(* Terminating takes several steps.  Only the thread whose termination is  *)
(* the first takes them, but others go on with what they were doing, and   *)
(* the actions it queues may be run by another thread.                     *)
(***************************************************************************)
EXTENDS ObservableValue

CONSTANT MaxAdvances     \* bound: attempts to advance

ASSUME ProgressAssumption == MaxAdvances \in Nat

VARIABLES
  terminated,     \* termination has a result
  cancelled,      \* canceller.token
  at,             \* where each thread is
  handlers,       \* the watchers whose token's handler is registered
  watched,        \* who has begun to watch
  advances

controllerVars == <<terminated, cancelled, at, handlers, watched, advances>>
progressVars == <<observableVars, controllerVars>>

Terminated == MaxValue

Idle == [step |-> "idle"]
At(step) == [step |-> step]
Registering(w) == [step |-> "registering", watcher |-> w]

\* A thread that runs actions is not back from its call yet.
Free(t, place) == at[t] = place /\ runner # t
Goes(t, place) == at' = [at EXCEPT ![t] = place]

ProgressInit ==
  /\ ObservableInit
  /\ terminated = FALSE /\ cancelled = FALSE
  /\ at = [t \in Thread |-> Idle]
  /\ handlers = {} /\ watched = {}
  /\ advances = 0

\* advanceCallProgressTo, and ...ToConversingWithShortAuthenticationString
Advance(t, v) ==
  /\ Free(t, Idle) /\ advances < MaxAdvances
  /\ v < Terminated
  /\ QueueRun(t, Adjust(v))
  /\ advances' = advances + 1
  /\ UNCHANGED <<valueVars, terminated, cancelled, at, handlers, watched>>

\* The call's screen watches from the main thread until it is told the end.
WatchOnScreen(w) ==
  /\ Free(Main, Idle) /\ w \notin watched
  /\ watched' = watched \cup {w}
  /\ QueueRun(Main, Watch(w))
  /\ UNCHANGED <<valueVars, terminated, cancelled, at, handlers, advances>>

\* enableBackground watches until the canceller's token is cancelled...
EnableBackground(t, w) ==
  /\ Free(t, Idle) /\ w \notin watched
  /\ watched' = watched \cup {w}
  /\ IF cancelled THEN UNCHANGED <<runVars, at>>
     ELSE QueueRun(t, Watch(w)) /\ Goes(t, Registering(w))
  /\ UNCHANGED <<valueVars, terminated, cancelled, handlers, advances>>

\* ... and removes the callback at once if that has happened meanwhile.
Register(t, w) ==
  /\ Free(t, Registering(w))
  /\ IF cancelled THEN QueueRun(t, StopWatching(w)) /\ UNCHANGED handlers
     ELSE handlers' = handlers \cup {w} /\ UNCHANGED runVars
  /\ Goes(t, Idle)
  /\ UNCHANGED <<valueVars, terminated, cancelled, watched, advances>>

\* Defect: the progress is sealed before the termination is told.
SealsFirst(t) ==
  /\ Free(t, Idle) /\ ~terminated
  /\ terminated' = TRUE
  /\ QueueRun(t, Seal)
  /\ Goes(t, At("advancing"))
  /\ UNCHANGED <<valueVars, cancelled, handlers, watched, advances>>

\* Defect: the termination is not told.
TerminatesSilently(t) ==
  /\ Free(t, Idle) /\ ~terminated
  /\ terminated' = TRUE
  /\ Goes(t, At("cancelling"))
  /\ UNCHANGED <<observableVars, cancelled, handlers, watched, advances>>

\* terminateWithReason: the first termination counts...
Terminate(t) ==
  /\ Free(t, Idle) /\ ~terminated
  /\ terminated' = TRUE
  /\ Goes(t, At("advancing"))
  /\ UNCHANGED <<observableVars, cancelled, handlers, watched, advances>>

AdvanceToTerminated(t) ==
  /\ Free(t, At("advancing"))
  /\ QueueRun(t, Adjust(Terminated))
  /\ Goes(t, At("cancelling"))
  /\ UNCHANGED <<valueVars, terminated, cancelled, handlers, watched, advances>>

\* ... and runs the handlers of the canceller's token, one after the other...
Cancel(t) ==
  /\ Free(t, At("cancelling"))
  /\ cancelled' = TRUE
  /\ IF handlers = {} THEN Goes(t, At("sealing")) /\ UNCHANGED <<runVars, handlers>>
     ELSE \E w \in handlers :
            /\ QueueRun(t, StopWatching(w))
            /\ handlers' = handlers \ {w}
            /\ UNCHANGED at
  /\ UNCHANGED <<valueVars, terminated, watched, advances>>

\* ... before it seals the progress.
SealProgress(t) ==
  /\ Free(t, At("sealing"))
  /\ QueueRun(t, Seal)
  /\ Goes(t, Idle)
  /\ UNCHANGED <<valueVars, terminated, cancelled, handlers, watched, advances>>

Continues ==
  \E t \in Thread :
    \/ \E w \in Watcher : Register(t, w)
    \/ AdvanceToTerminated(t) \/ Cancel(t) \/ SealProgress(t)

ProgressNext ==
  \/ \E t \in Thread :
       \/ \E v \in Value : Advance(t, v)
       \/ \E w \in Watcher \ Screen : EnableBackground(t, w)
       \/ Terminate(t)
  \/ \E w \in Screen : WatchOnScreen(w)
  \/ Continues
  \/ Runs /\ UNCHANGED controllerVars
  \/ Show /\ at[Main] = Idle /\ UNCHANGED controllerVars

\* Threads go on, and the main thread's run loop runs.
ProgressSpec ==
  /\ ProgressInit /\ [][ProgressNext]_progressVars
  /\ WF_progressVars(Continues)
  /\ WF_progressVars(Runs /\ UNCHANGED controllerVars)
  /\ WF_progressVars(Show /\ at[Main] = Idle /\ UNCHANGED controllerVars)

-----------------------------------------------------------------------------

Place == {Idle} \cup {At(step) : step \in {"advancing", "cancelling", "sealing"}}
           \cup {Registering(w) : w \in Watcher}

ProgressTypeOK ==
  /\ ObservableTypeOK
  /\ terminated \in BOOLEAN /\ cancelled \in BOOLEAN
  /\ at \in [Thread -> Place]
  /\ handlers \subseteq Watcher /\ watched \subseteq Watcher
  /\ advances \in 0 .. MaxAdvances

(***************************************************************************)
(* The progress that is sealed is that the call has terminated             *)
(* (CallController.m:128-133), although the thread that terminates the     *)
(* call may not be the one that runs its actions.                          *)
(***************************************************************************)
SealedWhenTerminated == sealed => currentValue = Terminated

(***************************************************************************)
(* The seal is the end: no change is refused because of it, it comes after *)
(* the termination, and no action is left behind in the queue.             *)
(***************************************************************************)
SealIsTheEnd == ProgressTypeOK /\ NeverRefused /\ SealedWhenTerminated

(***************************************************************************)
(* A watcher that stops watching because the call has ended was told so    *)
(* before: the background task that it began is ended                      *)
(* (CallController.m:128-131, 140-150).                                    *)
(***************************************************************************)
RemovedAreToldTheEnd ==
  \A w \in Watcher : told[w] # <<>> /\ w \notin callbacks => Last(ToldSoon[w]) = Terminated

(***************************************************************************)
(* The call's screen gets to show that the call has terminated, whichever  *)
(* thread terminated it and whenever the screen began to watch             *)
(* (InCallViewController.m:161-165, CallController.m:121-134).             *)
(***************************************************************************)
TerminationIsShown ==
  \A w \in Screen : terminated /\ w \in watched ~> Terminated \in shown[w]
=============================================================================
