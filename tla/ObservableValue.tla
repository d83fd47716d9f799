--------------------------- MODULE ObservableValue ---------------------------
(***************************************************************************)
(* ObservableValue.m (Signal/src/util): a value that is changed from any   *)
(* thread and that tells its watchers.  A thread that calls an operation   *)
(* while another one, or a callback of its own, is running actions leaves  *)
(* the action in a queue; otherwise it runs it, and then what others       *)
(* queued meanwhile, before its own call returns.                          *)
(*                                                                         *)
(* Values are ordered and a change is an adjustValue that never goes back, *)
(* as CallController makes them.  A queue's turn is a step, and so is every *)
(* call of a callback, so that other threads get in between.               *)
(***************************************************************************)
EXTENDS Integers, Sequences, SequencesExt

CONSTANTS
  Thread, NoThread,
  Watcher,
  Screen,      \* the watchers that watchLatestValue has told on the main thread
  Main,        \* the main thread
  MaxValue         \* the greatest value

ASSUME ObservableAssumption ==
  /\ NoThread \notin Thread /\ Main \in Thread
  /\ Screen \subseteq Watcher
  /\ MaxValue \in Nat \ {0}

Value == 0 .. MaxValue

VARIABLES
  currentValue, sealed,
  callbacks,            \* who watches
  runner,               \* the thread that runs actions (isRunningActions)
  action,               \* what it runs
  toTell,               \* whose callbacks it has yet to call
  queuedActionsToRun,
  told,                 \* the values each callback was called with
  mainRunLoop,          \* what is to be shown, in the main thread's run loop
  shown                 \* what each screen has shown

valueVars == <<currentValue, sealed, callbacks, toTell, told, mainRunLoop, shown>>
runVars == <<runner, action, queuedActionsToRun>>
observableVars == <<valueVars, runVars>>

Nothing == [kind |-> "none"]
Watch(w) == [kind |-> "watch", watcher |-> w]
StopWatching(w) == [kind |-> "stop", watcher |-> w]
Adjust(v) == [kind |-> "adjust", to |-> v]
Seal == [kind |-> "seal"]

Action ==
  {Watch(w) : w \in Watcher} \cup {StopWatching(w) : w \in Watcher}
    \cup {Adjust(v) : v \in Value} \cup {Seal}

ObservableInit ==
  /\ currentValue = 0 /\ sealed = FALSE
  /\ callbacks = {} /\ toTell = {}
  /\ runner = NoThread /\ action = Nothing
  /\ queuedActionsToRun = <<>>
  /\ told = [w \in Watcher |-> <<>>]
  /\ mainRunLoop = <<>>
  /\ shown = [w \in Screen |-> {}]

\* Defect: an action that comes while another is run is run at once.
RunsAtOnce(t, a) ==
  /\ runner' = t /\ action' = a
  /\ UNCHANGED queuedActionsToRun

\* queueRun, called by thread t
QueueRun(t, a) ==
  IF runner # NoThread
  THEN /\ queuedActionsToRun' = Append(queuedActionsToRun, a)
       /\ UNCHANGED <<runner, action>>
  ELSE /\ runner' = t /\ action' = a
       /\ UNCHANGED queuedActionsToRun

-----------------------------------------------------------------------------
(* The actions, as the runner runs them *)

\* A callback is called: a screen's shows the value at once if that happens on
\* the main thread, and otherwise when the main thread gets to it.
Called(w, v) ==
  /\ told' = [told EXCEPT ![w] = Append(@, v)]
  /\ IF w \notin Screen THEN UNCHANGED <<mainRunLoop, shown>>
     ELSE IF runner = Main
     THEN shown' = [shown EXCEPT ![w] = @ \cup {v}] /\ UNCHANGED mainRunLoop
     ELSE mainRunLoop' = Append(mainRunLoop, <<w, v>>) /\ UNCHANGED shown

\* Defect: who begins to watch a sealed value is not told it.
RunWatchUnlessSealed(w) ==
  /\ action = Watch(w)
  /\ IF sealed THEN UNCHANGED <<told, mainRunLoop, shown>> ELSE Called(w, currentValue)
  /\ callbacks' = IF sealed THEN callbacks ELSE callbacks \cup {w}
  /\ action' = Nothing
  /\ UNCHANGED <<currentValue, sealed, toTell, runner, queuedActionsToRun>>

RunWatch(w) ==
  /\ action = Watch(w)
  /\ Called(w, currentValue)
  /\ callbacks' = IF sealed THEN callbacks ELSE callbacks \cup {w}
  /\ action' = Nothing
  /\ UNCHANGED <<currentValue, sealed, toTell, runner, queuedActionsToRun>>

RunStopWatching(w) ==
  /\ action = StopWatching(w)
  /\ callbacks' = callbacks \ {w}
  /\ action' = Nothing
  /\ UNCHANGED <<currentValue, sealed, toTell, told, mainRunLoop, shown, runner,
                 queuedActionsToRun>>

\* A step back changes nothing; anything else, the same again included, is told.
RunAdjust(v) ==
  /\ action = Adjust(v)
  /\ IF v < currentValue
     THEN UNCHANGED <<currentValue, toTell>>
     ELSE currentValue' = v /\ toTell' = callbacks
  /\ action' = Nothing
  /\ UNCHANGED <<sealed, callbacks, told, mainRunLoop, shown, runner, queuedActionsToRun>>

\* The callbacks of a set are called in any order.
Tell(w) ==
  /\ w \in toTell
  /\ toTell' = toTell \ {w}
  /\ Called(w, currentValue)
  /\ UNCHANGED <<currentValue, sealed, callbacks, runVars>>

RunSeal ==
  /\ action = Seal
  /\ sealed' = TRUE /\ callbacks' = {}
  /\ action' = Nothing
  /\ UNCHANGED <<currentValue, toTell, told, mainRunLoop, shown, runner, queuedActionsToRun>>

\* The loop of queueRun
NextAction ==
  /\ runner # NoThread /\ action = Nothing /\ toTell = {}
  /\ IF queuedActionsToRun # <<>>
     THEN /\ action' = Head(queuedActionsToRun)
          /\ queuedActionsToRun' = Tail(queuedActionsToRun)
          /\ UNCHANGED runner
     ELSE /\ runner' = NoThread
          /\ UNCHANGED <<action, queuedActionsToRun>>
  /\ UNCHANGED valueVars

Runs ==
  \/ \E w \in Watcher : RunWatch(w) \/ RunStopWatching(w) \/ Tell(w)
  \/ \E v \in Value : RunAdjust(v)
  \/ RunSeal
  \/ NextAction

\* Operation asyncRun:onThread:, when the main thread has nothing else to do
Show ==
  /\ mainRunLoop # <<>> /\ runner # Main
  /\ LET w == Head(mainRunLoop)[1]
     IN shown' = [shown EXCEPT ![w] = @ \cup {Head(mainRunLoop)[2]}]
  /\ mainRunLoop' = Tail(mainRunLoop)
  /\ UNCHANGED <<currentValue, sealed, callbacks, toTell, told, runVars>>

-----------------------------------------------------------------------------

ObservableTypeOK ==
  /\ currentValue \in Value /\ sealed \in BOOLEAN
  /\ callbacks \subseteq Watcher /\ toTell \subseteq Watcher
  /\ runner \in Thread \cup {NoThread}
  /\ action \in Action \cup {Nothing}
  /\ queuedActionsToRun \in Seq(Action)
  /\ told \in [Watcher -> Seq(Value)]
  /\ mainRunLoop \in Seq(Screen \X Value)
  /\ shown \in [Screen -> SUBSET Value]
  /\ runner = NoThread => action = Nothing /\ toTell = {} /\ queuedActionsToRun = <<>>

(***************************************************************************)
(* requireState(!sealed) never fails (ObservableValue.m:102): no change    *)
(* comes after the seal, from whichever threads and in whichever order     *)
(* they were called.  If it did, the exception would leave what is queued  *)
(* to nobody (ObservableValue.m:63-70).                                    *)
(***************************************************************************)
NeverRefused == \A v \in Value : action = Adjust(v) /\ v >= currentValue => ~sealed

\* What each watcher has been told when the change that is on its way is complete.
ToldSoon ==
  [w \in Watcher |-> IF w \in toTell THEN Append(told[w], currentValue) ELSE told[w]]

Stream == INSTANCE ValueStream WITH
  value <- currentValue, final <- sealed, watching <- callbacks, told <- ToldSoon

(***************************************************************************)
(* Whatever threads and callbacks do meanwhile, a watcher is told the      *)
(* value and then every change, once and in order, until it stops or the   *)
(* value is sealed: the observable implements ValueStream                  *)
(* (ObservableValue.m:16-32, 51-130).                                      *)
(***************************************************************************)
TellsEveryChange == Stream!Spec
=============================================================================
