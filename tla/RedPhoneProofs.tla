--------------------------- MODULE RedPhoneProofs ---------------------------
(***************************************************************************)
(* The progress of a RedPhone call, for any number of threads, watchers    *)
(* and values, and the safety of the calls, for any number of calls and    *)
(* sessions and any number of attempts to contact the relay.               *)
(***************************************************************************)
EXTENDS RedPhoneCalls, CallProgress, TLAPS

-----------------------------------------------------------------------------
(***************************************************************************)
(* The progress of a call is never changed after it was sealed, and it     *)
(* implements ValueStream.                                                 *)
(*                                                                         *)
(* What makes this inductive is where the change to Terminated can be: it  *)
(* is made once, by the thread that terminates the call, and a seal or a   *)
(* removal is queued only behind it.  The same argument, for the action    *)
(* that begins to watch, shows that nobody watches twice.                  *)
(***************************************************************************)
Final == Adjust(Terminated)
Closing == {Seal} \cup {StopWatching(w) : w \in Watcher}

Queued(a) == \E i \in 1 .. Len(queuedActionsToRun) : queuedActionsToRun[i] = a
Awaits(a) == action = a \/ Queued(a)

Single(a) ==
  /\ action = a => ~Queued(a)
  /\ \A i, j \in 1 .. Len(queuedActionsToRun) :
       queuedActionsToRun[i] = a /\ queuedActionsToRun[j] = a => i = j

RunInv ==
  /\ runner \in Thread \cup {NoThread}
  /\ action \in Action \cup {Nothing}
  /\ queuedActionsToRun \in Seq(Action)
  /\ runner = NoThread => action = Nothing /\ queuedActionsToRun = <<>>

Decided == currentValue = Terminated \/ Awaits(Final)

ClosingIsLast ==
  /\ action \in Closing => currentValue = Terminated
  /\ \A i \in 1 .. Len(queuedActionsToRun) :
       queuedActionsToRun[i] \in Closing =>
         \/ currentValue = Terminated \/ action = Final
         \/ \E j \in 1 .. i - 1 : queuedActionsToRun[j] = Final

LEMMA Actions ==
  /\ Nothing \notin Action /\ Final \in Action /\ Closing \subseteq Action
  /\ Final \notin Closing
  /\ \A w \in Watcher : Watch(w) \in Action /\ Watch(w) \notin Closing /\ Watch(w) # Final
  /\ \A v, w \in Watcher : Watch(v) = Watch(w) => v = w
  /\ \A w \in Watcher : \A v \in Value : Watch(w) # Adjust(v)
  /\ \A v \in Value : /\ Adjust(v) \in Action /\ Adjust(v) \notin Closing
                      /\ Adjust(v) = Final => v = Terminated
<1>1. /\ Nothing.kind = "none" /\ Seal.kind = "seal"
      /\ \A w : /\ Watch(w).kind = "watch" /\ Watch(w).watcher = w
                /\ StopWatching(w).kind = "stop"
      /\ \A v : Adjust(v).kind = "adjust" /\ Adjust(v).to = v
  BY DEF Nothing, Seal, Watch, StopWatching, Adjust
<1>2. Terminated \in Value  BY ObservableAssumption DEF Terminated, Value
<1>3. \A a \in Closing : a.kind \in {"seal", "stop"}  BY <1>1 DEF Closing
<1>4. \A a \in Action : a.kind \in {"watch", "stop", "adjust", "seal"}  BY <1>1 DEF Action
<1>5. /\ Final \in Action /\ Closing \subseteq Action
      /\ \A w \in Watcher : Watch(w) \in Action
      /\ \A v \in Value : Adjust(v) \in Action
  BY <1>2 DEF Final, Closing, Action
<1>6. Nothing \notin Action  BY <1>1, <1>4
<1>7. Final.kind = "adjust"  BY <1>1 DEF Final
<1>8. Final \notin Closing  BY <1>3, <1>7
<1>9. \A w \in Watcher : Watch(w) \notin Closing /\ Watch(w) # Final  BY <1>1, <1>3, <1>7
<1>10. \A v, w \in Watcher : Watch(v) = Watch(w) => v = w
  <2> SUFFICES ASSUME NEW v \in Watcher, NEW w \in Watcher, Watch(v) = Watch(w) PROVE v = w
    OBVIOUS
  <2>1. Watch(v).watcher = v /\ Watch(w).watcher = w  BY <1>1
  <2> QED  BY <2>1
<1>11. \A w \in Watcher : \A v \in Value : Watch(w) # Adjust(v)  BY <1>1
<1>12. \A v \in Value : Adjust(v) \notin Closing  BY <1>1, <1>3
<1>13. ASSUME NEW v \in Value, Adjust(v) = Final PROVE v = Terminated
  <2>1. Adjust(v).to = v /\ Final.to = Terminated  BY <1>1 DEF Final
  <2> QED  BY <1>13, <2>1
<1> QED  BY <1>5, <1>6, <1>8, <1>9, <1>10, <1>11, <1>12, <1>13

-----------------------------------------------------------------------------
(* What the queue of actions does *)

LEMMA QueueRunKeeps ==
  ASSUME RunInv, NEW t \in Thread, NEW b \in Action, QueueRun(t, b)
  PROVE  /\ RunInv'
         /\ \A a \in Action : Awaits(a)' <=> Awaits(a) \/ a = b
         /\ \A a \in Action : Single(a) /\ (a = b => ~Awaits(a)) => Single(a)'
         /\ action' = action \/ (runner = NoThread /\ action' = b)
<1>1. CASE runner = NoThread
  <2>1. action = Nothing /\ queuedActionsToRun = <<>> /\ runner' = t /\ action' = b
        /\ queuedActionsToRun' = <<>>
    BY <1>1 DEF RunInv, QueueRun
  <2>2. Len(queuedActionsToRun) = 0 /\ Len(queuedActionsToRun)' = 0  BY <2>1
  <2>3. RunInv'  BY <2>1, ObservableAssumption DEF RunInv
  <2>4. \A a : ~Queued(a) /\ ~Queued(a)'  BY <2>2 DEF Queued
  <2>5. \A a \in Action : Awaits(a)' <=> Awaits(a) \/ a = b
    BY <2>1, <2>4, Actions DEF Awaits
  <2>6. \A a \in Action : Single(a)'  BY <2>2, <2>4 DEF Single
  <2> QED  BY <1>1, <2>1, <2>3, <2>5, <2>6
<1>2. CASE runner # NoThread
  <2> DEFINE q == queuedActionsToRun
             p == Append(queuedActionsToRun, b)
  <2>1. queuedActionsToRun' = p /\ UNCHANGED <<runner, action>>
    BY <1>2 DEF QueueRun
  <2>2. /\ q \in Seq(Action) /\ p \in Seq(Action)
        /\ Len(q) \in Nat /\ Len(p) = Len(q) + 1
        /\ p[Len(q) + 1] = b /\ \A i \in 1 .. Len(q) : p[i] = q[i]
    BY DEF RunInv
  <2>3. RunInv'  BY <1>2, <2>1, <2>2 DEF RunInv
  <2> HIDE DEF q, p
  <2>4. \A a : Queued(a) <=> \E i \in 1 .. Len(q) : q[i] = a  BY DEF Queued, q
  <2>5. \A a : Queued(a)' <=> \E i \in 1 .. Len(p) : p[i] = a  BY <2>1 DEF Queued
  <2>6. ASSUME NEW a \in Action PROVE Queued(a)' <=> Queued(a) \/ a = b
    <3>1. ASSUME NEW i \in 1 .. Len(p), p[i] = a PROVE Queued(a) \/ a = b
      <4>1. i \in 1 .. Len(q) \/ i = Len(q) + 1  BY <2>2
      <4> QED  BY <2>2, <2>4, <3>1, <4>1
    <3>2. ASSUME NEW i \in 1 .. Len(q), q[i] = a PROVE Queued(a)'
      <4>1. i \in 1 .. Len(p) /\ p[i] = a  BY <2>2, <3>2
      <4> QED  BY <2>5, <4>1
    <3>3. ASSUME a = b PROVE Queued(a)'
      <4>1. Len(q) + 1 \in 1 .. Len(p)  BY <2>2
      <4> QED  BY <2>2, <2>5, <3>3, <4>1
    <3> QED  BY <2>4, <2>5, <3>1, <3>2, <3>3
  <2>7. \A a \in Action : Awaits(a)' <=> Awaits(a) \/ a = b  BY <2>1, <2>6 DEF Awaits
  <2>8. ASSUME NEW a \in Action, Single(a), a = b => ~Awaits(a) PROVE Single(a)'
    <3>1. action' = a => ~Queued(a)'  BY <2>1, <2>6, <2>8 DEF Single, Awaits
    <3>2. ASSUME NEW i \in 1 .. Len(p), NEW j \in 1 .. Len(p), p[i] = a, p[j] = a
          PROVE  i = j
      <4>1. /\ i \in 1 .. Len(q) \/ i = Len(q) + 1
            /\ j \in 1 .. Len(q) \/ j = Len(q) + 1
        BY <2>2
      <4>2. CASE i \in 1 .. Len(q) /\ j \in 1 .. Len(q)
        BY <2>2, <2>8, <3>2, <4>2 DEF Single, q
      <4>3. CASE i = Len(q) + 1 /\ j \in 1 .. Len(q)
        BY <2>2, <2>4, <2>8, <3>2, <4>3 DEF Awaits
      <4>4. CASE j = Len(q) + 1 /\ i \in 1 .. Len(q)
        BY <2>2, <2>4, <2>8, <3>2, <4>4 DEF Awaits
      <4> QED  BY <4>1, <4>2, <4>3, <4>4
    <3> QED  BY <2>1, <3>1, <3>2 DEF Single
  <2> QED  BY <2>1, <2>3, <2>7, <2>8
<1> QED  BY <1>1, <1>2

LEMMA NextActionKeeps ==
  ASSUME RunInv, NextAction
  PROVE  /\ RunInv'
         /\ \A a \in Action : Awaits(a)' <=> Awaits(a)
         /\ \A a \in Action : Single(a) => Single(a)'
<1>1. CASE queuedActionsToRun = <<>>
  <2>1. UNCHANGED <<action, queuedActionsToRun>> /\ runner' = NoThread /\ action = Nothing
    BY <1>1 DEF NextAction
  <2> QED  BY <1>1, <2>1 DEF RunInv, Awaits, Single, Queued
<1>2. CASE queuedActionsToRun # <<>>
  <2> DEFINE q == queuedActionsToRun
             p == Tail(queuedActionsToRun)
  <2>1. /\ runner # NoThread /\ runner' = runner
        /\ action = Nothing /\ action' = Head(q) /\ queuedActionsToRun' = p
    BY <1>2 DEF NextAction
  <2>2. /\ Head(q) = q[1] /\ Head(q) \in Action /\ p \in Seq(Action)
        /\ Len(q) \in Nat \ {0} /\ Len(p) = Len(q) - 1
        /\ \A i \in 1 .. Len(p) : p[i] = q[i + 1]
    BY <1>2 DEF RunInv
  <2>3. RunInv'  BY <2>1, <2>2 DEF RunInv
  <2> HIDE DEF q, p
  <2>4. \A a : Queued(a) <=> \E i \in 1 .. Len(q) : q[i] = a  BY DEF Queued, q
  <2>5. \A a : Queued(a)' <=> \E i \in 1 .. Len(p) : p[i] = a  BY <2>1 DEF Queued
  <2>6. ASSUME NEW a \in Action PROVE Queued(a) <=> a = q[1] \/ Queued(a)'
    <3>1. ASSUME NEW i \in 1 .. Len(q), q[i] = a PROVE a = q[1] \/ Queued(a)'
      <4>1. CASE i = 1  BY <3>1, <4>1
      <4>2. CASE i # 1
        <5>1. i - 1 \in 1 .. Len(p) /\ p[i - 1] = q[i]  BY <2>2, <4>2
        <5> QED  BY <2>5, <3>1, <5>1
      <4> QED  BY <4>1, <4>2
    <3>2. ASSUME NEW i \in 1 .. Len(p), p[i] = a PROVE Queued(a)
      <4>1. i + 1 \in 1 .. Len(q) /\ q[i + 1] = a  BY <2>2, <3>2
      <4> QED  BY <2>4, <4>1
    <3>3. 1 \in 1 .. Len(q)  BY <2>2
    <3> QED  BY <2>4, <2>5, <3>1, <3>2, <3>3
  <2>7. \A a \in Action : Awaits(a)' <=> Awaits(a)
    BY <2>1, <2>2, <2>6, Actions DEF Awaits
  <2>8. ASSUME NEW a \in Action, Single(a) PROVE Single(a)'
    <3>1. \A i, j \in 1 .. Len(q) : q[i] = a /\ q[j] = a => i = j  BY <2>8 DEF Single, q
    <3>2. ASSUME NEW i \in 1 .. Len(p), NEW j \in 1 .. Len(p), p[i] = a, p[j] = a
          PROVE  i = j
      <4>1. i + 1 \in 1 .. Len(q) /\ j + 1 \in 1 .. Len(q)  BY <2>2
      <4>2. q[i + 1] = a /\ q[j + 1] = a  BY <2>2, <3>2
      <4> QED  BY <3>1, <4>1, <4>2
    <3>3. ASSUME q[1] = a, NEW i \in 1 .. Len(p), p[i] = a PROVE FALSE
      <4>1. 1 \in 1 .. Len(q) /\ i + 1 \in 1 .. Len(q) /\ q[i + 1] = a  BY <2>2, <3>3
      <4> QED  BY <3>1, <3>3, <4>1
    <3> QED  BY <2>1, <2>2, <2>5, <3>2, <3>3 DEF Single
  <2> QED  BY <2>3, <2>7, <2>8
<1> QED  BY <1>1, <1>2

LEMMA RunKeeps ==
  ASSUME RunInv, action # Nothing, action' = Nothing, UNCHANGED <<runner, queuedActionsToRun>>
  PROVE  /\ RunInv'
         /\ \A a \in Action : Awaits(a)' <=> Queued(a)
         /\ \A a \in Action : Single(a) => Single(a)' /\ (action = a => ~Awaits(a)')
<1>1. RunInv'  BY DEF RunInv
<1>2. \A a \in Action : Awaits(a)' <=> Queued(a)  BY Actions DEF Awaits, Queued
<1>3. \A a \in Action : Single(a) => Single(a)'  BY Actions DEF Single, Queued
<1>4. \A a \in Action : Single(a) /\ action = a => ~Queued(a)  BY DEF Single
<1> QED  BY <1>1, <1>2, <1>3, <1>4

LEMMA RestKeeps ==
  ASSUME UNCHANGED runVars
  PROVE  /\ RunInv => RunInv'
         /\ \A a : (Awaits(a)' <=> Awaits(a)) /\ (Single(a)' <=> Single(a))
  BY DEF runVars, RunInv, Awaits, Single, Queued

-----------------------------------------------------------------------------
(* Types *)

Tells == /\ told \in [Watcher -> Seq(Value)]
         /\ mainRunLoop \in Seq(Screen \X Value)
         /\ shown \in [Screen -> SUBSET Value]

LEMMA CalledKeeps ==
  ASSUME Tells, NEW w \in Watcher, NEW v \in Value, Called(w, v)
  PROVE  Tells'
<1>1. told' \in [Watcher -> Seq(Value)]
  <2>1. Append(told[w], v) \in Seq(Value)  BY DEF Tells
  <2> QED  BY <2>1 DEF Tells, Called
<1>2. CASE w \notin Screen  BY <1>1, <1>2 DEF Tells, Called
<1>3. CASE w \in Screen /\ runner = Main
  <2>1. shown' = [shown EXCEPT ![w] = @ \cup {v}] /\ UNCHANGED mainRunLoop  BY <1>3 DEF Called
  <2>2. shown' \in [Screen -> SUBSET Value]  BY <1>3, <2>1 DEF Tells
  <2> QED  BY <1>1, <2>1, <2>2 DEF Tells
<1>4. CASE w \in Screen /\ runner # Main
  <2>1. mainRunLoop' = Append(mainRunLoop, <<w, v>>) /\ UNCHANGED shown  BY <1>4 DEF Called
  <2>2. mainRunLoop' \in Seq(Screen \X Value)  BY <1>4, <2>1 DEF Tells
  <2> QED  BY <1>1, <2>1, <2>2 DEF Tells
<1> QED  BY <1>2, <1>3, <1>4

ValueTypes ==
  /\ currentValue \in Value /\ sealed \in BOOLEAN
  /\ callbacks \subseteq Watcher /\ toTell \subseteq Watcher
  /\ runner = NoThread => toTell = {}

ControllerTypes ==
  /\ terminated \in BOOLEAN /\ cancelled \in BOOLEAN
  /\ at \in [Thread -> Place]
  /\ handlers \subseteq Watcher /\ watched \subseteq Watcher
  /\ advances \in 0 .. MaxAdvances

LEMMA Types ==
  /\ ProgressTypeOK <=> RunInv /\ Tells /\ ValueTypes /\ ControllerTypes
  /\ ProgressTypeOK' <=> (RunInv /\ Tells /\ ValueTypes /\ ControllerTypes)'
  BY DEF ProgressTypeOK, ObservableTypeOK, RunInv, Tells, ValueTypes, ControllerTypes

LEMMA TypesInit == ProgressInit => ProgressTypeOK
<1> SUFFICES ASSUME ProgressInit PROVE ProgressTypeOK
  OBVIOUS
<1> USE DEF ProgressInit, ObservableInit
<1>1. RunInv  BY DEF RunInv
<1>2. Tells
  <2>1. 0 \in Value  BY ObservableAssumption DEF Value
  <2> QED  BY <2>1 DEF Tells
<1>3. ValueTypes
  <2>1. 0 \in Value  BY ObservableAssumption DEF Value
  <2> QED  BY <2>1 DEF ValueTypes
<1>4. ControllerTypes
  <2>1. Idle \in Place  BY DEF Place
  <2>2. at \in [Thread -> Place]  BY <2>1
  <2>3. advances \in 0 .. MaxAdvances  BY ProgressAssumption
  <2> QED  BY <2>2, <2>3 DEF ControllerTypes
<1> QED  BY <1>1, <1>2, <1>3, <1>4, Types

\* What a call of an operation keeps: it may queue an action and changes no value.
LEMMA CallKeepsTypes ==
  ASSUME ProgressTypeOK, UNCHANGED valueVars,
         UNCHANGED runVars \/ \E t \in Thread, a \in Action : QueueRun(t, a)
  PROVE  RunInv' /\ Tells' /\ ValueTypes'
<1>1. RunInv /\ Tells /\ ValueTypes  BY Types
<1>2. RunInv'  BY <1>1, QueueRunKeeps, RestKeeps
<1>3. Tells'  BY <1>1 DEF Tells, valueVars
<1>4. runner' = NoThread => runner = NoThread
  <2>1. CASE UNCHANGED runVars  BY <2>1 DEF runVars
  <2>2. ASSUME NEW t \in Thread, NEW a \in Action, QueueRun(t, a)
        PROVE  runner' = NoThread => runner = NoThread
    BY <2>2, ObservableAssumption DEF QueueRun
  <2> QED  BY <2>1, <2>2
<1>5. ValueTypes'  BY <1>1, <1>4 DEF ValueTypes, valueVars
<1> QED  BY <1>2, <1>3, <1>5

\* The calls of operations, as far as the value and the queue are concerned.
LEMMA CallingInv ==
  ASSUME ProgressTypeOK, NEW t \in Thread,
         \/ \E v \in Value : Advance(t, v)
         \/ \E w \in Watcher : EnableBackground(t, w) \/ Register(t, w)
         \/ \E w \in Screen : WatchOnScreen(w)
         \/ Terminate(t) \/ AdvanceToTerminated(t) \/ Cancel(t) \/ SealProgress(t)
  PROVE  /\ UNCHANGED valueVars
         /\ UNCHANGED runVars \/ \E s \in Thread, a \in Action : QueueRun(s, a)
<1>1. /\ \A v \in Value : Adjust(v) \in Action
      /\ \A w \in Watcher : Watch(w) \in Action /\ StopWatching(w) \in Action
      /\ Seal \in Action /\ Terminated \in Value /\ Main \in Thread /\ Screen \subseteq Watcher
  BY ObservableAssumption DEF Action, Terminated, Value
<1>2. handlers \subseteq Watcher  BY DEF ProgressTypeOK
<1>3. CASE \E v \in Value : Advance(t, v)  BY <1>1, <1>3 DEF Advance
<1>4. CASE \E w \in Watcher : EnableBackground(t, w)  BY <1>1, <1>4 DEF EnableBackground
<1>5. CASE \E w \in Watcher : Register(t, w)  BY <1>1, <1>5 DEF Register
<1>6. CASE \E w \in Screen : WatchOnScreen(w)  BY <1>1, <1>6 DEF WatchOnScreen
<1>7. CASE Terminate(t)  BY <1>7 DEF Terminate, observableVars
<1>8. CASE AdvanceToTerminated(t)  BY <1>1, <1>8 DEF AdvanceToTerminated
<1>9. CASE Cancel(t)  BY <1>1, <1>2, <1>9 DEF Cancel
<1>10. CASE SealProgress(t)  BY <1>1, <1>10 DEF SealProgress
<1> QED  BY <1>3, <1>4, <1>5, <1>6, <1>7, <1>8, <1>9, <1>10

LEMMA ControllerTypesStep ==
  ASSUME ProgressTypeOK, NEW t \in Thread,
         \/ \E v \in Value : Advance(t, v)
         \/ \E w \in Watcher : EnableBackground(t, w) \/ Register(t, w)
         \/ \E w \in Screen : WatchOnScreen(w)
         \/ Terminate(t) \/ AdvanceToTerminated(t) \/ Cancel(t) \/ SealProgress(t)
  PROVE  ControllerTypes'
<1>1. ControllerTypes  BY Types
<1>2. at \in [Thread -> Place]  BY <1>1 DEF ControllerTypes
<1>3. \A p \in Place : Goes(t, p) => at' \in [Thread -> Place]  BY <1>2 DEF Goes
<1>4. /\ Idle \in Place /\ At("advancing") \in Place /\ At("cancelling") \in Place
      /\ At("sealing") \in Place /\ \A w \in Watcher : Registering(w) \in Place
  BY DEF Place
<1>5. CASE \E v \in Value : Advance(t, v)
  BY <1>1, <1>5, ProgressAssumption DEF ControllerTypes, Advance
<1>6. ASSUME NEW w \in Watcher, EnableBackground(t, w) PROVE ControllerTypes'
  <2>1. at' \in [Thread -> Place]  BY <1>2, <1>3, <1>4, <1>6 DEF EnableBackground
  <2> QED  BY <1>1, <1>6, <2>1 DEF ControllerTypes, EnableBackground
<1>7. ASSUME NEW w \in Watcher, Register(t, w) PROVE ControllerTypes'
  <2>1. at' \in [Thread -> Place]  BY <1>3, <1>4, <1>7 DEF Register
  <2> QED  BY <1>1, <1>7, <2>1 DEF ControllerTypes, Register
<1>8. CASE \E w \in Screen : WatchOnScreen(w)
  BY <1>1, <1>8, ObservableAssumption DEF ControllerTypes, WatchOnScreen
<1>9. CASE Terminate(t)  BY <1>1, <1>3, <1>4, <1>9 DEF ControllerTypes, Terminate
<1>10. CASE AdvanceToTerminated(t)
  BY <1>1, <1>3, <1>4, <1>10 DEF ControllerTypes, AdvanceToTerminated
<1>11. CASE Cancel(t)
  <2>1. at' \in [Thread -> Place]  BY <1>2, <1>3, <1>4, <1>11 DEF Cancel
  <2>2. handlers' \subseteq Watcher  BY <1>1, <1>11 DEF ControllerTypes, Cancel
  <2> QED  BY <1>1, <1>11, <2>1, <2>2 DEF ControllerTypes, Cancel
<1>12. CASE SealProgress(t)  BY <1>1, <1>3, <1>4, <1>12 DEF ControllerTypes, SealProgress
<1> QED  BY <1>5, <1>6, <1>7, <1>8, <1>9, <1>10, <1>11, <1>12

LEMMA TypesStep == ProgressTypeOK /\ [ProgressNext]_progressVars => ProgressTypeOK'
<1> SUFFICES ASSUME ProgressTypeOK, [ProgressNext]_progressVars PROVE ProgressTypeOK'
  OBVIOUS
<1>1. RunInv /\ Tells /\ ValueTypes /\ ControllerTypes  BY Types
<1>2. ASSUME NEW t \in Thread,
             \/ \E v \in Value : Advance(t, v)
             \/ \E w \in Watcher : EnableBackground(t, w) \/ Register(t, w)
             \/ \E w \in Screen : WatchOnScreen(w)
             \/ Terminate(t) \/ AdvanceToTerminated(t) \/ Cancel(t) \/ SealProgress(t)
      PROVE  ProgressTypeOK'
  <2>1. ControllerTypes'  BY <1>2, ControllerTypesStep
  <2>2. RunInv' /\ Tells' /\ ValueTypes'  BY <1>2, CallingInv, CallKeepsTypes
  <2> QED  BY <2>1, <2>2, Types
<1>3. UNCHANGED controllerVars => ControllerTypes'
  BY <1>1 DEF controllerVars, ControllerTypes
<1>4. ASSUME NEW w \in Watcher, RunWatch(w) PROVE RunInv' /\ Tells' /\ ValueTypes'
  <2>1. currentValue \in Value /\ action # Nothing
    BY <1>1, <1>4, Actions DEF ValueTypes, RunWatch
  <2>2. Tells'  BY <1>1, <1>4, <2>1, CalledKeeps DEF RunWatch
  <2>3. RunInv'  BY <1>1, <1>4, <2>1, RunKeeps DEF RunWatch
  <2> QED  BY <1>1, <1>4, <2>2, <2>3 DEF ValueTypes, RunWatch
<1>5. ASSUME NEW w \in Watcher, RunStopWatching(w) PROVE RunInv' /\ Tells' /\ ValueTypes'
  <2>1. RunInv'  BY <1>1, <1>5 DEF RunInv, RunStopWatching
  <2> QED  BY <1>1, <1>5, <2>1 DEF Tells, ValueTypes, RunStopWatching
<1>6. ASSUME NEW w \in Watcher, Tell(w) PROVE RunInv' /\ Tells' /\ ValueTypes'
  <2>1. Tells'  BY <1>1, <1>6, CalledKeeps DEF Tell, ValueTypes
  <2>2. RunInv'  BY <1>1, <1>6, RestKeeps DEF Tell
  <2> QED  BY <1>1, <1>6, <2>1, <2>2 DEF ValueTypes, Tell, runVars
<1>7. ASSUME NEW v \in Value, RunAdjust(v) PROVE RunInv' /\ Tells' /\ ValueTypes'
  <2>1. RunInv'  BY <1>1, <1>7 DEF RunInv, RunAdjust
  <2>2. Tells'  BY <1>1, <1>7 DEF Tells, RunAdjust
  <2>0. action # Nothing
    <3>1. action = Adjust(v)  BY <1>7 DEF RunAdjust
    <3>2. Adjust(v) \in Action  BY Actions
    <3>3. Nothing \notin Action  BY Actions
    <3> QED  BY <3>1, <3>2, <3>3
  <2>3. runner # NoThread  BY <1>1, <2>0 DEF RunInv
  <2>4. ValueTypes'  BY <1>1, <1>7, <2>3 DEF ValueTypes, RunAdjust
  <2> QED  BY <2>1, <2>2, <2>4
<1>8. ASSUME RunSeal PROVE RunInv' /\ Tells' /\ ValueTypes'
  <2>1. RunInv'  BY <1>1, <1>8 DEF RunInv, RunSeal
  <2>2. Tells'  BY <1>1, <1>8 DEF Tells, RunSeal
  <2>3. ValueTypes'  BY <1>1, <1>8 DEF ValueTypes, RunSeal
  <2> QED  BY <2>1, <2>2, <2>3
<1>9. ASSUME NextAction PROVE RunInv' /\ Tells' /\ ValueTypes'
  <2>1. RunInv'  BY <1>1, <1>9, NextActionKeeps
  <2> QED  BY <1>1, <1>9, <2>1 DEF Tells, ValueTypes, NextAction, valueVars
<1>10. ASSUME Show PROVE RunInv' /\ Tells' /\ ValueTypes'
  <2>1. RunInv'  BY <1>1, <1>10, RestKeeps DEF Show
  <2>2. Head(mainRunLoop) \in Screen \X Value /\ Tail(mainRunLoop) \in Seq(Screen \X Value)
    BY <1>1, <1>10 DEF Tells, Show
  <2>3. Tells'  BY <1>1, <1>10, <2>2 DEF Tells, Show
  <2> QED  BY <1>1, <1>10, <2>1, <2>3 DEF ValueTypes, Show, runVars
<1>11. CASE Runs /\ UNCHANGED controllerVars
  <2>1. ASSUME \E w \in Watcher : RunWatch(w) \/ RunStopWatching(w) \/ Tell(w)
        PROVE  RunInv' /\ Tells' /\ ValueTypes'
   
    BY <1>4, <1>5, <1>6, <2>1
  <2>2. ASSUME \E v \in Value : RunAdjust(v)
        PROVE  RunInv' /\ Tells' /\ ValueTypes'
     BY <1>7, <2>2
  <2>3. RunInv' /\ Tells' /\ ValueTypes'  BY <1>8, <1>9, <1>11, <2>1, <2>2 DEF Runs
  <2>4. ControllerTypes'  BY <1>3, <1>11
  <2> QED  BY <2>3, <2>4, Types
<1>12. CASE Show /\ at[Main] = Idle /\ UNCHANGED controllerVars
  <2>1. RunInv' /\ Tells' /\ ValueTypes' /\ ControllerTypes'  BY <1>3, <1>10, <1>12
  <2> QED  BY <2>1, Types
<1>13. CASE UNCHANGED progressVars
  <2>1. UNCHANGED valueVars /\ UNCHANGED runVars /\ UNCHANGED controllerVars
    BY <1>13 DEF progressVars, observableVars
  <2>2. RunInv' /\ Tells' /\ ValueTypes'  BY <2>1, CallKeepsTypes
  <2>3. ControllerTypes'  BY <1>3, <2>1
  <2> QED  BY <2>2, <2>3, Types
<1>14. CASE \E t \in Thread : \/ \E v \in Value : Advance(t, v)
                              \/ \E w \in Watcher \ Screen : EnableBackground(t, w)
                              \/ Terminate(t)
  BY <1>2, <1>14
<1>15. CASE \E w \in Screen : WatchOnScreen(w)
  <2>1. Main \in Thread  BY ObservableAssumption
  <2> QED  BY <1>2, <1>15, <2>1
<1>16. CASE Continues  BY <1>2, <1>16 DEF Continues
<1> QED
  BY <1>11, <1>12, <1>13, <1>14, <1>15, <1>16 DEF ProgressNext

-----------------------------------------------------------------------------
(* The change to Terminated, and what is queued behind it *)

EndQueue ==
  /\ Single(Final)
  /\ currentValue = Terminated => ~Awaits(Final)
  /\ ClosingIsLast
  /\ sealed => currentValue = Terminated

LEMMA QueueRunKeepsClosing ==
  ASSUME RunInv, ClosingIsLast, NEW t \in Thread, NEW b \in Action, QueueRun(t, b),
         b \in Closing => Decided, currentValue' = currentValue
  PROVE  ClosingIsLast'
<1>1. CASE runner = NoThread
  <2>1. action = Nothing /\ queuedActionsToRun = <<>> /\ action' = b
        /\ queuedActionsToRun' = <<>>
    BY <1>1 DEF RunInv, QueueRun
  <2>2. Len(queuedActionsToRun) = 0 /\ Len(queuedActionsToRun)' = 0  BY <2>1
  <2>3. Final # Nothing  BY Actions
  <2>4. ~Awaits(Final)  BY <2>1, <2>2, <2>3 DEF Awaits, Queued
  <2>5. b \in Closing => currentValue = Terminated  BY <2>4 DEF Decided
  <2> QED  BY <2>1, <2>2, <2>5 DEF ClosingIsLast
<1>2. CASE runner # NoThread
  <2> DEFINE q == queuedActionsToRun
             p == Append(queuedActionsToRun, b)
  <2>1. queuedActionsToRun' = p /\ action' = action  BY <1>2 DEF QueueRun
  <2>2. /\ Len(q) \in Nat /\ Len(p) = Len(q) + 1
        /\ p[Len(q) + 1] = b /\ \A i \in 1 .. Len(q) : p[i] = q[i]
    BY DEF RunInv
  <2>3. /\ action \in Closing => currentValue = Terminated
        /\ \A i \in 1 .. Len(q) : q[i] \in Closing =>
             \/ currentValue = Terminated \/ action = Final
             \/ \E j \in 1 .. i - 1 : q[j] = Final
    BY DEF ClosingIsLast
  <2>4. b \in Closing => \/ currentValue = Terminated \/ action = Final
                         \/ \E j \in 1 .. Len(q) : q[j] = Final
    BY DEF Decided, Awaits, Queued
  <2> HIDE DEF q, p
  <2>5. ASSUME NEW i \in 1 .. Len(p), p[i] \in Closing
        PROVE  \/ currentValue = Terminated \/ action = Final
               \/ \E j \in 1 .. i - 1 : p[j] = Final
    <3>1. CASE i = Len(q) + 1  BY <2>2, <2>4, <2>5, <3>1
    <3>2. CASE i \in 1 .. Len(q)
      <4>1. \A j \in 1 .. i - 1 : p[j] = q[j]  BY <2>2, <3>2
      <4> QED  BY <2>2, <2>3, <2>5, <3>2, <4>1
    <3> QED  BY <2>2, <3>1, <3>2
  <2> QED  BY <2>1, <2>3, <2>5 DEF ClosingIsLast
<1> QED  BY <1>1, <1>2

LEMMA NextActionKeepsClosing ==
  ASSUME RunInv, ClosingIsLast, NextAction
  PROVE  ClosingIsLast'
<1>1. CASE queuedActionsToRun = <<>>
  <2>1. UNCHANGED <<action, queuedActionsToRun, currentValue>>
    BY <1>1 DEF NextAction, valueVars
  <2> QED  BY <2>1 DEF ClosingIsLast
<1>2. CASE queuedActionsToRun # <<>>
  <2> DEFINE q == queuedActionsToRun
             p == Tail(queuedActionsToRun)
  <2>1. /\ action = Nothing /\ action' = Head(q) /\ queuedActionsToRun' = p
        /\ currentValue' = currentValue
    BY <1>2 DEF NextAction, valueVars
  <2>2. /\ Head(q) = q[1]
        /\ Len(q) \in Nat \ {0} /\ Len(p) = Len(q) - 1
        /\ \A i \in 1 .. Len(p) : p[i] = q[i + 1]
    BY <1>2 DEF RunInv
  <2>3. Nothing # Final  BY Actions
  <2>4. \A i \in 1 .. Len(q) : q[i] \in Closing =>
             currentValue = Terminated \/ \E j \in 1 .. i - 1 : q[j] = Final
    BY <2>1, <2>3 DEF ClosingIsLast
  <2> HIDE DEF q, p
  <2>5. q[1] \in Closing => currentValue = Terminated
    <3>1. 1 \in 1 .. Len(q)  BY <2>2
    <3> QED  BY <2>4, <3>1
  <2>6. ASSUME NEW i \in 1 .. Len(p), p[i] \in Closing, currentValue # Terminated,
               q[1] # Final
        PROVE  \E j \in 1 .. i - 1 : p[j] = Final
    <3>1. i + 1 \in 1 .. Len(q) /\ q[i + 1] \in Closing  BY <2>2, <2>6
    <3>2. PICK j \in 1 .. i : q[j] = Final  BY <2>4, <2>6, <3>1
    <3>3. j # 1  BY <2>6, <3>2
    <3>4. j - 1 \in 1 .. i - 1 /\ j - 1 \in 1 .. Len(p)  BY <2>2, <3>3
    <3>5. p[j - 1] = Final  BY <2>2, <3>2, <3>4
    <3> QED  BY <3>4, <3>5
  <2> QED  BY <2>1, <2>2, <2>5, <2>6 DEF ClosingIsLast
<1> QED  BY <1>1, <1>2

LEMMA QueueRunKeepsEnd ==
  ASSUME RunInv, EndQueue, UNCHANGED valueVars,
         NEW t \in Thread, NEW b \in Action, QueueRun(t, b),
         b = Final => ~Decided, b \in Closing => Decided
  PROVE  EndQueue' /\ (Decided' <=> Decided \/ b = Final)
<1>1. Final \in Action /\ UNCHANGED <<currentValue, sealed>> /\ Terminated' = Terminated
  BY Actions DEF valueVars, Terminated
<1>2. Awaits(Final)' <=> Awaits(Final) \/ b = Final
  BY <1>1, QueueRunKeeps
<1>3. Single(Final)'  BY <1>1, QueueRunKeeps DEF EndQueue, Decided
<1>4. ClosingIsLast'  BY <1>1, QueueRunKeepsClosing DEF EndQueue
<1> QED  BY <1>1, <1>2, <1>3, <1>4 DEF EndQueue, Decided

LEMMA RestKeepsEnd ==
  ASSUME EndQueue, UNCHANGED <<currentValue, sealed, runVars>>
  PROVE  EndQueue' /\ (Decided' <=> Decided)
<1>1. (Awaits(Final)' <=> Awaits(Final)) /\ Single(Final)'  BY RestKeeps DEF EndQueue
<1>2. ClosingIsLast'  BY DEF EndQueue, ClosingIsLast, runVars
<1> QED  BY <1>1, <1>2 DEF EndQueue, Decided

\* An action other than the change to Terminated is run.
LEMMA RunKeepsEnd ==
  ASSUME RunInv, EndQueue, action \in Action, action # Final, action' = Nothing,
         UNCHANGED <<runner, queuedActionsToRun>>,
         currentValue' = Terminated <=> currentValue = Terminated,
         sealed' => currentValue' = Terminated
  PROVE  EndQueue' /\ (Decided' <=> Decided)
<1>1. action # Nothing /\ Final \in Action /\ Nothing \notin Closing  BY Actions
<1>2. (Awaits(Final)' <=> Awaits(Final)) /\ Single(Final)'
  BY <1>1, RunKeeps DEF EndQueue, Awaits
<1>3. ClosingIsLast'  BY <1>1 DEF EndQueue, ClosingIsLast
<1> QED  BY <1>2, <1>3 DEF EndQueue, Decided

LEMMA RunsKeepEnd ==
  ASSUME ProgressTypeOK, EndQueue, Runs \/ Show
  PROVE  EndQueue' /\ (Decided' <=> Decided)
<1>1. /\ RunInv /\ currentValue \in Value /\ currentValue <= Terminated
      /\ Terminated \in Value /\ \A v \in Value : v \in Int
  BY Types, ObservableAssumption DEF ValueTypes, Value, Terminated
<1>2. ASSUME NEW w \in Watcher, RunWatch(w) PROVE EndQueue' /\ (Decided' <=> Decided)
  <2>1. action \in Action /\ action # Final  BY <1>2, Actions DEF RunWatch
  <2> QED  BY <1>1, <1>2, <2>1, RunKeepsEnd DEF RunWatch, EndQueue
<1>3. ASSUME NEW w \in Watcher, RunStopWatching(w)
      PROVE  EndQueue' /\ (Decided' <=> Decided)
  <2>1. StopWatching(w) \in Closing  BY DEF Closing
  <2>2. action \in Action /\ action # Final  BY <1>3, <2>1, Actions DEF RunStopWatching
  <2> QED  BY <1>1, <1>3, <2>2, RunKeepsEnd DEF RunStopWatching, EndQueue
<1>4. ASSUME NEW w \in Watcher, Tell(w) PROVE EndQueue' /\ (Decided' <=> Decided)
  BY <1>4, RestKeepsEnd DEF Tell
<1>5. ASSUME NEW v \in Value, RunAdjust(v) PROVE EndQueue' /\ (Decided' <=> Decided)
  <2>1. CASE v = Terminated
    <3>1. action = Final /\ action # Nothing /\ Nothing \notin Closing /\ Final \in Action
      BY <1>5, <2>1, Actions DEF RunAdjust, Final
    <3>2. ~(v < currentValue)  BY <1>1, <2>1
    <3>3. currentValue' = Terminated /\ UNCHANGED <<sealed, runner, queuedActionsToRun>>
          /\ action' = Nothing
      BY <1>5, <2>1, <3>2 DEF RunAdjust
    <3>4. Single(Final)' /\ ~Awaits(Final)'  BY <1>1, <3>1, <3>3, RunKeeps DEF EndQueue
    <3>5. ClosingIsLast'  BY <3>1, <3>3 DEF ClosingIsLast, Terminated
    <3>6. Decided /\ Decided'  BY <3>1, <3>3 DEF Decided, Awaits, Terminated
    <3> QED  BY <3>3, <3>4, <3>5, <3>6 DEF EndQueue, Terminated
  <2>2. CASE v # Terminated
    <3>1. Adjust(v) \in Action /\ Adjust(v) # Final  BY <2>2, Actions
    <3>2. action \in Action /\ action # Final  BY <1>5, <3>1 DEF RunAdjust
    <3>3. v < Terminated  BY <1>1, <2>2, ObservableAssumption DEF Value, Terminated
    <3>4. currentValue' = Terminated <=> currentValue = Terminated
      BY <1>5, <2>2, <3>3 DEF RunAdjust
    <3>5. sealed' => currentValue' = Terminated  BY <1>5, <3>4 DEF RunAdjust, EndQueue
    <3>6. action' = Nothing /\ UNCHANGED <<runner, queuedActionsToRun>>  BY <1>5 DEF RunAdjust
    <3> QED  BY <1>1, <3>2, <3>4, <3>5, <3>6, RunKeepsEnd
  <2> QED  BY <2>1, <2>2
<1>6. ASSUME RunSeal PROVE EndQueue' /\ (Decided' <=> Decided)
  <2>1. Seal \in Closing  BY DEF Closing
  <2>2. action \in Action /\ action # Final /\ action \in Closing
    BY <1>6, <2>1, Actions DEF RunSeal
  <2>3. currentValue = Terminated  BY <2>2 DEF EndQueue, ClosingIsLast
  <2> QED  BY <1>1, <1>6, <2>2, <2>3, RunKeepsEnd DEF RunSeal
<1>7. ASSUME NextAction PROVE EndQueue' /\ (Decided' <=> Decided)
  <2>1. Final \in Action /\ UNCHANGED <<currentValue, sealed>>
    BY <1>7, Actions DEF NextAction, valueVars
  <2>2. (Awaits(Final)' <=> Awaits(Final)) /\ Single(Final)'
    BY <1>1, <1>7, <2>1, NextActionKeeps DEF EndQueue
  <2>3. ClosingIsLast'  BY <1>1, <1>7, NextActionKeepsClosing DEF EndQueue
  <2> QED  BY <2>1, <2>2, <2>3 DEF EndQueue, Decided, Terminated
<1>8. ASSUME Show PROVE EndQueue' /\ (Decided' <=> Decided)
  BY <1>8, RestKeepsEnd DEF Show
<1>9. ASSUME \E w \in Watcher : RunWatch(w) \/ RunStopWatching(w) \/ Tell(w)
      PROVE  EndQueue' /\ (Decided' <=> Decided)
  BY <1>2, <1>3, <1>4, <1>9
<1> QED  BY <1>5, <1>6, <1>7, <1>8, <1>9 DEF Runs

\* Who terminates the call makes the change, then closes.
EndThreads ==
  /\ Decided => terminated /\ \A t \in Thread : at[t] # At("advancing")
  /\ \A s, t \in Thread : at[s] = At("advancing") /\ at[t] = At("advancing") => s = t
  /\ \A t \in Thread :
       /\ at[t] = At("advancing") => terminated
       /\ at[t] \in {At("cancelling"), At("sealing")} => Decided
  /\ cancelled => Decided

EndInv == EndQueue /\ EndThreads

LEMMA Places ==
  /\ At("advancing") # Idle /\ At("cancelling") # Idle /\ At("sealing") # Idle
  /\ At("advancing") # At("cancelling") /\ At("advancing") # At("sealing")
  /\ \A w : /\ Registering(w) # At("advancing") /\ Registering(w) # At("cancelling")
           /\ Registering(w) # At("sealing")
<1>1. /\ Idle.step = "idle" /\ \A s : At(s).step = s
      /\ \A w : Registering(w).step = "registering"
  BY DEF Idle, At, Registering
<1>2. /\ At("advancing").step = "advancing" /\ At("cancelling").step = "cancelling"
      /\ At("sealing").step = "sealing"
  BY <1>1
<1> QED  BY <1>1, <1>2

LEMMA EndInit == ProgressInit => EndInv
<1> SUFFICES ASSUME ProgressInit PROVE EndInv
  OBVIOUS
<1> USE DEF ProgressInit, ObservableInit
<1>1. Len(queuedActionsToRun) = 0 /\ action = Nothing  OBVIOUS
<1>2. Final # Nothing /\ Nothing \notin Closing  BY Actions
<1>3. ~Awaits(Final) /\ Single(Final)  BY <1>1, <1>2 DEF Awaits, Queued, Single
<1>4. currentValue # Terminated /\ ~Decided
  BY <1>3, ObservableAssumption DEF Terminated, Decided
<1>5. \A t \in Thread : at[t] = Idle  OBVIOUS
<1>6. EndThreads  BY <1>4, <1>5, Places DEF EndThreads
<1>7. ClosingIsLast  BY <1>1, <1>2 DEF ClosingIsLast
<1> QED  BY <1>3, <1>4, <1>6, <1>7 DEF EndInv, EndQueue

LEMMA EndStep ==
  ProgressTypeOK /\ EndInv /\ [ProgressNext]_progressVars => EndInv'
<1> SUFFICES ASSUME ProgressTypeOK, EndInv, [ProgressNext]_progressVars PROVE EndInv'
  OBVIOUS
<1>1. RunInv /\ ControllerTypes /\ EndQueue /\ EndThreads  BY Types DEF EndInv
<1>2. at \in [Thread -> Place] /\ handlers \subseteq Watcher  BY <1>1 DEF ControllerTypes
<1>3. ASSUME EndQueue', Decided' <=> Decided, UNCHANGED <<terminated, cancelled, at>>
      PROVE  EndInv'
  BY <1>1, <1>3 DEF EndInv, EndThreads
<1>4. ASSUME NEW t \in Thread, NEW p \in {Idle} \cup {Registering(w) : w \in Watcher},
             Goes(t, p), EndQueue', Decided' <=> Decided, UNCHANGED <<terminated, cancelled>>
      PROVE  EndInv'
  <2>1. \A s \in Thread : at'[s] = IF s = t THEN p ELSE at[s]  BY <1>2, <1>4 DEF Goes
  <2>2. p \notin {At("advancing"), At("cancelling"), At("sealing")}  BY <1>4, Places
  <2> QED  BY <1>1, <1>4, <2>1, <2>2 DEF EndInv, EndThreads
<1>5. ASSUME NEW t \in Thread, NEW v \in Value, Advance(t, v) PROVE EndInv'
  <2>1. v # Terminated
    BY <1>5, ObservableAssumption DEF Advance, Value, Terminated
  <2>2. Adjust(v) \in Action /\ Adjust(v) # Final /\ Adjust(v) \notin Closing
    BY <2>1, Actions
  <2>3. EndQueue' /\ (Decided' <=> Decided)
    BY <1>1, <1>5, <2>2, QueueRunKeepsEnd DEF Advance
  <2> QED  BY <1>3, <1>5, <2>3 DEF Advance
<1>6. ASSUME NEW t \in Thread, NEW w \in Watcher, EnableBackground(t, w) PROVE EndInv'
  <2>1. CASE cancelled
    <3>1. UNCHANGED <<currentValue, sealed, runVars>> /\ UNCHANGED <<terminated, cancelled, at>>
      BY <1>6, <2>1 DEF EnableBackground, valueVars
    <3> QED  BY <1>1, <1>3, <3>1, RestKeepsEnd
  <2>2. CASE ~cancelled
    <3>1. Watch(w) \in Action /\ Watch(w) # Final /\ Watch(w) \notin Closing  BY Actions
    <3>2. EndQueue' /\ (Decided' <=> Decided)
      BY <1>1, <1>6, <2>2, <3>1, QueueRunKeepsEnd DEF EnableBackground
    <3> QED  BY <1>4, <1>6, <2>2, <3>2 DEF EnableBackground
  <2> QED  BY <2>1, <2>2
<1>7. ASSUME NEW t \in Thread, NEW w \in Watcher, Register(t, w) PROVE EndInv'
  <2>1. StopWatching(w) \in Closing /\ StopWatching(w) \in Action /\ StopWatching(w) # Final
    <3>1. StopWatching(w) \in Closing  BY DEF Closing
    <3> QED  BY <3>1, Actions
  <2>2. CASE cancelled
    <3>1. Decided  BY <1>1, <2>2 DEF EndThreads
    <3>2. EndQueue' /\ (Decided' <=> Decided)
      BY <1>1, <1>7, <2>1, <2>2, <3>1, QueueRunKeepsEnd DEF Register
    <3> QED  BY <1>4, <1>7, <3>2 DEF Register
  <2>3. CASE ~cancelled
    <3>1. EndQueue' /\ (Decided' <=> Decided)
      BY <1>1, <1>7, <2>3, RestKeepsEnd DEF Register, valueVars
    <3> QED  BY <1>4, <1>7, <3>1 DEF Register
  <2> QED  BY <2>2, <2>3
<1>8. ASSUME NEW w \in Screen, WatchOnScreen(w) PROVE EndInv'
  <2>1. Main \in Thread /\ w \in Watcher  BY ObservableAssumption
  <2>2. Watch(w) \in Action /\ Watch(w) # Final /\ Watch(w) \notin Closing
    BY <2>1, Actions
  <2>3. EndQueue' /\ (Decided' <=> Decided)
    BY <1>1, <1>8, <2>1, <2>2, QueueRunKeepsEnd DEF WatchOnScreen
  <2> QED  BY <1>3, <1>8, <2>3 DEF WatchOnScreen
<1>9. ASSUME NEW t \in Thread, Terminate(t) PROVE EndInv'
  <2>1. EndQueue' /\ (Decided' <=> Decided)
    BY <1>1, <1>9, RestKeepsEnd DEF Terminate, observableVars, valueVars
  <2>2. ~Decided /\ \A s \in Thread : at[s] # At("advancing")
    BY <1>1, <1>9 DEF EndThreads, Terminate
  <2>3. \A s \in Thread : at'[s] = IF s = t THEN At("advancing") ELSE at[s]
    BY <1>2, <1>9 DEF Terminate, Goes
  <2>4. terminated' /\ cancelled' = cancelled  BY <1>9 DEF Terminate
  <2> QED  BY <1>1, <2>1, <2>2, <2>3, <2>4, Places DEF EndInv, EndThreads
<1>10. ASSUME NEW t \in Thread, AdvanceToTerminated(t) PROVE EndInv'
  <2>1. at[t] = At("advancing") /\ terminated /\ ~Decided
    BY <1>1, <1>10 DEF EndThreads, AdvanceToTerminated, Free
  <2>2. Final \in Action /\ Final \notin Closing  BY Actions
  <2>3. EndQueue' /\ Decided'
    BY <1>1, <1>10, <2>1, <2>2, QueueRunKeepsEnd DEF AdvanceToTerminated, Final
  <2>4. \A s \in Thread : at'[s] = IF s = t THEN At("cancelling") ELSE at[s]
    BY <1>2, <1>10 DEF AdvanceToTerminated, Goes
  <2>5. \A s \in Thread : at'[s] # At("advancing")
    BY <1>1, <2>1, <2>4, Places DEF EndThreads
  <2>6. terminated' = terminated  BY <1>10 DEF AdvanceToTerminated
  <2> QED  BY <2>1, <2>3, <2>5, <2>6 DEF EndInv, EndThreads
<1>11. ASSUME NEW t \in Thread, Cancel(t) PROVE EndInv'
  <2>1. Decided  BY <1>1, <1>11 DEF EndThreads, Cancel, Free
  <2>2. EndQueue' /\ (Decided' <=> Decided)
    <3>1. CASE handlers = {}
      BY <1>1, <1>11, <3>1, RestKeepsEnd DEF Cancel, valueVars
    <3>2. CASE handlers # {}
      <4>1. PICK w \in handlers : QueueRun(t, StopWatching(w))  BY <1>11, <3>2 DEF Cancel
      <4>2. StopWatching(w) \in Closing  BY <1>2 DEF Closing
      <4>3. StopWatching(w) \in Action /\ StopWatching(w) # Final  BY <4>2, Actions
      <4>4. UNCHANGED valueVars  BY <1>11 DEF Cancel
      <4> QED  BY <1>1, <2>1, <4>1, <4>2, <4>3, <4>4, QueueRunKeepsEnd
    <3> QED  BY <3>1, <3>2
  <2>3. at' = at \/ \A s \in Thread : at'[s] = IF s = t THEN At("sealing") ELSE at[s]
    BY <1>2, <1>11 DEF Cancel, Goes
  <2>4. \A s \in Thread : at'[s] # At("advancing")
    BY <1>1, <2>1, <2>3, Places DEF EndThreads
  <2>5. terminated' /\ Decided'  BY <1>1, <1>11, <2>1, <2>2 DEF Cancel, EndThreads
  <2> QED  BY <2>2, <2>4, <2>5 DEF EndInv, EndThreads
<1>12. ASSUME NEW t \in Thread, SealProgress(t) PROVE EndInv'
  <2>1. Decided  BY <1>1, <1>12 DEF EndThreads, SealProgress, Free
  <2>2. Seal \in Closing  BY DEF Closing
  <2>3. Seal \in Action /\ Seal # Final  BY <2>2, Actions
  <2>4. EndQueue' /\ (Decided' <=> Decided)
    BY <1>1, <1>12, <2>1, <2>3, QueueRunKeepsEnd DEF SealProgress
  <2> QED  BY <1>4, <1>12, <2>4 DEF SealProgress
<1>13. CASE Runs /\ UNCHANGED controllerVars
  BY <1>1, <1>3, <1>13, RunsKeepEnd DEF controllerVars
<1>14. CASE Show /\ at[Main] = Idle /\ UNCHANGED controllerVars
  BY <1>1, <1>3, <1>14, RunsKeepEnd DEF controllerVars
<1>15. CASE UNCHANGED progressVars
  BY <1>1, <1>3, <1>15, RestKeepsEnd DEF progressVars, observableVars, valueVars, controllerVars
<1>16. CASE \E t \in Thread : \/ \E v \in Value : Advance(t, v)
                              \/ \E w \in Watcher \ Screen : EnableBackground(t, w)
                              \/ Terminate(t)
  BY <1>5, <1>6, <1>9, <1>16
<1>17. CASE \E w \in Screen : WatchOnScreen(w)  BY <1>8, <1>17
<1>18. CASE Continues  BY <1>7, <1>10, <1>11, <1>12, <1>18 DEF Continues
<1> QED
  BY <1>13, <1>14, <1>15, <1>16, <1>17, <1>18 DEF ProgressNext

-----------------------------------------------------------------------------

LEMMA EndIsInductive == ProgressSpec => [](ProgressTypeOK /\ EndInv)
<1>1. ProgressInit => ProgressTypeOK /\ EndInv  BY TypesInit, EndInit
<1>2. ProgressTypeOK /\ EndInv /\ [ProgressNext]_progressVars => (ProgressTypeOK /\ EndInv)'
  BY TypesStep, EndStep
<1> QED  BY <1>1, <1>2, PTL DEF ProgressSpec

\* The state of a call's progress is of its types, for any number of threads,
\* watchers and values (ObservableValue.h:13-24).
THEOREM ProgressIsTyped == ProgressSpec => []ProgressTypeOK
  BY EndIsInductive, PTL

\* The value is final only once the call has terminated (CallController.m:128-133).
THEOREM SealsTheEnd == ProgressSpec => []SealedWhenTerminated
<1>1. EndInv => SealedWhenTerminated  BY DEF EndInv, EndQueue, SealedWhenTerminated
<1> QED  BY <1>1, EndIsInductive, PTL

LEMMA EndRefusesNothing == ProgressTypeOK /\ EndInv => NeverRefused
<1> SUFFICES ASSUME ProgressTypeOK, EndInv, NEW v \in Value,
                    action = Adjust(v), v >= currentValue, sealed
             PROVE  FALSE
  BY DEF NeverRefused
<1>1. currentValue = Terminated /\ ~Awaits(Final)  BY DEF EndInv, EndQueue
<1>2. v = Terminated  BY <1>1, ObservableAssumption DEF Value, Terminated
<1> QED  BY <1>1, <1>2 DEF Awaits, Final

\* No change comes after the seal, so that requireState never throws and the
\* queue is never left behind (ObservableValue.m:63-70, 95-109).
THEOREM ChangesAreNotRefused == ProgressSpec => []NeverRefused
  BY EndIsInductive, EndRefusesNothing, PTL

\* The seal is the end: typed state and an idle queue that is empty, no change refused, and
\* the final value that of a call that has terminated (CallController.m:121-134).
THEOREM TheSealIsTheEnd == ProgressSpec => []SealIsTheEnd
  BY ProgressIsTyped, SealsTheEnd, ChangesAreNotRefused, PTL DEF SealIsTheEnd

-----------------------------------------------------------------------------
(* Nobody begins to watch twice *)

Begins(w) ==
  /\ Single(Watch(w))
  /\ w \notin watched => ~Awaits(Watch(w)) /\ told[w] = <<>> /\ w \notin callbacks
  /\ Awaits(Watch(w)) => told[w] = <<>> /\ w \notin callbacks

WatchInv ==
  /\ action # Nothing => toTell = {}
  /\ toTell \subseteq callbacks
  /\ \A w \in Watcher : Begins(w)

LEMMA QueueRunKeepsWatch ==
  ASSUME RunInv, ValueTypes, WatchInv, UNCHANGED valueVars,
         NEW t \in Thread, NEW b \in Action, QueueRun(t, b), watched \subseteq watched',
         \A w \in Watcher : b = Watch(w) => w \notin watched /\ w \in watched'
  PROVE  WatchInv'
<1>1. UNCHANGED <<toTell, callbacks, told>>  BY DEF valueVars
<1>2. action' # Nothing => toTell = {}
  <2>1. action' = action \/ runner = NoThread  BY QueueRunKeeps
  <2> QED  BY <2>1 DEF WatchInv, ValueTypes
<1>3. ASSUME NEW w \in Watcher PROVE Begins(w)'
  <2>1. Watch(w) \in Action  BY Actions
  <2>2. Begins(w)  BY DEF WatchInv
  <2>3. Awaits(Watch(w))' <=> Awaits(Watch(w)) \/ b = Watch(w)  BY <2>1, QueueRunKeeps
  <2>4. b = Watch(w) => ~Awaits(Watch(w))  BY <2>2 DEF Begins
  <2>5. Single(Watch(w))'  BY <2>1, <2>2, <2>4, QueueRunKeeps DEF Begins
  <2>6. (Awaits(Watch(w)) \/ b = Watch(w)) => told[w] = <<>> /\ w \notin callbacks
    BY <2>2 DEF Begins
  <2>7. w \notin watched' => ~(Awaits(Watch(w)) \/ b = Watch(w))
    BY <2>2 DEF Begins
  <2>8. w \notin watched' => told[w] = <<>> /\ w \notin callbacks  BY <2>2 DEF Begins
  <2> QED  BY <1>1, <2>3, <2>5, <2>6, <2>7, <2>8 DEF Begins, Watch
<1> QED  BY <1>1, <1>2, <1>3 DEF WatchInv

LEMMA RestKeepsWatch ==
  ASSUME WatchInv, UNCHANGED <<callbacks, toTell, told, runVars>>, watched \subseteq watched'
  PROVE  WatchInv'
<1>1. ASSUME NEW w \in Watcher PROVE Begins(w)'
  <2>1. Begins(w)  BY DEF WatchInv
  <2>2. (Awaits(Watch(w))' <=> Awaits(Watch(w))) /\ (Single(Watch(w))' <=> Single(Watch(w)))
    BY RestKeeps DEF Watch
  <2> QED  BY <2>1, <2>2 DEF Begins
<1> QED  BY <1>1 DEF WatchInv, runVars

\* An action is run: w begins to watch, or some stop.
LEMMA RunKeepsWatch ==
  ASSUME RunInv, WatchInv, action \in Action, action' = Nothing,
         UNCHANGED <<runner, queuedActionsToRun, watched>>,
         toTell' \subseteq callbacks',
         \A w \in Watcher : \/ told'[w] = told[w] /\ (w \in callbacks' => w \in callbacks)
                          \/ action = Watch(w)
  PROVE  WatchInv'
<1>1. action # Nothing  BY Actions
<1>2. ASSUME NEW w \in Watcher PROVE Begins(w)'
  <2>1. Begins(w) /\ Watch(w) \in Action /\ Watch(w)' = Watch(w)
    BY Actions DEF WatchInv, Watch
  <2>2. Single(Watch(w))'  BY <1>1, <2>1, RunKeeps DEF Begins
  <2>3. Awaits(Watch(w))' <=> Queued(Watch(w))  BY <1>1, <2>1, RunKeeps
  <2>4. Awaits(Watch(w))' => Awaits(Watch(w))  BY <2>3 DEF Awaits
  <2>5. CASE action = Watch(w)
    <3>1. ~Awaits(Watch(w))'  BY <1>1, <2>1, <2>5, RunKeeps DEF Begins
    <3>2. w \in watched  BY <2>1, <2>5 DEF Begins, Awaits
    <3> QED  BY <2>1, <2>2, <3>1, <3>2 DEF Begins
  <2>6. CASE told'[w] = told[w] /\ (w \in callbacks' => w \in callbacks)
    BY <2>1, <2>2, <2>4, <2>6 DEF Begins
  <2> QED  BY <2>5, <2>6
<1> QED  BY <1>2 DEF WatchInv

LEMMA WatchInit == ProgressInit => WatchInv
<1> SUFFICES ASSUME ProgressInit PROVE WatchInv
  OBVIOUS
<1> USE DEF ProgressInit, ObservableInit
<1>1. Len(queuedActionsToRun) = 0 /\ action = Nothing  OBVIOUS
<1>2. ASSUME NEW w \in Watcher PROVE Begins(w)
  <2>1. Watch(w) # Nothing  BY Actions
  <2> QED  BY <1>1, <2>1 DEF Begins, Awaits, Queued, Single
<1> QED  BY <1>2 DEF WatchInv

LEMMA RunsKeepWatch ==
  ASSUME ProgressTypeOK, WatchInv, Runs \/ Show, UNCHANGED watched
  PROVE  WatchInv'
<1>1. RunInv /\ Tells /\ ValueTypes  BY Types
<1>2. ASSUME NEW w \in Watcher, RunWatch(w) PROVE WatchInv'
  <2>1. action \in Action /\ action = Watch(w) /\ action # Nothing  BY <1>2, Actions DEF RunWatch
  <2>2. toTell' = {}  BY <1>2, <2>1 DEF RunWatch, WatchInv
  <2>3. \A v \in Watcher : v # w => told'[v] = told[v] /\ (v \in callbacks' => v \in callbacks)
    BY <1>1, <1>2 DEF RunWatch, Called, Tells
  <2>4. action' = Nothing /\ UNCHANGED <<runner, queuedActionsToRun>>  BY <1>2 DEF RunWatch
  <2> QED  BY <1>1, <2>1, <2>2, <2>3, <2>4, RunKeepsWatch
<1>3. ASSUME NEW w \in Watcher, RunStopWatching(w) PROVE WatchInv'
  <2>1. StopWatching(w) \in Action  BY DEF Action
  <2>2. action \in Action /\ action # Nothing  BY <1>3, <2>1, Actions DEF RunStopWatching
  <2>3. toTell' = {}  BY <1>3, <2>2 DEF RunStopWatching, WatchInv
  <2>4. \A v \in Watcher : told'[v] = told[v] /\ (v \in callbacks' => v \in callbacks)
    BY <1>3 DEF RunStopWatching
  <2>5. action' = Nothing /\ UNCHANGED <<runner, queuedActionsToRun>>  BY <1>3 DEF RunStopWatching
  <2> QED  BY <1>1, <2>2, <2>3, <2>4, <2>5, RunKeepsWatch
<1>4. ASSUME NEW w \in Watcher, Tell(w) PROVE WatchInv'
  <2>1. w \in callbacks /\ toTell # {}  BY <1>4 DEF Tell, WatchInv
  <2>2. ASSUME NEW v \in Watcher PROVE Begins(v)'
    <3>1. Begins(v)  BY DEF WatchInv
    <3>2. UNCHANGED runVars  BY <1>4 DEF Tell
    <3>3. (Awaits(Watch(v))' <=> Awaits(Watch(v))) /\ (Single(Watch(v))' <=> Single(Watch(v)))
      BY <3>2, RestKeeps DEF Watch
    <3>4. v # w => told'[v] = told[v]  BY <1>1, <1>4 DEF Tell, Called, Tells
    <3>5. UNCHANGED <<callbacks, watched>>  BY <1>4 DEF Tell
    <3> QED  BY <2>1, <3>1, <3>3, <3>4, <3>5 DEF Begins
  <2> QED  BY <1>4, <2>1, <2>2 DEF Tell, WatchInv, runVars
<1>5. ASSUME NEW v \in Value, RunAdjust(v) PROVE WatchInv'
  <2>1. Adjust(v) \in Action  BY Actions
  <2>2. action \in Action  BY <1>5, <2>1 DEF RunAdjust
  <2>3. toTell' \subseteq callbacks'  BY <1>5 DEF RunAdjust, WatchInv
  <2>4. \A w \in Watcher : told'[w] = told[w] /\ (w \in callbacks' => w \in callbacks)
    BY <1>5 DEF RunAdjust
  <2>5. action' = Nothing /\ UNCHANGED <<runner, queuedActionsToRun>>  BY <1>5 DEF RunAdjust
  <2> QED  BY <1>1, <2>2, <2>3, <2>4, <2>5, RunKeepsWatch
<1>6. ASSUME RunSeal PROVE WatchInv'
  <2>1. Seal \in Action  BY DEF Action
  <2>2. action \in Action /\ action # Nothing  BY <1>6, <2>1, Actions DEF RunSeal
  <2>3. toTell' = {}  BY <1>6, <2>2 DEF RunSeal, WatchInv
  <2>4. \A w \in Watcher : told'[w] = told[w] /\ (w \in callbacks' => w \in callbacks)
    BY <1>6 DEF RunSeal
  <2>5. action' = Nothing /\ UNCHANGED <<runner, queuedActionsToRun>>  BY <1>6 DEF RunSeal
  <2> QED  BY <1>1, <2>2, <2>3, <2>4, <2>5, RunKeepsWatch
<1>7. ASSUME NextAction PROVE WatchInv'
  <2>1. UNCHANGED <<callbacks, toTell, told>> /\ toTell = {}
    BY <1>7 DEF NextAction, valueVars
  <2>2. ASSUME NEW w \in Watcher PROVE Begins(w)'
    <3>1. Begins(w) /\ Watch(w) \in Action /\ Watch(w)' = Watch(w)
      BY Actions DEF WatchInv, Watch
    <3>2. (Awaits(Watch(w))' <=> Awaits(Watch(w))) /\ Single(Watch(w))'
      BY <1>1, <1>7, <3>1, NextActionKeeps DEF Begins
    <3> QED  BY <2>1, <3>1, <3>2 DEF Begins
  <2> QED  BY <2>1, <2>2 DEF WatchInv
<1>8. ASSUME Show PROVE WatchInv'
  BY <1>8, RestKeepsWatch DEF Show
<1>9. ASSUME \E w \in Watcher : RunWatch(w) \/ RunStopWatching(w) \/ Tell(w)
      PROVE  WatchInv'
  BY <1>2, <1>3, <1>4, <1>9
<1> QED  BY <1>5, <1>6, <1>7, <1>8, <1>9 DEF Runs

LEMMA WatchStep ==
  ProgressTypeOK /\ WatchInv /\ [ProgressNext]_progressVars => WatchInv'
<1> SUFFICES ASSUME ProgressTypeOK, WatchInv, [ProgressNext]_progressVars PROVE WatchInv'
  OBVIOUS
<1>1. RunInv /\ ValueTypes /\ ControllerTypes  BY Types
<1>2. ASSUME NEW t \in Thread, NEW b \in Action, QueueRun(t, b), UNCHANGED valueVars,
             \A w \in Watcher : b # Watch(w), UNCHANGED watched
      PROVE  WatchInv'
  BY <1>1, <1>2, QueueRunKeepsWatch
<1>3. ASSUME UNCHANGED <<valueVars, runVars>>, watched \subseteq watched' PROVE WatchInv'
  BY <1>3, RestKeepsWatch DEF valueVars
<1>4. /\ \A v \in Value : Adjust(v) \in Action /\ \A w \in Watcher : Adjust(v) # Watch(w)
      /\ \A b \in Closing : b \in Action /\ \A w \in Watcher : b # Watch(w)
      /\ Seal \in Closing /\ \A w \in Watcher : StopWatching(w) \in Closing
      /\ Final \in Action /\ \A w \in Watcher : Final # Watch(w)
  <2>1. Seal \in Closing /\ \A w \in Watcher : StopWatching(w) \in Closing  BY DEF Closing
  <2> QED  BY <2>1, Actions
<1>5. ASSUME NEW t \in Thread, NEW v \in Value, Advance(t, v) PROVE WatchInv'
  BY <1>2, <1>4, <1>5 DEF Advance
<1>6. ASSUME NEW t \in Thread, NEW w \in Watcher, QueueRun(t, Watch(w)), UNCHANGED valueVars,
             w \notin watched, watched' = watched \cup {w}
      PROVE  WatchInv'
  <2>1. Watch(w) \in Action /\ \A v \in Watcher : Watch(w) = Watch(v) => v = w  BY Actions
  <2> QED  BY <1>1, <1>6, <2>1, QueueRunKeepsWatch
<1>7. ASSUME NEW t \in Thread, NEW w \in Watcher, EnableBackground(t, w) PROVE WatchInv'
  <2>1. CASE cancelled  BY <1>3, <1>7, <2>1 DEF EnableBackground
  <2>2. CASE ~cancelled  BY <1>6, <1>7, <2>2 DEF EnableBackground
  <2> QED  BY <2>1, <2>2
<1>8. ASSUME NEW t \in Thread, NEW w \in Watcher, Register(t, w) PROVE WatchInv'
  <2>1. CASE cancelled  BY <1>2, <1>4, <1>8, <2>1 DEF Register
  <2>2. CASE ~cancelled  BY <1>3, <1>8, <2>2 DEF Register
  <2> QED  BY <2>1, <2>2
<1>9. ASSUME NEW w \in Screen, WatchOnScreen(w) PROVE WatchInv'
  <2>1. Main \in Thread /\ w \in Watcher  BY ObservableAssumption
  <2> QED  BY <1>6, <1>9, <2>1 DEF WatchOnScreen
<1>10. ASSUME NEW t \in Thread, Terminate(t) PROVE WatchInv'
  BY <1>3, <1>10 DEF Terminate, observableVars
<1>11. ASSUME NEW t \in Thread, AdvanceToTerminated(t) PROVE WatchInv'
  BY <1>2, <1>4, <1>11 DEF AdvanceToTerminated, Final
<1>12. ASSUME NEW t \in Thread, Cancel(t) PROVE WatchInv'
  <2>1. CASE handlers = {}  BY <1>3, <1>12, <2>1 DEF Cancel
  <2>2. CASE handlers # {}
    <3>1. PICK w \in handlers : QueueRun(t, StopWatching(w))  BY <1>12, <2>2 DEF Cancel
    <3>2. w \in Watcher  BY <1>1 DEF ControllerTypes
    <3>3. UNCHANGED valueVars /\ UNCHANGED watched  BY <1>12 DEF Cancel
    <3> QED  BY <1>2, <1>4, <3>1, <3>2, <3>3
  <2> QED  BY <2>1, <2>2
<1>13. ASSUME NEW t \in Thread, SealProgress(t) PROVE WatchInv'
  BY <1>2, <1>4, <1>13 DEF SealProgress
<1>14. CASE Runs /\ UNCHANGED controllerVars  BY <1>14, RunsKeepWatch DEF controllerVars
<1>15. CASE Show /\ at[Main] = Idle /\ UNCHANGED controllerVars
  BY <1>15, RunsKeepWatch DEF controllerVars
<1>16. CASE UNCHANGED progressVars
  BY <1>3, <1>16 DEF progressVars, observableVars, controllerVars
<1>17. CASE \E t \in Thread : \/ \E v \in Value : Advance(t, v)
                              \/ \E w \in Watcher \ Screen : EnableBackground(t, w)
                              \/ Terminate(t)
  BY <1>5, <1>7, <1>10, <1>17
<1>18. CASE \E w \in Screen : WatchOnScreen(w)  BY <1>9, <1>18
<1>19. CASE Continues  BY <1>8, <1>11, <1>12, <1>13, <1>19 DEF Continues
<1> QED
  BY <1>14, <1>15, <1>16, <1>17, <1>18, <1>19 DEF ProgressNext

\* What a call of an operation leaves alone.
LEMMA CallChangesNoValue ==
  ASSUME ProgressTypeOK, [ProgressNext]_progressVars, ~(Runs \/ Show)
  PROVE  UNCHANGED valueVars
<1>1. CASE UNCHANGED progressVars  BY <1>1 DEF progressVars, observableVars
<1>2. CASE Continues
  <2>1. PICK t \in Thread : \/ \E w \in Watcher : Register(t, w)
                           \/ AdvanceToTerminated(t) \/ Cancel(t) \/ SealProgress(t)
    BY <1>2 DEF Continues
  <2> QED  BY <2>1, CallingInv
<1>3. CASE \E w \in Screen : WatchOnScreen(w)
  BY <1>3 DEF WatchOnScreen
<1>4. CASE \E t \in Thread : \/ \E v \in Value : Advance(t, v)
                             \/ \E w \in Watcher \ Screen : EnableBackground(t, w)
                             \/ Terminate(t)
  BY <1>4 DEF Advance, EnableBackground, Terminate, observableVars
<1> QED  BY <1>1, <1>2, <1>3, <1>4 DEF ProgressNext

-----------------------------------------------------------------------------
(* The progress implements ValueStream *)

LEMMA RunIsAStep ==
  ASSUME ProgressTypeOK, EndInv, WatchInv, Runs \/ Show
  PROVE  Stream!StreamNext \/ UNCHANGED Stream!streamVars
<1> USE DEF Stream!StreamNext, Stream!streamVars
<1>1. Tells /\ callbacks \subseteq Watcher /\ toTell \subseteq callbacks
  BY Types DEF ValueTypes, WatchInv
<1>2. toTell = {} /\ toTell' = {} => ToldSoon = told /\ ToldSoon' = told'
  <2> SUFFICES ASSUME toTell = {}, toTell' = {} PROVE ToldSoon = told /\ ToldSoon' = told'
    OBVIOUS
  <2>1. ToldSoon = [w \in Watcher |-> told[w]] /\ told = [w \in Watcher |-> told[w]]
    BY <1>1 DEF ToldSoon, Tells
  <2>2. ToldSoon' = [w \in Watcher |-> told'[w]]  BY DEF ToldSoon
  <2>3. told' \in [Watcher -> Seq(Value)]
    <3>1. \A w \in Watcher, v \in Value : Called(w, v) => Tells'  BY <1>1, CalledKeeps
    <3>2. UNCHANGED told \/ \E w \in Watcher : Called(w, currentValue)
      BY DEF Runs, Show, RunWatch, RunStopWatching, RunAdjust, RunSeal, NextAction, Tell, valueVars
    <3>3. currentValue \in Value  BY Types DEF ValueTypes
    <3> QED  BY <1>1, <3>1, <3>2, <3>3 DEF Tells
  <2>4. told' = [w \in Watcher |-> told'[w]]  BY <2>3
  <2> QED  BY <2>1, <2>2, <2>4
<1>3. ASSUME NEW w \in Watcher, RunWatch(w) PROVE Stream!Watch(w)
  <2>1. Watch(w) # Nothing  BY Actions
  <2>2. action = Watch(w) /\ toTell = {} /\ toTell' = {}
    BY <1>3, <2>1 DEF RunWatch, WatchInv
  <2>3. told[w] = <<>>  BY <2>2 DEF WatchInv, Begins, Awaits
  <2>4. told' = [told EXCEPT ![w] = <<currentValue>>]
    BY <1>3, <2>3 DEF RunWatch, Called
  <2> QED  BY <1>2, <1>3, <2>2, <2>3, <2>4 DEF Stream!Watch, RunWatch
<1>4. ASSUME NEW w \in Watcher, RunStopWatching(w) PROVE Stream!StopWatching(w)
  <2>1. StopWatching(w) \in Closing  BY DEF Closing
  <2>2. action # Nothing  BY <1>4, <2>1, Actions DEF RunStopWatching
  <2>3. toTell = {} /\ toTell' = {}  BY <1>4, <2>2 DEF RunStopWatching, WatchInv
  <2> QED  BY <1>2, <1>4, <2>3 DEF Stream!StopWatching, RunStopWatching
<1>5. ASSUME NEW w \in Watcher, Tell(w) PROVE UNCHANGED Stream!streamVars
  <2>1. /\ w \in toTell /\ toTell' = toTell \ {w}
        /\ told' = [told EXCEPT ![w] = Append(told[w], currentValue)]
        /\ UNCHANGED <<currentValue, sealed, callbacks>>
    BY <1>5 DEF Tell, Called
  <2>2. ASSUME NEW v \in Watcher
        PROVE  (IF v \in toTell' THEN Append(told'[v], currentValue') ELSE told'[v])
                 = (IF v \in toTell THEN Append(told[v], currentValue) ELSE told[v])
    BY <1>1, <2>1 DEF Tells
  <2>3. ToldSoon' = ToldSoon  BY <2>2 DEF ToldSoon
  <2> QED  BY <2>1, <2>3
<1>6. ASSUME NEW v \in Value, RunAdjust(v)
      PROVE  Stream!Change(v) \/ UNCHANGED Stream!streamVars
  <2>1. Adjust(v) \in Action  BY Actions
  <2>2. action = Adjust(v) /\ action # Nothing  BY <1>6, <2>1, Actions DEF RunAdjust
  <2>3. toTell = {}  BY <2>2 DEF WatchInv
  <2>4. CASE v < currentValue
    <3>1. UNCHANGED <<currentValue, sealed, callbacks, toTell, told>>
      BY <1>6, <2>4 DEF RunAdjust
    <3> QED  BY <1>2, <2>3, <3>1
  <2>5. CASE ~(v < currentValue)
    <3>1. v >= currentValue
      BY <2>5, Types DEF ValueTypes, Value
    <3>2. ~sealed  BY <2>2, <3>1, EndRefusesNothing DEF NeverRefused
    <3>3. currentValue' = v /\ toTell' = callbacks /\ UNCHANGED <<sealed, callbacks, told>>
      BY <1>6, <2>5 DEF RunAdjust
    <3>4. \A w \in Watcher : ToldSoon[w] = told[w]  BY <2>3 DEF ToldSoon
    <3>5. ToldSoon' = [w \in Watcher |-> IF w \in callbacks THEN Append(ToldSoon[w], v)
                                                            ELSE ToldSoon[w]]
      BY <3>3, <3>4 DEF ToldSoon
    <3> QED  BY <3>2, <3>3, <3>5 DEF Stream!Change
  <2> QED  BY <2>4, <2>5
<1>7. ASSUME RunSeal PROVE Stream!Finish
  <2>1. Seal \in Closing  BY DEF Closing
  <2>2. action # Nothing  BY <1>7, <2>1, Actions DEF RunSeal
  <2>3. toTell = {} /\ toTell' = {}  BY <1>7, <2>2 DEF RunSeal, WatchInv
  <2> QED  BY <1>2, <1>7, <2>3 DEF Stream!Finish, RunSeal
<1>8. ASSUME NextAction \/ Show PROVE UNCHANGED Stream!streamVars
  BY <1>8 DEF NextAction, Show, valueVars, ToldSoon
<1>9. CASE \E w \in Watcher : RunWatch(w) \/ RunStopWatching(w) \/ Tell(w)
  BY <1>3, <1>4, <1>5, <1>9
<1>10. CASE \E v \in Value : RunAdjust(v)  BY <1>6, <1>10
<1> QED  BY <1>7, <1>8, <1>9, <1>10 DEF Runs

LEMMA AllIsInductive == ProgressSpec => [](ProgressTypeOK /\ EndInv /\ WatchInv)
<1>1. ProgressInit => WatchInv  BY WatchInit
<1>2. ProgressTypeOK /\ WatchInv /\ [ProgressNext]_progressVars => WatchInv'  BY WatchStep
<1> QED  BY <1>1, <1>2, EndIsInductive, PTL DEF ProgressSpec

\* A watcher of a call's progress is told the value and then every change, once
\* and in order, whatever the threads do (ObservableValue.m:16-32, 51-130).
THEOREM ImplementsValueStream == ProgressSpec => TellsEveryChange
<1>1. ProgressInit => Stream!StreamInit
  <2> SUFFICES ASSUME ProgressInit PROVE Stream!StreamInit
    OBVIOUS
  <2>1. 0 \in Value  BY ObservableAssumption DEF Value
  <2>2. ToldSoon = [w \in Watcher |-> <<>>]
    BY DEF ProgressInit, ObservableInit, ToldSoon
  <2> QED  BY <2>1, <2>2 DEF ProgressInit, ObservableInit, Stream!StreamInit
<1>2. ProgressTypeOK /\ EndInv /\ WatchInv /\ [ProgressNext]_progressVars
        => [Stream!StreamNext]_Stream!streamVars
  <2> SUFFICES ASSUME ProgressTypeOK, EndInv, WatchInv, [ProgressNext]_progressVars
               PROVE  Stream!StreamNext \/ UNCHANGED Stream!streamVars
    OBVIOUS
  <2>1. CASE Runs \/ Show  BY <2>1, RunIsAStep
  <2>2. CASE ~(Runs \/ Show)
    <3>1. UNCHANGED valueVars  BY <2>2, CallChangesNoValue
    <3> QED  BY <3>1 DEF valueVars, Stream!streamVars, ToldSoon
  <2> QED  BY <2>1, <2>2
<1> QED  BY <1>1, <1>2, AllIsInductive, PTL DEF ProgressSpec, TellsEveryChange, Stream!Spec

-----------------------------------------------------------------------------
(* Who is removed was told *)

ToldInv ==
  \A w \in Watcher :
    /\ w \in callbacks => told[w] # <<>> /\ (w \notin toTell => Last(told[w]) = currentValue)
    /\ w \notin callbacks /\ told[w] # <<>> => Last(told[w]) = Terminated

LEMMA AppendLast ==
  ASSUME NEW S, NEW s \in Seq(S), NEW v \in S
  PROVE  Append(s, v) # <<>> /\ Last(Append(s, v)) = v
<1>1. Len(Append(s, v)) = Len(s) + 1 /\ Append(s, v)[Len(s) + 1] = v /\ Len(s) \in Nat
  OBVIOUS
<1>2. Append(s, v) # <<>>
  <2>1. Append(s, v) \in Seq(S) /\ Len(Append(s, v)) # 0 /\ Len(<<>>) = 0  BY <1>1
  <2> QED  BY <2>1
<1> QED  BY <1>1, <1>2 DEF Last

LEMMA ToldStep ==
  ProgressTypeOK /\ EndInv /\ WatchInv /\ ToldInv /\ [ProgressNext]_progressVars => ToldInv'
<1> SUFFICES ASSUME ProgressTypeOK, EndInv, WatchInv, ToldInv, [ProgressNext]_progressVars
             PROVE  ToldInv'
  OBVIOUS
<1>0. Terminated' = Terminated /\ currentValue \in Value
      /\ (sealed => currentValue = Terminated)
      /\ (action \in Closing => currentValue = Terminated)
  BY Types DEF Terminated, ValueTypes, EndInv, EndQueue, ClosingIsLast
<1>1. Tells  BY Types
<1>2. \A w \in Watcher : /\ Append(told[w], currentValue) # <<>>
                        /\ Last(Append(told[w], currentValue)) = currentValue
  BY <1>0, <1>1, AppendLast DEF Tells
<1>3. ASSUME NEW w \in Watcher, RunWatch(w) PROVE ToldInv'
  <2>1. /\ told' = [told EXCEPT ![w] = Append(told[w], currentValue)]
        /\ UNCHANGED <<currentValue, toTell>>
        /\ callbacks' = IF sealed THEN callbacks ELSE callbacks \cup {w}
    BY <1>3 DEF RunWatch, Called
  <2>2. ASSUME NEW v \in Watcher
        PROVE  told'[v] = IF v = w THEN Append(told[w], currentValue) ELSE told[v]
    BY <1>1, <2>1 DEF Tells
  <2> QED  BY <1>0, <1>2, <2>1, <2>2 DEF ToldInv
<1>4. ASSUME NEW w \in Watcher, RunStopWatching(w) PROVE ToldInv'
  <2>1. StopWatching(w) \in Closing  BY DEF Closing
  <2>2. action # Nothing /\ action \in Closing  BY <1>4, <2>1, Actions DEF RunStopWatching
  <2>3. toTell = {} /\ currentValue = Terminated  BY <1>0, <2>2 DEF WatchInv
  <2> QED  BY <1>0, <1>4, <2>3 DEF RunStopWatching, ToldInv
<1>5. ASSUME NEW w \in Watcher, Tell(w) PROVE ToldInv'
  <2>1. /\ told' = [told EXCEPT ![w] = Append(told[w], currentValue)]
        /\ UNCHANGED <<currentValue, callbacks>> /\ toTell' = toTell \ {w}
        /\ w \in callbacks
    BY <1>5 DEF Tell, Called, WatchInv
  <2>2. ASSUME NEW v \in Watcher
        PROVE  told'[v] = IF v = w THEN Append(told[w], currentValue) ELSE told[v]
    BY <1>1, <2>1 DEF Tells
  <2> QED  BY <1>0, <1>2, <2>1, <2>2 DEF ToldInv
<1>6. ASSUME NEW v \in Value, RunAdjust(v) PROVE ToldInv'
  <2>1. UNCHANGED <<told, callbacks>>  BY <1>6 DEF RunAdjust
  <2>2. CASE v < currentValue
    <3>1. UNCHANGED <<currentValue, toTell>>  BY <1>6, <2>2 DEF RunAdjust
    <3> QED  BY <1>0, <2>1, <3>1 DEF ToldInv
  <2>3. CASE ~(v < currentValue)
    <3>1. toTell' = callbacks  BY <1>6, <2>3 DEF RunAdjust
    <3> QED  BY <1>0, <2>1, <3>1 DEF ToldInv
  <2> QED  BY <2>2, <2>3
<1>7. ASSUME RunSeal PROVE ToldInv'
  <2>1. Seal \in Closing  BY DEF Closing
  <2>2. action # Nothing /\ action \in Closing  BY <1>7, <2>1, Actions DEF RunSeal
  <2>3. toTell = {} /\ currentValue = Terminated  BY <1>0, <2>2 DEF WatchInv
  <2> QED  BY <1>0, <1>7, <2>3 DEF RunSeal, ToldInv
<1>8. ASSUME UNCHANGED <<currentValue, callbacks, toTell, told>> PROVE ToldInv'
  BY <1>0, <1>8 DEF ToldInv
<1>9. CASE NextAction \/ Show  BY <1>8, <1>9 DEF NextAction, Show, valueVars
<1>10. CASE ~(Runs \/ Show)
  <2>1. UNCHANGED valueVars  BY <1>10, CallChangesNoValue
  <2> QED  BY <1>8, <2>1 DEF valueVars
<1>11. CASE \E w \in Watcher : RunWatch(w) \/ RunStopWatching(w) \/ Tell(w)
  BY <1>3, <1>4, <1>5, <1>11
<1>12. CASE \E v \in Value : RunAdjust(v)  BY <1>6, <1>12
<1> QED  BY <1>7, <1>9, <1>10, <1>11, <1>12 DEF Runs

\* Whoever is removed because the call ended was told that it ended
\* (CallController.m:128-131, 140-150).
THEOREM TellsBeforeItRemoves == ProgressSpec => []RemovedAreToldTheEnd
<1>1. ProgressInit => ToldInv
  BY DEF ProgressInit, ObservableInit, ToldInv
<1>2. WatchInv /\ ToldInv => RemovedAreToldTheEnd
  <2> SUFFICES ASSUME WatchInv, ToldInv, NEW w \in Watcher, told[w] # <<>>, w \notin callbacks
               PROVE  Last(ToldSoon[w]) = Terminated
    BY DEF RemovedAreToldTheEnd
  <2>1. ToldSoon[w] = told[w]  BY DEF ToldSoon, WatchInv
  <2> QED  BY <2>1 DEF ToldInv
<1> QED  BY <1>1, <1>2, AllIsInductive, ToldStep, PTL DEF ProgressSpec
-----------------------------------------------------------------------------
(***************************************************************************)
(* The calls.                                                              *)
(***************************************************************************)
\* What a call that is alive, or over, has in its futures.
FuturesFit ==
    \A c \in Calls :
      /\ termination[c] = None <=> stage[c] # "over"
      /\ stage[c] = "over" => progress[c] = "Terminated"
      /\ Live(c) => accepted[c] \in {None, "yes"}
      /\ Live(c) /\ isInitiator(c) => accepted[c] = "yes"
      /\ stage[c] = "initiating" => isInitiator(c)

CallInv == OnlyCurrentCallLives /\ FuturesFit /\ AnsweredBeforeSecuring /\ LocalEndTellsAnswer

PhoneIInv == PhoneTypeOK /\ CallInv
-----------------------------------------------------------------------------
USE TryCountAssumption, RequestsAssumption, NilAssumption

\* CallProgress_Type is an enumeration.
LEMMA RankIsNumber == \A type \in ProgressTypes : Rank[type] \in 0 .. 4
BY DEF Rank, ProgressTypes

\* Nothing comes after Terminated (CallController.terminateWithReason).
LEMMA TerminatedIsLast ==
    \A type \in ProgressTypes :
      /\ Advanced(type, "Terminated") = "Terminated"
      /\ Rank["Terminated"] >= Rank[type]
BY DEF Advanced, Rank, ProgressTypes

\* CallController.unrestrictedAdvanceCallProgressTo
LEMMA AdvancedIsProgress ==
    \A old, type \in ProgressTypes :
      /\ Advanced(old, type) \in ProgressTypes
      /\ Rank[Advanced(old, type)] >= Rank[old]
BY RankIsNumber DEF Advanced

\* What every step that ends a call does to it.
Ends(c, reason) ==
    /\ Live(c)
    /\ reason \in TerminationTypes
    /\ stage' = [stage EXCEPT ![c] = "over"]
    /\ tries' = [tries EXCEPT ![c] = 0]
    /\ progress' = [progress EXCEPT ![c] = Advanced(progress[c], "Terminated")]
    /\ termination' = [termination EXCEPT ![c] = reason]
    /\ \E outcome \in {"yes", "no", "failed"} :
         /\ accepted' = [accepted EXCEPT ![c] = outcome]
         /\ reason = "RejectedLocal" => outcome = "no"
         /\ reason = "HangupLocal" => outcome = "yes"
    /\ sas' = [sas EXCEPT ![c] = FailIncomplete(sas[c])]
    /\ recentCalls' \in {recentCalls, [recentCalls EXCEPT ![c] = CallType(c, reason)]}
    /\ UNCHANGED <<session, observed, phoneVars>>

\* Ending a call keeps the types.
LEMMA EndsTypes ==
    ASSUME NEW c \in Calls, NEW reason, PhoneTypeOK, Ends(c, reason)
    PROVE  PhoneTypeOK'
<1>1. /\ stage' \in [Calls -> Stages]
      /\ tries' \in [Calls -> 0 .. MAX_TRY_COUNT - 1]
      /\ termination' \in [Calls -> TerminationTypes \cup {None}]
  BY DEF Ends, PhoneTypeOK, Stages
<1>2. progress' \in [Calls -> ProgressTypes]
  <2>1. "Terminated" \in ProgressTypes
    BY DEF ProgressTypes
  <2> QED
    BY <2>1, TerminatedIsLast DEF Ends, PhoneTypeOK
<1>3. accepted' \in [Calls -> {None, "yes", "no", "failed"}]
  BY DEF Ends, PhoneTypeOK
<1>4. sas' \in [Calls -> {None, "sas", "failed"}]
  BY DEF Ends, PhoneTypeOK, FailIncomplete
<1>5. recentCalls' \in [Calls -> {None, "outgoing", "incoming", "missed"}]
  <2>1. CallType(c, reason) \in {"outgoing", "incoming", "missed"}
    BY DEF CallType
  <2> QED
    BY <2>1 DEF Ends, PhoneTypeOK
<1> QED
  BY <1>1, <1>2, <1>3, <1>4, <1>5 DEF PhoneTypeOK, Ends, phoneVars

\* Ending a call keeps the invariant.
LEMMA EndsInv ==
    ASSUME NEW c \in Calls, NEW reason, PhoneIInv, Ends(c, reason)
    PROVE  PhoneIInv'
<1>1. PhoneTypeOK'
  BY EndsTypes DEF PhoneIInv
<1>2. /\ stage'[c] = "over" /\ termination'[c] = reason /\ reason # None
      /\ progress'[c] = "Terminated"
      /\ reason = "RejectedLocal" => accepted'[c] = "no"
      /\ reason = "HangupLocal" => accepted'[c] = "yes"
      /\ session' = session /\ curCallController' = curCallController
  BY TerminatedIsLast DEF Ends, PhoneIInv, PhoneTypeOK, phoneVars
<1>3. \A x \in Calls \ {c} :
        /\ stage'[x] = stage[x] /\ termination'[x] = termination[x]
        /\ progress'[x] = progress[x] /\ accepted'[x] = accepted[x]
  BY DEF Ends, PhoneIInv, PhoneTypeOK
<1>4. CallInv'
  BY <1>2, <1>3 DEF PhoneIInv, CallInv, OnlyCurrentCallLives, FuturesFit,
     AnsweredBeforeSecuring, LocalEndTellsAnswer, Live, isInitiator
<1> QED
  BY <1>1, <1>4 DEF PhoneIInv

\* CallController.terminateWithReason, for a reason that is not that of a denied call.
LEMMA TerminateEnds ==
    ASSUME NEW c \in Calls, NEW reason \in TerminationTypes \ {"RejectedLocal"}, PhoneIInv,
           TerminateWithReason(c, reason),
           reason = "HangupLocal" => accepted[c] # None
    PROVE  Ends(c, reason)
<1>1. accepted[c] \in {None, "yes"}
  BY DEF TerminateWithReason, PhoneIInv, CallInv, FuturesFit
<1>2. \E outcome \in {"yes", "no", "failed"} :
         /\ accepted' = [accepted EXCEPT ![c] = outcome]
         /\ reason = "HangupLocal" => outcome = "yes"
  BY <1>1 DEF TerminateWithReason, FailIncomplete
<1>3. recentCalls' \in {recentCalls, [recentCalls EXCEPT ![c] = CallType(c, reason)]}
  BY DEF TerminateWithReason, Record
<1> QED
  BY <1>2, <1>3 DEF TerminateWithReason, CancelChain, Ends

\* CallController.hangupOrDenyCall.
LEMMA HangupEnds ==
    ASSUME NEW c \in Calls, PhoneIInv, HangupOrDenyCall(c)
    PROVE  \E reason \in TerminationTypes : Ends(c, reason)
<1>1. CASE accepted[c] = None
  <2>1. recentCalls' \in {recentCalls, [recentCalls EXCEPT ![c] = CallType(c, "RejectedLocal")]}
    BY <1>1 DEF HangupOrDenyCall, Record
  <2>2. "RejectedLocal" \in TerminationTypes
    BY DEF TerminationTypes
  <2>3. Ends(c, "RejectedLocal")
    BY <1>1, <2>1, <2>2 DEF HangupOrDenyCall, CancelChain, Ends
  <2> QED
    BY <2>2, <2>3
<1>2. CASE accepted[c] # None
  <2>1. "HangupLocal" \in TerminationTypes \ {"RejectedLocal"}
    BY DEF TerminationTypes
  <2>2. Ends(c, "HangupLocal")
    BY <1>2, <2>1, TerminateEnds DEF HangupOrDenyCall
  <2> QED
    BY <2>1, <2>2
<1> QED
  BY <1>1, <1>2
-----------------------------------------------------------------------------
\* What every step of a call that goes on does to it.
GoesOn(c) ==
    /\ Live(c)
    /\ \E to \in Stages \ {"unused", "over"} :
         /\ stage' = [stage EXCEPT ![c] = to]
         /\ to = "initiating" => isInitiator(c)
         /\ to \in {"relaying", "securing", "calling"} => accepted'[c] = "yes"
    /\ \E n \in 0 .. MAX_TRY_COUNT - 1 : tries' = [tries EXCEPT ![c] = n]
    /\ \E type \in ProgressTypes :
         progress' = [progress EXCEPT ![c] = type] /\ Rank[type] >= Rank[progress[c]]
    /\ accepted' \in {accepted, [accepted EXCEPT ![c] = "yes"]}
    /\ sas' \in {sas, [sas EXCEPT ![c] = "sas"]}
    /\ UNCHANGED <<session, termination, listVars, phoneVars>>

\* Taking a call on keeps the types.
LEMMA GoesOnTypes ==
    ASSUME NEW c \in Calls, PhoneTypeOK, GoesOn(c)
    PROVE  PhoneTypeOK'
<1>1. stage' \in [Calls -> Stages]
  BY DEF GoesOn, PhoneTypeOK
<1>2. tries' \in [Calls -> 0 .. MAX_TRY_COUNT - 1]
  BY DEF GoesOn, PhoneTypeOK
<1>3. progress' \in [Calls -> ProgressTypes]
  BY DEF GoesOn, PhoneTypeOK
<1>4. /\ accepted' \in [Calls -> {None, "yes", "no", "failed"}]
      /\ sas' \in [Calls -> {None, "sas", "failed"}]
  BY DEF GoesOn, PhoneTypeOK
<1> QED
  BY <1>1, <1>2, <1>3, <1>4 DEF PhoneTypeOK, GoesOn, listVars, phoneVars

\* Taking a call on keeps the invariant.
LEMMA GoesOnInv ==
    ASSUME NEW c \in Calls, PhoneIInv, GoesOn(c)
    PROVE  PhoneIInv'
<1>1. PhoneTypeOK'
  BY GoesOnTypes DEF PhoneIInv
<1>2. /\ stage'[c] \notin {"unused", "over"}
      /\ stage'[c] = "initiating" => isInitiator(c)
      /\ stage'[c] \in {"relaying", "securing", "calling"} => accepted'[c] = "yes"
      /\ accepted'[c] \in {accepted[c], "yes"}
      /\ session' = session /\ curCallController' = curCallController
      /\ termination' = termination
  BY DEF GoesOn, PhoneIInv, PhoneTypeOK, phoneVars
<1>3. \A x \in Calls \ {c} :
        stage'[x] = stage[x] /\ progress'[x] = progress[x] /\ accepted'[x] = accepted[x]
  BY DEF GoesOn, PhoneIInv, PhoneTypeOK
<1>4. Live(c)
  BY DEF GoesOn
<1>5. CallInv'
  BY <1>2, <1>3, <1>4 DEF PhoneIInv, CallInv, OnlyCurrentCallLives, FuturesFit,
     AnsweredBeforeSecuring, LocalEndTellsAnswer, Live, isInitiator
<1> QED
  BY <1>1, <1>5 DEF PhoneIInv

\* A block of the main thread, or a dialog, that leaves the calls as they are.
LEMMA FrameInv ==
    ASSUME PhoneIInv, UNCHANGED <<callVars, curCallController>>, PhoneTypeOK'
    PROVE  PhoneIInv'
BY DEF PhoneIInv, CallInv, OnlyCurrentCallLives, FuturesFit, AnsweredBeforeSecuring,
   LocalEndTellsAnswer, Live, isInitiator, callVars

\* CallController.advanceCallProgressTo
LEMMA AdvanceIsForward ==
    ASSUME NEW c \in Calls, NEW type \in ProgressTypes, PhoneTypeOK,
           AdvanceCallProgressTo(c, type)
    PROVE  \E new \in ProgressTypes :
             progress' = [progress EXCEPT ![c] = new] /\ Rank[new] >= Rank[progress[c]]
<1>1. progress[c] \in ProgressTypes
  BY DEF PhoneTypeOK
<1>2. Advanced(progress[c], type) \in ProgressTypes
      /\ Rank[Advanced(progress[c], type)] >= Rank[progress[c]]
  BY <1>1, AdvancedIsProgress
<1> QED
  BY <1>2 DEF AdvanceCallProgressTo

\* The steps of the chain of futures that do not end the call.
Advances(c) ==
    \/ SignalServerConnected(c) \/ SessionReceived(c) \/ RingConfirmed(c)
    \/ RelayConnected(c) \/ HelloReceived(c) \/ Conversing(c)

\* The futures of CallConnectUtil that succeed take the call on.
LEMMA AdvanceGoesOn ==
    ASSUME NEW c \in Calls, PhoneIInv, Advances(c)
    PROVE  GoesOn(c)
<1> USE DEF PhoneIInv, PhoneTypeOK
<1>1. /\ stage = [stage EXCEPT ![c] = stage[c]]
      /\ tries = [tries EXCEPT ![c] = tries[c]] /\ tries[c] \in 0 .. MAX_TRY_COUNT - 1
      /\ progress = [progress EXCEPT ![c] = progress[c]] /\ progress[c] \in ProgressTypes
      /\ Rank[progress[c]] >= Rank[progress[c]]
  BY RankIsNumber
<1>2. 0 \in 0 .. MAX_TRY_COUNT - 1
  OBVIOUS
<1>3. \A type \in {"Ringing", "Securing", "Talking"} :
        AdvanceCallProgressTo(c, type) =>
          \E new \in ProgressTypes :
            progress' = [progress EXCEPT ![c] = new] /\ Rank[new] >= Rank[progress[c]]
  BY AdvanceIsForward DEF ProgressTypes
<1>4. /\ stage[c] \in {"initiating", "relaying", "securing", "calling"} => accepted[c] = "yes"
      /\ stage[c] = "connecting" => Live(c)
  BY DEF CallInv, FuturesFit, AnsweredBeforeSecuring, Live
<1> HIDE DEF PhoneIInv, PhoneTypeOK
<1>5. CASE SignalServerConnected(c)
  <2>1. PICK to \in {"initiating", "ringing"} :
          stage' = [stage EXCEPT ![c] = to] /\ (to = "initiating" => isInitiator(c))
    BY <1>5 DEF SignalServerConnected, GoOn
  <2> QED
    BY <1>1, <1>5, <2>1 DEF SignalServerConnected, GoOn, GoesOn, Live, Stages
<1>6. CASE SessionReceived(c)
  BY <1>1, <1>4, <1>6 DEF SessionReceived, GoOn, GoesOn, Live, Stages
<1>7. CASE RingConfirmed(c)
  <2>1. PICK new \in ProgressTypes :
          progress' = [progress EXCEPT ![c] = new] /\ Rank[new] >= Rank[progress[c]]
    BY <1>3, <1>7 DEF RingConfirmed
  <2>2. PICK to \in {"relaying", "accepting"} :
          stage' = [stage EXCEPT ![c] = to] /\ (to = "relaying" => accepted'[c] = "yes")
    BY <1>7 DEF RingConfirmed, GoOn
  <2> QED
    BY <1>1, <1>7, <2>1, <2>2 DEF RingConfirmed, GoOn, GoesOn, Live, Stages
<1>8. CASE RelayConnected(c)
  BY <1>1, <1>2, <1>3, <1>4, <1>8 DEF RelayConnected, GoOn, GoesOn, Live, Stages
<1>9. CASE HelloReceived(c)
  <2>1. PICK new \in ProgressTypes :
          progress' = [progress EXCEPT ![c] = new] /\ Rank[new] >= Rank[progress[c]]
    BY <1>3, <1>9 DEF HelloReceived
  <2>2. stage' = [stage EXCEPT ![c] = stage[c]] /\ tries' = [tries EXCEPT ![c] = tries[c]]
    BY <1>1, <1>9 DEF HelloReceived
  <2> QED
    BY <1>1, <1>4, <1>9, <2>1, <2>2 DEF HelloReceived, GoesOn, Live, Stages
<1>10. CASE Conversing(c)
  BY <1>1, <1>3, <1>4, <1>10 DEF Conversing, GoOn, GoesOn, Live, Stages
<1> QED
  BY <1>5, <1>6, <1>7, <1>8, <1>9, <1>10 DEF Advances

\* Every step of a chain takes its call on, or ends it for a reason of its own.
LEMMA ConnectStepKinds ==
    ASSUME NEW c \in Calls, PhoneIInv, ConnectStep(c)
    PROVE  GoesOn(c) \/ \E reason \in TerminationTypes : Ends(c, reason)
<1> DEFINE Ended == \E reason \in TerminationTypes \ {"RejectedLocal", "HangupLocal"} :
                      TerminateWithReason(c, reason)
<1>1. Ended => \E reason \in TerminationTypes : Ends(c, reason)
  BY TerminateEnds
<1>2. CASE SignalServerFails(c) \/ BadResponse(c) \/ RelayFails(c) \/ HandshakeFails(c)
             \/ AudioFails(c)
  <2>1. Ended
    BY <1>2 DEF SignalServerFails, BadResponse, RelayFails, HandshakeFails, AudioFails,
       TerminationTypes
  <2> QED
    BY <1>1, <2>1
<1>3. CASE ServerRequest(c)
  <2>1. CASE /\ Live(c) /\ AdvanceCallProgressTo(c, "Ringing")
             /\ UNCHANGED <<session, stage, tries, termination, accepted, sas, listVars, phoneVars>>
    <3>1. \E new \in ProgressTypes :
            progress' = [progress EXCEPT ![c] = new] /\ Rank[new] >= Rank[progress[c]]
      BY <2>1, AdvanceIsForward DEF ProgressTypes, PhoneIInv
    <3>2. /\ stage' = [stage EXCEPT ![c] = stage[c]]
          /\ tries' = [tries EXCEPT ![c] = tries[c]] /\ tries[c] \in 0 .. MAX_TRY_COUNT - 1
      BY <2>1 DEF PhoneIInv, PhoneTypeOK
    <3>3. GoesOn(c)
      BY <2>1, <3>1, <3>2 DEF GoesOn, Live, PhoneIInv, PhoneTypeOK, CallInv, FuturesFit,
         AnsweredBeforeSecuring
    <3> QED
      BY <3>3
  <2>2. CASE Ended
    BY <1>1, <2>2
  <2>3. CASE \/ TerminateWithReason(c, "BadInteractionWithServer")
             \/ TerminateWithReason(c, "HangupRemote")
             \/ TerminateWithReason(c, "RejectedRemote")
             \/ TerminateWithReason(c, "ResponderIsBusy")
    BY <2>2, <2>3 DEF TerminationTypes
  <2>4. TerminateWithRejectionOrRemoteHangup(c) =>
          TerminateWithReason(c, "HangupRemote") \/ TerminateWithReason(c, "RejectedRemote")
    BY DEF TerminateWithRejectionOrRemoteHangup
  <2> QED
    BY <1>3, <2>1, <2>3, <2>4 DEF ServerRequest
<1>4. CASE RelayTimesOut(c)
  <2>1. CASE tries[c] + 1 = MAX_TRY_COUNT
    <3>1. Ended
      BY <1>4, <2>1 DEF RelayTimesOut, TerminationTypes
    <3> QED
      BY <1>1, <3>1
  <2>2. CASE tries[c] + 1 # MAX_TRY_COUNT
    <3>1. tries[c] \in 0 .. MAX_TRY_COUNT - 1 /\ tries[c] + 1 \in 0 .. MAX_TRY_COUNT - 1
      BY <2>2 DEF PhoneIInv, PhoneTypeOK
    <3>2. /\ stage = [stage EXCEPT ![c] = stage[c]]
          /\ progress = [progress EXCEPT ![c] = progress[c]] /\ progress[c] \in ProgressTypes
          /\ Rank[progress[c]] >= Rank[progress[c]]
      BY RankIsNumber DEF PhoneIInv, PhoneTypeOK
    <3>3. GoesOn(c)
      BY <1>4, <2>2, <3>1, <3>2 DEF RelayTimesOut, GoesOn, Live, Stages, PhoneIInv, CallInv,
         AnsweredBeforeSecuring
    <3> QED
      BY <3>3
  <2> QED
    BY <2>1, <2>2
<1> QED
  BY <1>2, <1>3, <1>4, AdvanceGoesOn DEF ConnectStep, Advances
-----------------------------------------------------------------------------
\* A call that begins: it, the one it replaces, and all others.
LEMMA BeginChanges ==
    ASSUME NEW c \in Calls, NEW r \in Sessions \cup {None}, PhoneIInv,
           CancelExistingCallAndInitNewCallWork(c, r)
    PROVE  /\ stage[c] = "unused" /\ stage'[c] = "connecting" /\ session'[c] = r
           /\ accepted'[c] = IF r = None THEN "yes" ELSE None
           /\ termination'[c] = None /\ progress'[c] = progress[c]
           /\ curCallController' = c
           /\ \A x \in Calls \ {c} :
                /\ session'[x] = session[x]
                /\ Live(x) => /\ stage'[x] = "over" /\ termination'[x] = "ReplacedByNext"
                              /\ progress'[x] = "Terminated"
                              /\ accepted'[x] = FailIncomplete(accepted[x])
                /\ ~Live(x) => /\ stage'[x] = stage[x] /\ termination'[x] = termination[x]
                               /\ progress'[x] = progress[x] /\ accepted'[x] = accepted[x]
<1> USE DEF PhoneIInv, PhoneTypeOK
<1>1. stage[c] = "unused" /\ termination[c] = None /\ ~Live(c)
  BY DEF CancelExistingCallAndInitNewCallWork, CallInv, FuturesFit, Live
<1>2. \A x \in Calls : Live(x) => x = curCallController
  BY DEF CallInv, OnlyCurrentCallLives
<1>3. CASE curCallController # None /\ Live(curCallController)
  <2>1. curCallController \in Calls \ {c}
    BY <1>1, <1>3
  <2> QED
    BY <1>1, <1>2, <1>3, <2>1 DEF CancelExistingCallAndInitNewCallWork
<1>4. CASE ~(curCallController # None /\ Live(curCallController))
  <2>1. \A x \in Calls : ~Live(x)
    BY <1>2, <1>4
  <2> QED
    BY <1>1, <1>4, <2>1 DEF CancelExistingCallAndInitNewCallWork
<1> QED
  BY <1>3, <1>4

\* PhoneManager.cancelExistingCallAndInitNewCallWork keeps the types.
LEMMA BeginTypes ==
    ASSUME NEW c \in Calls, NEW r \in Sessions \cup {None}, PhoneTypeOK, PermissionGranted(r, c)
    PROVE  PhoneTypeOK'
<1> USE DEF PhoneTypeOK, PermissionGranted, CancelExistingCallAndInitNewCallWork
<1>1. session' \in [Calls -> Sessions \cup {None}] /\ curCallController' \in Calls
  OBVIOUS
<1>2. stage' \in [Calls -> Stages]
  BY DEF Stages
<1>3. tries' \in [Calls -> 0 .. MAX_TRY_COUNT - 1]
  OBVIOUS
<1>4. progress' \in [Calls -> ProgressTypes] /\ termination' \in [Calls -> TerminationTypes \cup {None}]
  BY DEF ProgressTypes, TerminationTypes
<1>5. accepted' \in [Calls -> {None, "yes", "no", "failed"}]
  BY DEF FailIncomplete
<1>6. sas' \in [Calls -> {None, "sas", "failed"}]
  BY DEF FailIncomplete
<1>7. recentCalls' \in [Calls -> {None, "outgoing", "incoming", "missed"}]
  <2>1. \A x \in Calls : CallType(x, "ReplacedByNext") \in {"outgoing", "incoming", "missed"}
    BY DEF CallType
  <2> QED
    BY <2>1
<1>8. permissionRequests' \in [Sessions \cup {None} -> 0 .. MaxRequests]
  OBVIOUS
<1> QED
  BY <1>1, <1>2, <1>3, <1>4, <1>5, <1>6, <1>7, <1>8

\* PhoneManager.cancelExistingCallAndInitNewCallWork keeps the invariant.
LEMMA BeginInv ==
    ASSUME NEW c \in Calls, NEW r \in Sessions \cup {None}, PhoneIInv, PermissionGranted(r, c)
    PROVE  PhoneIInv'
<1>1. CancelExistingCallAndInitNewCallWork(c, r)
  BY DEF PermissionGranted
<1>2. CallInv'
  <2>1. \A x \in Calls \ {c} : ~Live(x)'
    BY <1>1, BeginChanges DEF Live
  <2>2. OnlyCurrentCallLives'
    BY <1>1, <2>1, BeginChanges DEF OnlyCurrentCallLives
  <2>3. FuturesFit'
    BY <1>1, BeginChanges DEF FuturesFit, PhoneIInv, CallInv, Live, isInitiator, TerminationTypes
  <2>4. AnsweredBeforeSecuring'
    BY <1>1, BeginChanges DEF AnsweredBeforeSecuring, PhoneIInv, CallInv, Live
  <2>5. LocalEndTellsAnswer'
    BY <1>1, BeginChanges DEF LocalEndTellsAnswer, PhoneIInv, CallInv, TerminationTypes
  <2> QED
    BY <2>2, <2>3, <2>4, <2>5 DEF CallInv
<1> QED
  BY <1>2, BeginTypes DEF PhoneIInv
-----------------------------------------------------------------------------
\* Every step is of one of four kinds.
LEMMA StepKinds ==
    ASSUME PhoneIInv, RedPhoneNext
    PROVE  \/ \E c \in Calls, reason \in TerminationTypes : Ends(c, reason)
           \/ \E c \in Calls : GoesOn(c)
           \/ \E c \in Calls, r \in Sessions \cup {None} : PermissionGranted(r, c)
           \/ UNCHANGED <<callVars, curCallController>> /\ PhoneTypeOK'
<1> DEFINE Frame == UNCHANGED <<callVars, curCallController>> /\ PhoneTypeOK'
<1>1. CASE \E c \in Calls : ConnectStep(c)
  BY <1>1, ConnectStepKinds
<1>2. ASSUME NEW c \in Calls, AddCall(c) PROVE Frame
  <2>1. recentCalls' \in [Calls -> {None, "outgoing", "incoming", "missed"}]
    <3>1. CallType(c, termination[c]) \in {"outgoing", "incoming", "missed"}
      BY DEF CallType
    <3> QED
      BY <1>2, <3>1 DEF AddCall, PhoneIInv, PhoneTypeOK
  <2>2. observed' \in [Calls -> BOOLEAN]
    BY <1>2 DEF AddCall, PhoneIInv, PhoneTypeOK
  <2> QED
    BY <1>2, <2>1, <2>2 DEF AddCall, PhoneIInv, PhoneTypeOK, callVars, phoneVars
<1>3. CASE WebRTCCallChanges
  BY <1>3 DEF WebRTCCallChanges, PhoneIInv, PhoneTypeOK, callVars, listVars
<1>4. ASSUME NEW s \in Sessions, IncomingCallWithSession(s) PROVE Frame
  <2>1. permissionRequests' \in [Sessions \cup {None} -> 0 .. MaxRequests]
        /\ signalledBusy' \subseteq Sessions
    BY <1>4 DEF IncomingCallWithSession, RequestPermission, PhoneIInv, PhoneTypeOK
  <2> QED
    BY <1>4, <2>1 DEF IncomingCallWithSession, PhoneIInv, PhoneTypeOK, callVars, listVars
<1>5. CASE InitiateOutgoingCall
  <2>1. permissionRequests' \in [Sessions \cup {None} -> 0 .. MaxRequests]
    BY <1>5 DEF InitiateOutgoingCall, RequestPermission, PhoneIInv, PhoneTypeOK
  <2> QED
    BY <1>5, <2>1 DEF InitiateOutgoingCall, PhoneIInv, PhoneTypeOK, callVars, listVars
<1>6. ASSUME NEW r \in Sessions \cup {None}, PermissionDenied(r) PROVE Frame
  <2>1. permissionRequests' \in [Sessions \cup {None} -> 0 .. MaxRequests]
    BY <1>6 DEF PermissionDenied, PhoneIInv, PhoneTypeOK
  <2> QED
    BY <1>6, <2>1 DEF PermissionDenied, PhoneIInv, PhoneTypeOK, callVars, listVars
<1>7. CASE curCallController # None /\ AcceptCall(curCallController)
  <2> DEFINE c == curCallController
  <2>1. c \in Calls /\ tries[c] \in 0 .. MAX_TRY_COUNT - 1 /\ progress[c] \in ProgressTypes
    BY <1>7 DEF PhoneIInv, PhoneTypeOK
  <2>2. /\ Rank[progress[c]] >= Rank[progress[c]]
        /\ tries = [tries EXCEPT ![c] = tries[c]] /\ progress = [progress EXCEPT ![c] = progress[c]]
        /\ accepted'[c] = "yes"
    BY <1>7, <2>1, RankIsNumber DEF AcceptCall, PhoneIInv, PhoneTypeOK
  <2>3. PICK to \in Stages \ {"unused", "over"} :
          /\ stage' = [stage EXCEPT ![c] = to]
          /\ to = "initiating" => isInitiator(c)
    <3> DEFINE next == IF stage[c] = "accepting" THEN "relaying" ELSE stage[c]
    <3>1. stage' = [stage EXCEPT ![c] = next]
      BY <1>7 DEF AcceptCall
    <3>2. next \in Stages \ {"unused", "over"}
      BY <1>7, <2>1 DEF AcceptCall, PhoneIInv, PhoneTypeOK, Live, Stages
    <3>3. next = "initiating" => isInitiator(c)
      BY <2>1 DEF PhoneIInv, CallInv, FuturesFit
    <3> QED
      BY <3>1, <3>2, <3>3
  <2>4. GoesOn(c)
    BY <1>7, <2>1, <2>2, <2>3 DEF AcceptCall, GoesOn
  <2> QED
    BY <2>1, <2>4
<1>8. CASE curCallController # None /\ HangupOrDenyCall(curCallController)
  BY <1>8, HangupEnds DEF PhoneIInv, PhoneTypeOK
<1>9. ASSUME curCallController # None, NEW reason \in {"BackgroundTimeExpired", "UncategorizedFailure"},
             TerminateWithReason(curCallController, reason)
      PROVE  Ends(curCallController, reason) /\ curCallController \in Calls
                                             /\ reason \in TerminationTypes
  BY <1>9, TerminateEnds DEF PhoneIInv, PhoneTypeOK, TerminationTypes
<1> QED
  BY <1>1, <1>2, <1>3, <1>4, <1>5, <1>6, <1>7, <1>8, <1>9 DEF RedPhoneNext, UserStep

\* No call, no session: the invariant holds when the phone manager is created.
LEMMA PhoneInitInv == RedPhoneInit => PhoneIInv
<1> SUFFICES ASSUME RedPhoneInit PROVE PhoneIInv
  OBVIOUS
<1>1. PhoneTypeOK
  <2>1. /\ stage \in [Calls -> Stages] /\ progress \in [Calls -> ProgressTypes]
        /\ session \in [Calls -> Sessions \cup {None}]
    BY DEF RedPhoneInit, Stages, ProgressTypes
  <2>2. /\ 0 \in 0 .. MAX_TRY_COUNT - 1
        /\ 0 \in 0 .. MaxRequests
    OBVIOUS
  <2>3. /\ tries \in [Calls -> 0 .. MAX_TRY_COUNT - 1]
        /\ permissionRequests \in [Sessions \cup {None} -> 0 .. MaxRequests]
    BY <2>2 DEF RedPhoneInit
  <2>4. /\ termination \in [Calls -> TerminationTypes \cup {None}]
        /\ accepted \in [Calls -> {None, "yes", "no", "failed"}]
        /\ sas \in [Calls -> {None, "sas", "failed"}]
        /\ observed \in [Calls -> BOOLEAN]
        /\ recentCalls \in [Calls -> {None, "outgoing", "incoming", "missed"}]
    BY DEF RedPhoneInit
  <2> QED
    BY <2>1, <2>3, <2>4 DEF RedPhoneInit, PhoneTypeOK
<1>2. CallInv
  BY DEF RedPhoneInit, CallInv, OnlyCurrentCallLives, FuturesFit, AnsweredBeforeSecuring,
     LocalEndTellsAnswer, Live, TerminationTypes
<1> QED
  BY <1>1, <1>2 DEF PhoneIInv

\* Every step of the phone manager, its calls and their chains keeps the invariant.
LEMMA PhoneNextInv == PhoneIInv /\ [RedPhoneNext]_redPhoneVars => PhoneIInv'
<1> SUFFICES ASSUME PhoneIInv, [RedPhoneNext]_redPhoneVars PROVE PhoneIInv'
  OBVIOUS
<1>1. CASE RedPhoneNext
  BY <1>1, StepKinds, EndsInv, GoesOnInv, BeginInv, FrameInv
<1>2. CASE UNCHANGED redPhoneVars
  <2>1. PhoneTypeOK'
    BY <1>2 DEF PhoneIInv, PhoneTypeOK, redPhoneVars, callVars, listVars, phoneVars
  <2> QED
    BY <1>2, <2>1, FrameInv DEF redPhoneVars, phoneVars
<1> QED
  BY <1>1, <1>2

\* The inductive invariant holds of every behaviour of the phone manager and its calls.
THEOREM PhoneInvariance == RedPhoneSpec => []PhoneIInv
BY PhoneInitInv, PhoneNextInv, PTL DEF RedPhoneSpec

\* Every variable keeps to its type; in particular no call tries more often than
\* MAX_TRY_COUNT to contact the relay (TOCFuture.retry).
THEOREM PhoneTypeCorrect == RedPhoneSpec => []PhoneTypeOK
BY PhoneInvariance, PTL DEF PhoneIInv

\* Of any number of calls only the current one is alive, however permissions, calls and
\* hangups interleave (cancelExistingCallAndInitNewCallWork).
THEOREM OneCallLives == RedPhoneSpec => []OnlyCurrentCallLives
BY PhoneInvariance, PTL DEF PhoneIInv, CallInv

\* No call contacts the relay, or sends anything to the other party, before the user has
\* accepted it (asyncConnectToIncomingCallWithSessionDescriptor).
THEOREM NothingBeforeAnswer == RedPhoneSpec => []AnsweredBeforeSecuring
BY PhoneInvariance, PTL DEF PhoneIInv, CallInv

\* A call that the user ended is told to be denied if it had not been accepted, and hung
\* up if it had (hangupOrDenyCall).
THEOREM LocalEndIsTold == RedPhoneSpec => []LocalEndTellsAnswer
BY PhoneInvariance, PTL DEF PhoneIInv, CallInv

\* What the user answered is kept to, wherever the answer, the signalling server and the
\* relay overtake each other.
THEOREM TheAnswerIsKept == RedPhoneSpec => []AnswerIsKept
BY PhoneTypeCorrect, NothingBeforeAnswer, LocalEndIsTold, PTL DEF AnswerIsKept

\* No step takes the progress of a call back, and a call that has ended stays ended for the
\* reason that it ended for (unrestrictedAdvanceCallProgressTo, terminateWithReason).
THEOREM ProgressIsMonotonic == RedPhoneSpec => ProgressNeverGoesBack
<1> DEFINE Forward(c) ==
      /\ Rank[progress'[c]] >= Rank[progress[c]]
      /\ termination[c] # None => progress'[c] = "Terminated" /\ termination'[c] = termination[c]
<1>1. ASSUME PhoneIInv, RedPhoneNext, NEW c \in Calls PROVE Forward(c)
  <2>1. /\ progress[c] \in ProgressTypes /\ Rank[progress[c]] >= Rank[progress[c]]
        /\ termination[c] # None => progress[c] = "Terminated" /\ ~Live(c)
    BY <1>1, RankIsNumber DEF PhoneIInv, PhoneTypeOK, CallInv, FuturesFit, Live
  <2>2. ASSUME NEW x \in Calls, NEW reason \in TerminationTypes, Ends(x, reason) PROVE Forward(c)
    <3>1. CASE x = c
      BY <1>1, <2>1, <2>2, <3>1, TerminatedIsLast DEF Ends, PhoneIInv, PhoneTypeOK
    <3>2. CASE x # c
      BY <1>1, <2>1, <2>2, <3>2 DEF Ends, PhoneIInv, PhoneTypeOK
    <3> QED
      BY <3>1, <3>2
  <2>3. ASSUME NEW x \in Calls, GoesOn(x) PROVE Forward(c)
    <3>1. CASE x = c
      BY <1>1, <2>1, <2>3, <3>1 DEF GoesOn, PhoneIInv, PhoneTypeOK
    <3>2. CASE x # c
      BY <1>1, <2>1, <2>3, <3>2 DEF GoesOn, PhoneIInv, PhoneTypeOK
    <3> QED
      BY <3>1, <3>2
  <2>4. ASSUME NEW x \in Calls, NEW r \in Sessions \cup {None}, PermissionGranted(r, x)
        PROVE  Forward(c)
    <3>1. CancelExistingCallAndInitNewCallWork(x, r)
      BY <2>4 DEF PermissionGranted
    <3>2. CASE x = c
      BY <1>1, <2>1, <3>1, <3>2, BeginChanges DEF PhoneIInv, CallInv, FuturesFit
    <3>3. CASE x # c
      BY <1>1, <2>1, <3>1, <3>3, BeginChanges, TerminatedIsLast
    <3> QED
      BY <3>2, <3>3
  <2>5. CASE UNCHANGED <<callVars, curCallController>>
    BY <2>1, <2>5 DEF callVars
  <2> QED
    BY <1>1, <2>2, <2>3, <2>4, <2>5, StepKinds
<1>2. PhoneIInv /\ [RedPhoneNext]_redPhoneVars => [\A c \in Calls : Forward(c)]_redPhoneVars
  BY <1>1
<1> QED
  BY <1>2, PhoneInvariance, PTL DEF RedPhoneSpec, ProgressNeverGoesBack
=============================================================================
