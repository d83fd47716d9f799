---------------------------- MODULE ServerProofs ----------------------------
(***************************************************************************)
(* What the app and its servers hold of each other, for every set of       *)
(* requests, jobs and runs and every size of a page: the responses of      *)
(* pipelined requests (HttpSignalling), the push tokens (PushTokens) and   *)
(* the envelopes (MessageFetcher), and with them what a launch keeps on    *)
(* record of its own work (Migrations).                                    *)
(***************************************************************************)
EXTENDS HttpSignalling, Migrations, PushTokens, MessageFetcher, Induction,
        FiniteSetTheorems, SequenceTheorems, TLAPS

-----------------------------------------------------------------------------
(* When terminate has returned, nothing waits and nothing will *)

(***************************************************************************)
(* A future that waits is queued, and a cancelled lifetime means an empty  *)
(* queue and a closed stream, or a user's thread on the way there, which   *)
(* holds the manager's lock.                                               *)
(***************************************************************************)
WaitingIsQueued ==
  \A r \in Request : future[r] = "incomplete" => r \in ToSet(eventualResponseQueue)

CancelledIsEnding ==
  lifetimeCancelled =>
    /\ closedLocally \/ userAt = "closing"
    /\ eventualResponseQueue = <<>> \/ userAt \in {"closing", "clearing"}

HttpInv ==
  /\ future \in [Request -> {"unasked", "incomplete", "answered", "failed"}]
  /\ eventualResponseQueue \in Seq(Request)
  /\ lifetimeCancelled \in BOOLEAN /\ closedLocally \in BOOLEAN
  /\ userAt \in {"idle", "sending", "closing", "clearing"}
  /\ managerLocked <=> userAt \in {"closing", "clearing"}
  /\ WaitingIsQueued
  /\ CancelledIsEnding

LEMMA EmptyQueue == ToSet(<<>>) = {} /\ <<>> \in Seq(Request)
  BY DEF ToSet

LEMMA Queued ==
  ASSUME NEW s \in Seq(Request), NEW r \in Request
  PROVE  Append(s, r) \in Seq(Request) /\ ToSet(Append(s, r)) = ToSet(s) \cup {r}
<1> DEFINE t == Append(s, r)
<1>1. /\ t \in Seq(Request) /\ Len(t) = Len(s) + 1 /\ Len(s) \in Nat
      /\ t[Len(s) + 1] = r /\ \A i \in 1 .. Len(s) : t[i] = s[i]
  OBVIOUS
<1> HIDE DEF t
<1>2. DOMAIN t = 1 .. Len(s) + 1 /\ DOMAIN s = 1 .. Len(s)  BY <1>1
<1>3. ASSUME NEW x \in ToSet(t) PROVE x \in ToSet(s) \cup {r}
  <2>1. PICK i \in 1 .. Len(s) + 1 : x = t[i]  BY <1>2 DEF ToSet
  <2>2. i = Len(s) + 1 \/ i \in 1 .. Len(s)  BY <1>1
  <2> QED  BY <1>1, <1>2, <2>1, <2>2 DEF ToSet
<1>4. ASSUME NEW x \in ToSet(s) PROVE x \in ToSet(t)
  <2>1. PICK i \in 1 .. Len(s) : x = s[i]  BY <1>2 DEF ToSet
  <2>2. i \in 1 .. Len(s) + 1 /\ t[i] = x  BY <1>1, <2>1
  <2> QED  BY <1>2, <2>2 DEF ToSet
<1>5. r \in ToSet(t)
  <2>1. Len(s) + 1 \in 1 .. Len(s) + 1  BY <1>1
  <2> QED  BY <1>1, <1>2, <2>1 DEF ToSet
<1>6. ToSet(t) = ToSet(s) \cup {r}  BY <1>3, <1>4, <1>5
<1> QED  BY <1>1, <1>6 DEF t

LEMMA Dequeued ==
  ASSUME NEW s \in Seq(Request), s # <<>>
  PROVE  /\ Head(s) \in Request /\ Tail(s) \in Seq(Request)
         /\ ToSet(s) = ToSet(Tail(s)) \cup {Head(s)}
<1>1. Head(s) \in Request /\ Tail(s) \in Seq(Request)  OBVIOUS
<1>2. ASSUME NEW r \in ToSet(s) PROVE r \in ToSet(Tail(s)) \cup {Head(s)}
  <2>1. PICK i \in 1 .. Len(s) : r = s[i]  BY DEF ToSet
  <2>2. CASE i = 1  BY <2>1, <2>2
  <2>3. CASE i # 1
    <3>1. i - 1 \in DOMAIN Tail(s) /\ Tail(s)[i - 1] = s[i]  BY <2>1, <2>3
    <3> QED  BY <2>1, <3>1 DEF ToSet
  <2> QED  BY <2>2, <2>3
<1>3. ASSUME NEW r \in ToSet(Tail(s)) PROVE r \in ToSet(s)
  <2>1. PICK i \in DOMAIN Tail(s) : r = Tail(s)[i]  BY DEF ToSet
  <2>2. i + 1 \in DOMAIN s /\ Tail(s)[i] = s[i + 1]  BY <2>1
  <2> QED  BY <2>1, <2>2 DEF ToSet
<1>4. Head(s) \in ToSet(s)  BY DEF ToSet
<1> QED  BY <1>1, <1>2, <1>3, <1>4

\* Nothing waits once what waited and was queued has failed.
LEMMA ClearedFails ==
  ASSUME HttpInv,
         NEW futures \in [Request -> {"unasked", "incomplete", "answered", "failed"}],
         \A r \in Request : futures[r] = "incomplete" => future[r] = "incomplete"
  PROVE  /\ Cleared(futures) \in [Request -> {"unasked", "incomplete", "answered", "failed"}]
         /\ \A r \in Request : Cleared(futures)[r] # "incomplete"
  BY DEF HttpInv, WaitingIsQueued, Cleared

LEMMA HttpInvStep == HttpInv /\ [HttpNext]_httpVars => HttpInv'
<1> SUFFICES ASSUME HttpInv, [HttpNext]_httpVars PROVE HttpInv'  OBVIOUS
<1> USE EmptyQueue
<1>1. ASSUME NEW r \in Request, AsyncResponseForRequest(r) PROVE HttpInv'
  <2>1. CASE lifetimeCancelled
    BY <1>1, <2>1 DEF AsyncResponseForRequest, streamVars, HttpInv, WaitingIsQueued,
                      CancelledIsEnding
  <2>2. CASE ~lifetimeCancelled
    <3>1. /\ future' = [future EXCEPT ![r] = "incomplete"]
          /\ eventualResponseQueue' = Append(eventualResponseQueue, r)
          /\ userAt' = "sending" /\ ~lifetimeCancelled' /\ userAt = "idle"
          /\ UNCHANGED <<lifetimeCancelled, closedLocally, managerLocked>>
      BY <1>1, <2>2 DEF AsyncResponseForRequest, streamVars
    <3>2. /\ eventualResponseQueue' \in Seq(Request)
          /\ ToSet(eventualResponseQueue') = ToSet(eventualResponseQueue) \cup {r}
      BY <3>1, Queued DEF HttpInv
    <3>3. WaitingIsQueued'  BY <3>1, <3>2 DEF HttpInv, WaitingIsQueued
    <3>4. CancelledIsEnding'  BY <3>1 DEF CancelledIsEnding
    <3>5. managerLocked' <=> userAt' \in {"closing", "clearing"}  BY <3>1 DEF HttpInv
    <3> QED  BY <3>1, <3>2, <3>3, <3>4, <3>5 DEF HttpInv
  <2> QED  BY <2>1, <2>2
<1>2. CASE Send
  BY <1>2 DEF Send, managerVars, HttpInv, WaitingIsQueued, CancelledIsEnding
<1>3. CASE TerminateWhenDoneCurrentWork
  BY <1>3 DEF TerminateWhenDoneCurrentWork, userVars, streamVars, HttpInv, WaitingIsQueued,
              CancelledIsEnding
<1>4. CASE UserTerminates
  BY <1>4 DEF UserTerminates, streamVars, HttpInv, WaitingIsQueued, CancelledIsEnding
<1>5. CASE UserClosesStream
  BY <1>5 DEF UserClosesStream, managerVars, HttpInv, WaitingIsQueued, CancelledIsEnding
<1>6. CASE UserClearsQueue
  <2>1. /\ future' = Cleared(future) /\ eventualResponseQueue' = <<>>
        /\ userAt = "clearing" /\ userAt' = "idle" /\ managerLocked' = FALSE
        /\ UNCHANGED <<lifetimeCancelled, closedLocally>>
    BY <1>6 DEF UserClearsQueue, streamVars
  <2>2. future \in [Request -> {"unasked", "incomplete", "answered", "failed"}]  BY DEF HttpInv
  <2>3. /\ future' \in [Request -> {"unasked", "incomplete", "answered", "failed"}]
        /\ \A r \in Request : future'[r] # "incomplete"
    BY <2>1, <2>2, ClearedFails
  <2>4. WaitingIsQueued' /\ eventualResponseQueue' \in Seq(Request)
    BY <2>1, <2>3 DEF WaitingIsQueued
  <2>5. CancelledIsEnding'  BY <2>1 DEF HttpInv, CancelledIsEnding
  <2>6. managerLocked' <=> userAt' \in {"closing", "clearing"}  BY <2>1
  <2> QED  BY <2>1, <2>3, <2>4, <2>5, <2>6 DEF HttpInv
<1>7. CASE SpaceAvailable \/ BytesAvailable \/ ChunkIsRead \/ NetworkFails
           \/ StreamTerminates \/ ServerReads \/ ServerSends \/ HandleServerRequest
           \/ UNCHANGED httpVars
  <2>1. /\ UNCHANGED <<managerVars, userVars>>
        /\ closedLocally' \in BOOLEAN /\ (closedLocally => closedLocally')
    BY <1>7 DEF SpaceAvailable, BytesAvailable, ChunkIsRead, NetworkFails, StreamTerminates,
                ServerReads, ServerSends, HandleServerRequest, httpVars, streamVars, HttpInv
  <2> QED  BY <2>1 DEF managerVars, userVars, HttpInv, WaitingIsQueued, CancelledIsEnding
<1>8. ASSUME NEW futures \in [Request -> {"unasked", "incomplete", "answered", "failed"}],
             \A r \in Request : futures[r] = "incomplete" => future[r] = "incomplete",
             Terminate(futures), UNCHANGED userVars, ~managerLocked
      PROVE  HttpInv'
  <2>1. /\ future' = Cleared(futures) /\ eventualResponseQueue' = <<>>
        /\ lifetimeCancelled' = TRUE /\ closedLocally' = TRUE
        /\ userAt' = userAt /\ managerLocked' = managerLocked
    BY <1>8 DEF Terminate, userVars
  <2>2. /\ future' \in [Request -> {"unasked", "incomplete", "answered", "failed"}]
        /\ \A r \in Request : future'[r] # "incomplete"
    BY <1>8, <2>1, ClearedFails
  <2> QED  BY <2>1, <2>2 DEF HttpInv, WaitingIsQueued, CancelledIsEnding
<1>9. CASE HandleResponse
  <2>0. UNCHANGED userVars /\ ~managerLocked
    BY <1>9 DEF HandleResponse, NextMessage
  <2>1. CASE eventualResponseQueue = <<>>
    BY <1>9, <2>1, <2>0 DEF HandleResponse, userVars, HttpInv, WaitingIsQueued, CancelledIsEnding
  <2>2. CASE eventualResponseQueue # <<>>
    <3> DEFINE r == Head(eventualResponseQueue)
               futures == IF future[r] = "incomplete" THEN [future EXCEPT ![r] = "answered"]
                          ELSE future
    <3>1. /\ r \in Request /\ Tail(eventualResponseQueue) \in Seq(Request)
          /\ ToSet(eventualResponseQueue) = ToSet(Tail(eventualResponseQueue)) \cup {r}
      BY <2>2, Dequeued DEF HttpInv
    <3>2. IF r = lastWork THEN Terminate(futures)
          ELSE /\ future' = futures
               /\ eventualResponseQueue' = Tail(eventualResponseQueue)
               /\ UNCHANGED <<lifetimeCancelled, closedLocally>>
      BY <1>9, <2>2 DEF HandleResponse, AnsweredRequest
    <3> HIDE DEF r
    <3>3. /\ futures \in [Request -> {"unasked", "incomplete", "answered", "failed"}]
          /\ futures[r] # "incomplete"
          /\ \A q \in Request : futures[q] = "incomplete" => future[q] = "incomplete"
      BY <3>1 DEF HttpInv
    <3> HIDE DEF futures
    <3>4. CASE r = lastWork  BY <2>0, <3>2, <3>3, <3>4, <1>8
    <3>5. CASE r # lastWork
      <4>1. /\ future' = futures /\ eventualResponseQueue' = Tail(eventualResponseQueue)
            /\ UNCHANGED <<lifetimeCancelled, closedLocally, userAt, managerLocked>>
        BY <2>0, <3>2, <3>5 DEF userVars
      <4>2. WaitingIsQueued'  BY <3>1, <3>3, <4>1 DEF HttpInv, WaitingIsQueued
      <4>3. ~lifetimeCancelled  BY <2>0, <2>2 DEF HttpInv, CancelledIsEnding
      <4> QED  BY <3>1, <3>3, <4>1, <4>2, <4>3 DEF HttpInv, CancelledIsEnding
    <3> QED  BY <3>4, <3>5
  <2> QED  BY <2>1, <2>2
<1>10. CASE HandleHangup \/ ErrorHandlerEndsCall
  <2>1. Terminate(future) /\ UNCHANGED userVars /\ ~managerLocked
    BY <1>10 DEF HandleHangup, ErrorHandlerEndsCall, NextMessage
  <2>2. future \in [Request -> {"unasked", "incomplete", "answered", "failed"}]  BY DEF HttpInv
  <2> QED  BY <2>1, <2>2, <1>8
<1>11. CASE HandleGarbage \/ FailureIsReported
  <2>1. ClearOnSeriousError /\ UNCHANGED userVars /\ ~managerLocked
    BY <1>11 DEF HandleGarbage, FailureIsReported, NextMessage
  <2>2. future \in [Request -> {"unasked", "incomplete", "answered", "failed"}]  BY DEF HttpInv
  <2>3. CASE lastWork \in ToSet(eventualResponseQueue)
    BY <1>8, <2>1, <2>2, <2>3 DEF ClearOnSeriousError
  <2>4. CASE lastWork \notin ToSet(eventualResponseQueue)
    <3>1. /\ future' = Cleared(future) /\ eventualResponseQueue' = <<>>
          /\ UNCHANGED <<lifetimeCancelled, closedLocally, userAt, managerLocked>>
      BY <2>1, <2>4 DEF ClearOnSeriousError, userVars
    <3>2. /\ future' \in [Request -> {"unasked", "incomplete", "answered", "failed"}]
          /\ \A r \in Request : future'[r] # "incomplete"
      BY <2>2, <3>1, ClearedFails
    <3> QED  BY <3>1, <3>2 DEF HttpInv, WaitingIsQueued, CancelledIsEnding
  <2> QED  BY <2>3, <2>4
<1> QED  BY <1>1, <1>2, <1>3, <1>4, <1>5, <1>6, <1>7, <1>9, <1>10, <1>11
         DEF HttpNext, UserContinues, RunLoop

LEMMA HttpStart == HttpInit => HttpInv
<1> SUFFICES ASSUME HttpInit PROVE HttpInv
  OBVIOUS
<1>1. WaitingIsQueued /\ CancelledIsEnding
  BY DEF HttpInit, WaitingIsQueued, CancelledIsEnding
<1>2. eventualResponseQueue \in Seq(Request)
  BY EmptyQueue DEF HttpInit
<1>3. future \in [Request -> {"unasked", "incomplete", "answered", "failed"}]
  BY DEF HttpInit
<1>4. managerLocked <=> userAt \in {"closing", "clearing"}
  BY DEF HttpInit
<1>5. /\ lifetimeCancelled \in BOOLEAN /\ closedLocally \in BOOLEAN
      /\ userAt \in {"idle", "sending", "closing", "clearing"}
  BY DEF HttpInit
<1> QED
  BY <1>1, <1>2, <1>3, <1>4, <1>5 DEF HttpInv

(***************************************************************************)
(* The inductive invariant holds (HttpManager.m:28-156).                   *)
(***************************************************************************)
THEOREM HttpInvariant == HttpSpec => []HttpInv
  BY HttpStart, HttpInvStep, PTL DEF HttpSpec

(***************************************************************************)
(* When terminate has returned no future waits and the stream is closed.   *)
(***************************************************************************)
THEOREM TerminatedEnds == HttpSpec => []TerminatedIsOver
<1>1. HttpInv => TerminatedIsOver
  BY EmptyQueue DEF HttpInv, TerminatedIsOver, WaitingIsQueued, CancelledIsEnding
<1> QED  BY <1>1, HttpInvariant, PTL

-----------------------------------------------------------------------------
(* Responses and requests stay paired *)

Known == Request \cup {NoRequest}

FiltersUpTo(s, kind, k, f) ==
  /\ f \in [0 .. k -> Seq(Known)] /\ f[0] = <<>>
  /\ \A n \in 1 .. k :
       f[n] = IF s[n].kind = kind THEN Append(f[n - 1], s[n].of) ELSE f[n - 1]

LEMMA MessageParts == \A m \in Message : m.of \in Known
  BY DEF Message, Known, RequestOf, ResponseTo, Ringing, Hangup, OurResponse, Garbage

LEMMA FilterExists ==
  ASSUME NEW s \in Seq(Message), NEW kind
  PROVE  \E f : FiltersUpTo(s, kind, Len(s), f) /\ OfKind(s, kind) = f[Len(s)]
<1> DEFINE step(n, v) == IF s[n].kind = kind THEN Append(v, s[n].of) ELSE v
           next == [n \in 1 .. Len(s) |-> [v \in Seq(Known) |-> step(n, v)]]
           Of(f) == [n \in 0 .. Len(s) |->
                       IF n = 0 THEN <<>>
                       ELSE IF s[n].kind = kind THEN Append(f[n - 1], s[n].of) ELSE f[n - 1]]
           of == CHOOSE f : f = Of(f)
<1>1. /\ Len(s) \in Nat /\ <<>> \in Seq(Known)
      /\ \A n \in 1 .. Len(s) : s[n].of \in Known
  BY MessageParts
<1>2. next \in [1 .. Len(s) -> [Seq(Known) -> Seq(Known)]]
  <2>1. ASSUME NEW n \in 1 .. Len(s), NEW v \in Seq(Known) PROVE step(n, v) \in Seq(Known)
    BY <1>1
  <2> HIDE DEF step
  <2> QED  BY <2>1
<1>3. PICK f \in [0 .. Len(s) -> Seq(Known)] :
        f[0] = <<>> /\ \A n \in 1 .. Len(s) : f[n] = next[n][f[n - 1]]
  <2>1. PICK V, base, m, steps : V = Seq(Known) /\ base = <<>> /\ m = Len(s) /\ steps = next
    OBVIOUS
  <2>2. base \in V /\ m \in Nat /\ steps \in [1 .. m -> [V -> V]]
    BY <1>1, <1>2, <2>1
  <2>3. \E f \in [0 .. m -> V] : f[0] = base /\ \A n \in 1 .. m : f[n] = steps[n][f[n - 1]]
    BY <2>2, RecursionExists, SMTT(60)
  <2> HIDE DEF next
  <2> QED  BY <2>1, <2>3
<1>4. \A n \in 1 .. Len(s) :
         f[n] = IF s[n].kind = kind THEN Append(f[n - 1], s[n].of) ELSE f[n - 1]
  <2> SUFFICES ASSUME NEW n \in 1 .. Len(s) PROVE f[n] = step(n, f[n - 1])
    OBVIOUS
  <2>1. n - 1 \in 0 .. Len(s) /\ f[n - 1] \in Seq(Known)
    BY <1>1, <1>3
  <2> HIDE DEF step
  <2> QED  BY <1>3, <2>1
<1>5. f = Of(f)
  <2>1. \A n \in 0 .. Len(s) : n = 0 \/ n \in 1 .. Len(s)
    BY <1>1
  <2>2. \A n \in 0 .. Len(s) : f[n] = Of(f)[n]
    BY <1>3, <1>4, <2>1
  <2>3. /\ DOMAIN f = 0 .. Len(s) /\ f = [n \in 0 .. Len(s) |-> f[n]]
        /\ DOMAIN Of(f) = 0 .. Len(s) /\ Of(f) = [n \in 0 .. Len(s) |-> Of(f)[n]]
    BY <1>3
  <2> HIDE DEF Of
  <2> QED  BY <2>2, <2>3
<1> HIDE DEF Of
<1>6. of = Of(of)
  BY <1>5
<1>7. OfKind(s, kind) = of[Len(s)]
  BY DEF OfKind, Of
<1> HIDE DEF of
<1>8. \A n \in 0 .. Len(s) : of[n] = IF n = 0 THEN <<>> ELSE step(n, of[n - 1])
  BY <1>6 DEF Of
<1>9. f[0] = of[0] /\ \A n \in 1 .. Len(s) : f[n - 1] = of[n - 1] => f[n] = of[n]
  <2>1. 0 \in 0 .. Len(s) /\ f[0] = of[0]
    BY <1>1, <1>3, <1>8
  <2>2. ASSUME NEW n \in 1 .. Len(s), f[n - 1] = of[n - 1] PROVE f[n] = of[n]
    <3>1. n \in 0 .. Len(s) /\ n # 0
      BY <1>1
    <3>2. of[n] = step(n, of[n - 1])
      BY <1>8, <3>1
    <3>3. f[n] = step(n, f[n - 1])
      BY <1>4
    <3> HIDE DEF step
    <3> QED  BY <2>2, <3>2, <3>3
  <2> QED  BY <2>1, <2>2
<1>10. \A n \in 0 .. Len(s) : f[n] = of[n]
  BY <1>1, <1>9, RecursionUnique, ZenonT(60)
<1>11. OfKind(s, kind) = f[Len(s)]
  BY <1>1, <1>7, <1>10
<1> QED
  BY <1>3, <1>4, <1>11 DEF FiltersUpTo

\* What is added to the end of a stream.
LEMMA OfKindAppend ==
  ASSUME NEW s \in Seq(Message), NEW m \in Message, NEW kind
  PROVE  /\ OfKind(s, kind) \in Seq(Known) /\ Append(s, m) \in Seq(Message)
         /\ OfKind(Append(s, m), kind)
              = IF m.kind = kind THEN Append(OfKind(s, kind), m.of) ELSE OfKind(s, kind)
<1> DEFINE t == Append(s, m)
           l == Len(s)
<1>1. /\ t \in Seq(Message) /\ Len(t) = l + 1 /\ l \in Nat
      /\ t[l + 1] = m /\ \A n \in 1 .. l : t[n] = s[n]
  OBVIOUS
<1> HIDE DEF t
<1>2. PICK f : FiltersUpTo(s, kind, l, f) /\ OfKind(s, kind) = f[l]
  BY FilterExists
<1>3. PICK g : FiltersUpTo(t, kind, l + 1, g) /\ OfKind(t, kind) = g[l + 1]
  BY <1>1, FilterExists
<1> HIDE DEF l
<1>4. f[0] = g[0] /\ \A n \in 1 .. l : f[n - 1] = g[n - 1] => f[n] = g[n]
  <2>1. f[0] = g[0]
    BY <1>2, <1>3 DEF FiltersUpTo
  <2>2. ASSUME NEW n \in 1 .. l, f[n - 1] = g[n - 1] PROVE f[n] = g[n]
    <3>1. n \in 1 .. l + 1 /\ t[n] = s[n]
      BY <1>1
    <3> QED  BY <1>2, <1>3, <2>2, <3>1 DEF FiltersUpTo
  <2> QED  BY <2>1, <2>2
<1>5. f[l] = g[l]
  <2>1. \A n \in 0 .. l : f[n] = g[n]
    <3>1. l \in Nat
      BY <1>1
    <3> QED  BY <3>1, <1>4, RecursionUnique, ZenonT(60)
  <2> QED  BY <1>1, <2>1
<1>6. l + 1 \in 1 .. l + 1 /\ (l + 1) - 1 = l /\ l \in 0 .. l
  BY <1>1
<1>7. f[l] \in Seq(Known)
  BY <1>2, <1>6 DEF FiltersUpTo
<1>8. g[l + 1] = IF m.kind = kind THEN Append(g[l], m.of) ELSE g[l]
  <2>1. \A n \in 1 .. l + 1 :
          g[n] = IF t[n].kind = kind THEN Append(g[n - 1], t[n].of) ELSE g[n - 1]
    BY <1>3 DEF FiltersUpTo
  <2> QED  BY <1>1, <1>6, <2>1
<1> QED
  BY <1>1, <1>2, <1>3, <1>5, <1>7, <1>8 DEF t

LEMMA OfKindEmpty == \A kind : OfKind(<<>>, kind) = <<>>
<1> SUFFICES ASSUME NEW kind PROVE OfKind(<<>>, kind) = <<>>
  OBVIOUS
<1>1. <<>> \in Seq(Message) /\ Len(<<>>) = 0
  OBVIOUS
<1>2. PICK f : FiltersUpTo(<<>>, kind, Len(<<>>), f) /\ OfKind(<<>>, kind) = f[Len(<<>>)]
  BY <1>1, FilterExists
<1> QED
  BY <1>1, <1>2 DEF FiltersUpTo

\* What two parts of a stream hold, one after the other.
LEMMA OfKindConcat ==
  ASSUME NEW s \in Seq(Message), NEW t \in Seq(Message), NEW kind
  PROVE  OfKind(s \o t, kind) = OfKind(s, kind) \o OfKind(t, kind)
<1> DEFINE Holds(n) == \A u \in Seq(Message) : Len(u) = n =>
                         OfKind(s \o u, kind) = OfKind(s, kind) \o OfKind(u, kind)
           S == {n \in Nat : Holds(n)}
<1>0. OfKind(s, kind) \in Seq(Known)
  <2>1. PICK f : FiltersUpTo(s, kind, Len(s), f) /\ OfKind(s, kind) = f[Len(s)]
    BY FilterExists
  <2> QED  BY <2>1 DEF FiltersUpTo
<1>1. 0 \in S
  <2>1. \A u \in Seq(Message) : Len(u) = 0 => u = <<>>
    OBVIOUS
  <2>2. s \o <<>> = s /\ OfKind(s, kind) \o <<>> = OfKind(s, kind)
    BY <1>0, ConcatEmptySeq
  <2>3. OfKind(<<>>, kind) = <<>>
    BY OfKindEmpty
  <2>4. Holds(0)
    BY <2>1, <2>2, <2>3
  <2> HIDE DEF Holds
  <2> QED  BY <2>4
<1>2. ASSUME NEW n \in Nat, n \in S PROVE n + 1 \in S
  <2> SUFFICES ASSUME NEW u \in Seq(Message), Len(u) = n + 1
               PROVE  OfKind(s \o u, kind) = OfKind(s, kind) \o OfKind(u, kind)
    OBVIOUS
  <2>1. PICK v \in Seq(Message), m \in Message : u = Append(v, m)
    <3>1. u # <<>>
      OBVIOUS
    <3> QED  BY <3>1, SequenceEmptyOrAppend
  <2>2. Len(v) = n
    BY <2>1
  <2>3. OfKind(s \o v, kind) = OfKind(s, kind) \o OfKind(v, kind)
    BY <1>2, <2>2
  <2>4. s \o v \in Seq(Message) /\ s \o u = Append(s \o v, m)
    BY <2>1
  <2>5. /\ OfKind(v, kind) \in Seq(Known) /\ m.of \in Known
        /\ OfKind(u, kind) = IF m.kind = kind THEN Append(OfKind(v, kind), m.of)
                             ELSE OfKind(v, kind)
        /\ OfKind(s \o u, kind) = IF m.kind = kind THEN Append(OfKind(s \o v, kind), m.of)
                                  ELSE OfKind(s \o v, kind)
    <3>1. m.of \in Known
      BY MessageParts
    <3>2. /\ OfKind(v, kind) \in Seq(Known)
          /\ OfKind(u, kind) = IF m.kind = kind THEN Append(OfKind(v, kind), m.of)
                               ELSE OfKind(v, kind)
      BY <2>1, OfKindAppend, Zenon
    <3>3. OfKind(s \o u, kind) = IF m.kind = kind THEN Append(OfKind(s \o v, kind), m.of)
                                 ELSE OfKind(s \o v, kind)
      <4> DEFINE w == s \o v
      <4>1. w \in Seq(Message) /\ s \o u = Append(w, m)
        BY <2>4
      <4> HIDE DEF w
      <4>2. OfKind(Append(w, m), kind) = IF m.kind = kind THEN Append(OfKind(w, kind), m.of)
                                         ELSE OfKind(w, kind)
        BY <4>1, OfKindAppend, Zenon
      <4> QED  BY <4>1, <4>2 DEF w
    <3> QED  BY <3>1, <3>2, <3>3
  <2>6. OfKind(s, kind) \o Append(OfKind(v, kind), m.of)
          = Append(OfKind(s, kind) \o OfKind(v, kind), m.of)
    BY <1>0, <2>5, SMTT(30)
  <2> QED  BY <2>3, <2>5, <2>6
<1> HIDE DEF S
<1>3. Len(t) \in S
  <2>1. \A n \in Nat : n \in S
    BY <1>1, <1>2, InductionOnNat
  <2> QED  BY <2>1
<1> QED
  BY <1>3 DEF S

LEMMA OfKindType == \A s \in Seq(Message) : \A kind : OfKind(s, kind) \in Seq(Known)
<1> SUFFICES ASSUME NEW s \in Seq(Message), NEW kind PROVE OfKind(s, kind) \in Seq(Known)
  OBVIOUS
<1>1. PICK f : FiltersUpTo(s, kind, Len(s), f) /\ OfKind(s, kind) = f[Len(s)]
  BY FilterExists
<1> QED
  BY <1>1 DEF FiltersUpTo

\* A stream of which a part is passed on
LEMMA OfKindSplit ==
  ASSUME NEW s \in Seq(Message), NEW n \in 0 .. Len(s)
  PROVE  /\ SubSeq(s, 1, n) \in Seq(Message) /\ SubSeq(s, n + 1, Len(s)) \in Seq(Message)
         /\ \A kind : OfKind(s, kind) = OfKind(SubSeq(s, 1, n), kind)
                                          \o OfKind(SubSeq(s, n + 1, Len(s)), kind)
<1>1. SubSeq(s, 1, n) \in Seq(Message) /\ SubSeq(s, n + 1, Len(s)) \in Seq(Message)
  OBVIOUS
<1>2. SubSeq(s, 1, n) \o SubSeq(s, n + 1, Len(s)) = s
  <2>1. /\ 1 \in 1 .. Len(s) + 1 /\ n \in 1 - 1 .. Len(s) /\ Len(s) \in n .. Len(s)
    OBVIOUS
  <2>2. SubSeq(s, 1, n) \o SubSeq(s, n + 1, Len(s)) = SubSeq(s, 1, Len(s))
    BY <2>1, ConcatAdjacentSubSeq
  <2> QED  BY <2>2, SubSeqFull
<1> DEFINE a == SubSeq(s, 1, n)
           b == SubSeq(s, n + 1, Len(s))
<1> HIDE DEF a, b
<1>3. \A kind : OfKind(a \o b, kind) = OfKind(a, kind) \o OfKind(b, kind)
  <2>1. a \in Seq(Message) /\ b \in Seq(Message)
    BY <1>1 DEF a, b
  <2> QED  BY <2>1, OfKindConcat, Zenon
<1> QED
  BY <1>1, <1>2, <1>3 DEF a, b

\* A stream of which the first message is taken
LEMMA OfKindHead ==
  ASSUME NEW s \in Seq(Message), s # <<>>
  PROVE  /\ Head(s) \in Message /\ Tail(s) \in Seq(Message)
         /\ \A kind : OfKind(s, kind) = IF Head(s).kind = kind
                                        THEN <<Head(s).of>> \o OfKind(Tail(s), kind)
                                        ELSE OfKind(Tail(s), kind)
<1> DEFINE h == Head(s)
           t == Tail(s)
<1>1. /\ h \in Message /\ t \in Seq(Message) /\ s = Append(<<>>, h) \o t
      /\ <<>> \in Seq(Message)
  OBVIOUS
<1> HIDE DEF h, t
<1>2. h.of \in Known
  BY <1>1, MessageParts
<1>3. \A kind : OfKind(s, kind) = OfKind(Append(<<>>, h), kind) \o OfKind(t, kind)
  <2>1. Append(<<>>, h) \in Seq(Message)
    BY <1>1
  <2> QED  BY <1>1, <2>1, OfKindConcat, ZenonT(60)
<1>4. \A kind : OfKind(Append(<<>>, h), kind) = IF h.kind = kind THEN <<h.of>> ELSE <<>>
  <2>1. \A kind : OfKind(Append(<<>>, h), kind)
                    = IF h.kind = kind THEN Append(OfKind(<<>>, kind), h.of)
                      ELSE OfKind(<<>>, kind)
    BY <1>1, OfKindAppend, ZenonT(60)
  <2>2. Append(<<>>, h.of) = <<h.of>>
    BY <1>2
  <2> QED  BY <2>1, <2>2, OfKindEmpty
<1>5. \A kind : OfKind(t, kind) \in Seq(Known)
  BY <1>1, OfKindType
<1>6. \A kind : <<>> \o OfKind(t, kind) = OfKind(t, kind)
  BY <1>5, ConcatEmptySeq
<1> QED
  BY <1>1, <1>3, <1>4, <1>6 DEF h, t

LEMMA PassedOn ==
  ASSUME NEW w \in Seq(Message), NEW s \in Seq(Message), NEW n \in 0 .. Len(s)
  PROVE  /\ w \o SubSeq(s, 1, n) \in Seq(Message) /\ SubSeq(s, n + 1, Len(s)) \in Seq(Message)
         /\ \A kind : OfKind(w \o SubSeq(s, 1, n), kind)
                        \o OfKind(SubSeq(s, n + 1, Len(s)), kind)
                        = OfKind(w, kind) \o OfKind(s, kind)
<1>1. PICK a, b : a = SubSeq(s, 1, n) /\ b = SubSeq(s, n + 1, Len(s))
  OBVIOUS
<1>2. /\ a \in Seq(Message) /\ b \in Seq(Message)
      /\ \A kind : OfKind(s, kind) = OfKind(a, kind) \o OfKind(b, kind)
  BY <1>1, OfKindSplit
<1>3. w \o a \in Seq(Message)
  BY <1>2
<1>4. \A kind : OfKind(w \o a, kind) = OfKind(w, kind) \o OfKind(a, kind)
  BY <1>2, OfKindConcat, Zenon
<1>5. \A kind : (OfKind(w, kind) \o OfKind(a, kind)) \o OfKind(b, kind)
                  = OfKind(w, kind) \o (OfKind(a, kind) \o OfKind(b, kind))
  <2> SUFFICES ASSUME NEW kind
               PROVE  (OfKind(w, kind) \o OfKind(a, kind)) \o OfKind(b, kind)
                        = OfKind(w, kind) \o (OfKind(a, kind) \o OfKind(b, kind))
    OBVIOUS
  <2>1. PICK x \in Seq(Known), y \in Seq(Known), z \in Seq(Known) :
          x = OfKind(w, kind) /\ y = OfKind(a, kind) /\ z = OfKind(b, kind)
    BY <1>2, OfKindType
  <2>2. (x \o y) \o z = x \o (y \o z)
    BY ConcatAssociative, SMTT(30)
  <2> QED  BY <2>1, <2>2, Zenon
<1> QED
  BY <1>1, <1>2, <1>3, <1>4, <1>5

\* What is written or kept to be written
LEMMA FlushKeeps ==
  ASSUME HttpTypeOK, NEW data \in Seq(Message), Flush(data)
  PROVE  /\ wire' \in Seq(Message) /\ writeBuffer' \in Seq(Message)
         /\ \A kind : OfKind(wire', kind) \o OfKind(writeBuffer', kind)
                        = OfKind(wire, kind) \o OfKind(data, kind)
<1>1. CASE connection = "connected" /\ ~closedLocally
  <2>1. PICK n \in 0 .. Len(data) :
          /\ wire' = wire \o SubSeq(data, 1, n)
          /\ writeBuffer' = SubSeq(data, n + 1, Len(data))
    BY <1>1 DEF Flush
  <2>2. PICK w \in Seq(Message) : w = wire
    BY DEF HttpTypeOK
  <2>3. /\ w \o SubSeq(data, 1, n) \in Seq(Message)
        /\ SubSeq(data, n + 1, Len(data)) \in Seq(Message)
        /\ \A kind : OfKind(w \o SubSeq(data, 1, n), kind)
                       \o OfKind(SubSeq(data, n + 1, Len(data)), kind)
                       = OfKind(w, kind) \o OfKind(data, kind)
    BY PassedOn, Zenon
  <2> QED  BY <2>1, <2>2, <2>3, Zenon
<1>2. CASE ~(connection = "connected" /\ ~closedLocally)
  BY <1>2 DEF Flush, HttpTypeOK
<1> QED
  BY <1>1, <1>2

(***************************************************************************)
(* Pairing: what makes it inductive is that a stream that is closed is not *)
(* read from any more, unless the manager that is terminated has no queue, *)
(* and that once the manager is told of a failure, and until the stream is *)
(* closed, the queue need follow nothing.                                  *)
(***************************************************************************)
ClosedIsDeaf ==
  /\ userAt = "sending" => userRequest \in Request
  /\ userAt \in {"closing", "clearing"} => lifetimeCancelled
  /\ runLoopAt # "reading" => chunk = <<>>
  /\ closedLocally /\ ~lifetimeCancelled => chunk = <<>>

PairedInv == HttpInv /\ PairingInv /\ ClosedIsDeaf

LEMMA Parts ==
  /\ \A m \in Message : m.kind = "request" => m.of \in Request
  /\ \A r \in Request : /\ RequestOf(r) \in Message /\ ResponseTo(r) \in Message
                        /\ RequestOf(r).kind = "request" /\ RequestOf(r).of = r
                        /\ ResponseTo(r).kind = "response" /\ ResponseTo(r).of = r
  /\ \A m \in {Ringing, Hangup, OurResponse, Garbage} :
       m \in Message /\ m.kind \notin {"request", "response"}
<1> USE DEF RequestOf, ResponseTo, Ringing, Hangup, OurResponse, Garbage
<1>1. \A m \in Message : m.kind = "request" => m.of \in Request
  BY DEF Message
<1>2. \A r \in Request : RequestOf(r) \in Message /\ ResponseTo(r) \in Message
  BY DEF Message
<1>3. {Ringing, Hangup, OurResponse, Garbage} \subseteq Message
  BY Zenon DEF Message
<1>4. \A r \in Request : /\ RequestOf(r).kind = "request" /\ RequestOf(r).of = r
                         /\ ResponseTo(r).kind = "response" /\ ResponseTo(r).of = r
  OBVIOUS
<1>5. \A m \in {Ringing, Hangup, OurResponse, Garbage} : m.kind \notin {"request", "response"}
  OBVIOUS
<1> HIDE DEF RequestOf, ResponseTo, Ringing, Hangup, OurResponse, Garbage
<1> QED
  BY <1>1, <1>2, <1>3, <1>4, <1>5

LEMMA ClosedIsDeafStep == PairedInv /\ [HttpNext]_httpVars => ClosedIsDeaf'
<1> SUFFICES ASSUME PairedInv, [HttpNext]_httpVars PROVE ClosedIsDeaf'
  OBVIOUS
<1> USE DEF PairedInv, ClosedIsDeaf, httpVars, managerVars, userVars, streamVars, networkVars
<1>1. ASSUME NEW r \in Request, AsyncResponseForRequest(r) PROVE ClosedIsDeaf'
  BY <1>1 DEF AsyncResponseForRequest
<1>2. CASE Send \/ TerminateWhenDoneCurrentWork \/ UserTerminates
  BY <1>2 DEF Send, TerminateWhenDoneCurrentWork, UserTerminates, PairingInv, HttpTypeOK
<1>3. CASE UserClosesStream \/ UserClearsQueue
  BY <1>3 DEF UserClosesStream, UserClearsQueue
<1>4. CASE SpaceAvailable \/ BytesAvailable \/ ChunkIsRead \/ NetworkFails
  BY <1>4 DEF SpaceAvailable, BytesAvailable, ChunkIsRead, NetworkFails, StreamFree
<1>5. CASE HandleResponse
  BY <1>5 DEF HandleResponse, NextMessage, Terminate
<1>6. CASE HandleServerRequest \/ HandleHangup
  BY <1>6 DEF HandleServerRequest, HandleHangup, NextMessage, Terminate
<1>7. CASE HandleGarbage \/ FailureIsReported \/ ErrorHandlerEndsCall \/ StreamTerminates
  BY <1>7 DEF HandleGarbage, FailureIsReported, ErrorHandlerEndsCall, StreamTerminates,
              ClearOnSeriousError, Terminate, NextMessage
<1>8. CASE ServerReads \/ ServerSends \/ UNCHANGED httpVars
  BY <1>8 DEF ServerReads, ServerSends
<1> QED
  BY <1>1, <1>2, <1>3, <1>4, <1>5, <1>6, <1>7, <1>8 DEF HttpNext, UserContinues, RunLoop

\* Concatenations that are read in another way
LEMMA Assoc ==
  ASSUME NEW T
  PROVE  \A a, b, c \in Seq(T) : (a \o b) \o c = a \o (b \o c) /\ a \o b \in Seq(T)
  BY ConcatAssociative

Cat(x, y) == x \o y

\* What is on its way along five parts of a stream
Along(a, b, c, d, e) == Cat(Cat(Cat(Cat(a, b), c), d), e)

Associative(S) ==
  \A x, y, z \in S : Cat(Cat(x, y), z) = Cat(x, Cat(y, z)) /\ Cat(x, y) \in S

LEMMA ConcatIsAssociative == ASSUME NEW T PROVE Associative(Seq(T))
  BY Assoc DEF Associative, Cat

LEMMA AlongGroups ==
  ASSUME NEW S, Associative(S), NEW a \in S, NEW b \in S, NEW c \in S, NEW d \in S, NEW e \in S
  PROVE  Along(a, b, c, d, e) = Cat(Cat(a, b), Cat(Cat(c, d), e)) /\ Along(a, b, c, d, e) \in S
<1>1. Cat(a, b) \in S /\ Cat(c, d) \in S /\ Cat(Cat(a, b), c) \in S
  BY DEF Associative
<1>2. Cat(Cat(Cat(a, b), c), d) = Cat(Cat(a, b), Cat(c, d)) /\ Cat(Cat(a, b), Cat(c, d)) \in S
  BY <1>1 DEF Associative
<1>3. /\ Cat(Cat(Cat(a, b), Cat(c, d)), e) = Cat(Cat(a, b), Cat(Cat(c, d), e))
      /\ Cat(Cat(Cat(a, b), Cat(c, d)), e) \in S
  BY <1>1, <1>2 DEF Associative
<1> QED
  BY <1>2, <1>3 DEF Along

\* What is answered: u goes from the head of c to the end of b.
LEMMA Answers ==
  ASSUME NEW S, Associative(S), NEW a \in S, NEW b \in S, NEW c \in S, NEW d \in S, NEW e \in S,
         NEW u \in S
  PROVE  Along(a, Cat(b, u), c, d, e) = Along(a, b, Cat(u, c), d, e)
<1>1. Cat(a, b) \in S
  BY DEF Associative
<1>2. Cat(Cat(a, b), Cat(u, c)) = Cat(Cat(Cat(a, b), u), c)
  BY <1>1 DEF Associative
<1>3. Cat(Cat(a, b), u) = Cat(a, Cat(b, u))
  BY DEF Associative
<1> QED
  BY <1>2, <1>3 DEF Along

\* What is handled: u is at the head of all.
LEMMA Handles ==
  ASSUME NEW S, Associative(S), NEW a \in S, NEW b \in S, NEW c \in S, NEW d \in S, NEW e \in S,
         NEW u \in S
  PROVE  Along(Cat(u, a), b, c, d, e) = Cat(u, Along(a, b, c, d, e))
<1>1. Cat(a, b) \in S /\ Cat(Cat(a, b), c) \in S
  BY DEF Associative
<1>2. Cat(Cat(Cat(a, b), c), d) \in S
  BY <1>1 DEF Associative
<1>3. Cat(Cat(u, a), b) = Cat(u, Cat(a, b))
  BY DEF Associative
<1>4. Cat(Cat(u, Cat(a, b)), c) = Cat(u, Cat(Cat(a, b), c))
  BY <1>1 DEF Associative
<1>5. Cat(Cat(u, Cat(Cat(a, b), c)), d) = Cat(u, Cat(Cat(Cat(a, b), c), d))
  BY <1>1 DEF Associative
<1>6. Cat(Cat(u, Cat(Cat(Cat(a, b), c), d)), e) = Cat(u, Cat(Cat(Cat(Cat(a, b), c), d), e))
  BY <1>2 DEF Associative
<1> QED
  BY <1>3, <1>4, <1>5, <1>6 DEF Along

Read == OfKind(chunk, "response")
Sent == OfKind(inbound, "response")
Written == OfKind(wire, "request")
Kept == OfKind(writeBuffer, "request")
Sending == IF userAt = "sending" THEN <<userRequest>> ELSE <<>>

StreamTypes == /\ writeBuffer \in Seq(Message) /\ wire \in Seq(Message)
               /\ inbound \in Seq(Message) /\ chunk \in Seq(Message)

\* The stream is open, and the manager has not been told of a failure.
StreamIsOpen == ~closedLocally /\ runLoopAt # "reporting"

QueueIsAlong ==
  StreamIsOpen => eventualResponseQueue = Along(Read, Sent, Written, Kept, Sending)

StreamPaired == StreamTypes /\ QueueIsAlong

LEMMA QueueFollows == QueueFollowsStream <=> QueueIsAlong
  BY DEF QueueFollowsStream, QueueIsAlong, StreamIsOpen, Along, Cat, Read, Sent, Written, Kept, Sending

LEMMA PartsTyped ==
  /\ StreamTypes => /\ Read \in Seq(Known) /\ Sent \in Seq(Known)
                    /\ Written \in Seq(Known) /\ Kept \in Seq(Known)
  /\ ClosedIsDeaf => Sending \in Seq(Known)
<1>1. ASSUME StreamTypes
      PROVE  /\ Read \in Seq(Known) /\ Sent \in Seq(Known)
             /\ Written \in Seq(Known) /\ Kept \in Seq(Known)
  BY <1>1, OfKindType, Zenon DEF StreamTypes, Read, Sent, Written, Kept
<1>2. ASSUME ClosedIsDeaf PROVE Sending \in Seq(Known)
  BY <1>2 DEF ClosedIsDeaf, Sending, Known
<1> QED
  BY <1>1, <1>2

LEMMA StreamStep == PairedInv /\ [HttpNext]_httpVars => StreamPaired'
<1> SUFFICES ASSUME PairedInv, [HttpNext]_httpVars PROVE StreamPaired'
  OBVIOUS
<1>1. PICK S : S = Seq(Known)
  OBVIOUS
<1>2. Associative(S) /\ <<>> \in S /\ \A x \in S : Cat(x, <<>>) = x
  BY <1>1, ConcatIsAssociative, ConcatEmptySeq DEF Cat
<1>3. \A u \in Known : <<u>> \in S /\ \A x \in S : Cat(x, <<u>>) = Append(x, u)
  BY <1>1 DEF Cat
<1>4. StreamTypes /\ QueueIsAlong /\ ClosedIsDeaf
  BY QueueFollows DEF PairedInv, PairingInv, HttpTypeOK, StreamTypes
<1>5. Read \in S /\ Sent \in S /\ Written \in S /\ Kept \in S /\ Sending \in S
  BY <1>1, <1>4, PartsTyped
<1> USE DEF StreamPaired
\* Steps that leave the stream alone
<1>6. ASSUME UNCHANGED <<writeBuffer, wire, inbound, chunk>>
      PROVE  StreamTypes' /\ UNCHANGED <<Read, Sent, Written, Kept>>
  BY <1>4, <1>6 DEF StreamTypes, Read, Sent, Written, Kept
<1>7. ASSUME NEW r \in Request, AsyncResponseForRequest(r) PROVE StreamPaired'
  <2>1. StreamTypes' /\ UNCHANGED <<Read, Sent, Written, Kept, StreamIsOpen>>
    BY <1>6, <1>7 DEF AsyncResponseForRequest, streamVars, networkVars, StreamIsOpen
  <2>2. CASE lifetimeCancelled
    <3>1. UNCHANGED <<eventualResponseQueue, Sending>>
      BY <1>7, <2>2 DEF AsyncResponseForRequest, Sending
    <3> QED  BY <1>4, <2>1, <3>1 DEF QueueIsAlong
  <2>3. CASE ~lifetimeCancelled
    <3>1. /\ eventualResponseQueue' = Append(eventualResponseQueue, r)
          /\ Sending = <<>> /\ Sending' = <<r>>
      BY <1>7, <2>3 DEF AsyncResponseForRequest, Sending
    <3>2. r \in Known
      BY DEF Known
    <3> DEFINE before == Cat(Cat(Cat(Read, Sent), Written), Kept)
    <3>3. before \in S
      <4>1. Cat(Read, Sent) \in S
        BY <1>2, <1>5 DEF Associative
      <4>2. Cat(Cat(Read, Sent), Written) \in S
        BY <1>2, <1>5, <4>1 DEF Associative
      <4> QED  BY <1>2, <1>5, <4>2 DEF Associative
    <3>4. ASSUME StreamIsOpen PROVE eventualResponseQueue' = Cat(before, <<r>>)
      <4>1. eventualResponseQueue = Cat(before, <<>>)
        BY <1>4, <3>1, <3>4 DEF QueueIsAlong, Along
      <4> HIDE DEF before
      <4> QED  BY <1>2, <1>3, <3>1, <3>2, <3>3, <4>1
    <3> QED  BY <2>1, <3>1, <3>4 DEF QueueIsAlong, Along
  <2> QED  BY <2>2, <2>3
<1>8. CASE Send
  <2> DEFINE data == Append(writeBuffer, RequestOf(userRequest))
  <2>1. /\ Flush(data) /\ userAt = "sending" /\ userAt' = "idle"
        /\ UNCHANGED <<eventualResponseQueue, StreamIsOpen, inbound, chunk>>
    BY <1>8 DEF Send, managerVars, StreamIsOpen
  <2>2. userRequest \in Request /\ userRequest \in Known
    BY <1>4, <2>1 DEF ClosedIsDeaf, Known
  <2>3. /\ data \in Seq(Message)
        /\ OfKind(data, "request") = Append(Kept, userRequest)
    BY <1>4, <2>2, Parts, OfKindAppend DEF StreamTypes, Kept
  <2>4. PICK d : d = data
    OBVIOUS
  <2> HIDE DEF data
  <2>5. /\ wire' \in Seq(Message) /\ writeBuffer' \in Seq(Message)
        /\ OfKind(wire', "request") \o OfKind(writeBuffer', "request")
             = OfKind(wire, "request") \o OfKind(d, "request")
    BY <2>1, <2>3, <2>4, FlushKeeps DEF PairedInv, PairingInv
  <2>6. StreamTypes' /\ UNCHANGED <<Read, Sent>>
    BY <1>4, <2>1, <2>5 DEF StreamTypes, Read, Sent
  <2>7. Written' \in S /\ Kept' \in S
    BY <1>1, <2>5, OfKindType DEF Written, Kept
  <2>8. Cat(Written', Kept') = Cat(Written, Cat(Kept, <<userRequest>>))
    BY <1>3, <1>5, <2>2, <2>3, <2>4, <2>5 DEF Written, Kept, Cat
  <2>9. Sending = <<userRequest>> /\ Sending' = <<>> /\ <<userRequest>> \in S
    BY <1>3, <2>1, <2>2 DEF Sending
  <2>10. Cat(Cat(Written', Kept'), <<>>) = Cat(Written', Kept')
    BY <1>2, <2>7 DEF Associative
  <2>11. Along(Read, Sent, Written', Kept', <<>>)
           = Along(Read, Sent, Written, Kept, <<userRequest>>)
    <3>1. PICK a, b, c, d1 : a = Read /\ b = Sent /\ c = Written /\ d1 = Kept
      OBVIOUS
    <3>2. PICK c2, d2, u, none : c2 = Written' /\ d2 = Kept' /\ u = <<userRequest>> /\ none = <<>>
      OBVIOUS
    <3>3. /\ a \in S /\ b \in S /\ c \in S /\ d1 \in S /\ c2 \in S /\ d2 \in S /\ u \in S
          /\ none \in S /\ Associative(S)
          /\ Cat(c2, d2) = Cat(c, Cat(d1, u)) /\ Cat(Cat(c2, d2), none) = Cat(c2, d2)
      BY <1>2, <1>5, <2>7, <2>8, <2>9, <2>10, <3>1, <3>2
    <3>4. /\ Along(a, b, c2, d2, none) = Cat(Cat(a, b), Cat(Cat(c2, d2), none))
          /\ Along(a, b, c, d1, u) = Cat(Cat(a, b), Cat(Cat(c, d1), u))
      BY <3>3, AlongGroups
    <3>5. Cat(Cat(c, d1), u) = Cat(c, Cat(d1, u))
      BY <3>3 DEF Associative
    <3>6. Along(a, b, c2, d2, none) = Along(a, b, c, d1, u)
      BY <3>3, <3>4, <3>5
    <3> QED  BY <3>1, <3>2, <3>6
  <2> QED  BY <1>4, <2>1, <2>6, <2>9, <2>11 DEF QueueIsAlong
<1>9. CASE TerminateWhenDoneCurrentWork \/ UserTerminates \/ NetworkFails \/ ChunkIsRead
           \/ UNCHANGED httpVars
  <2>1. UNCHANGED <<writeBuffer, wire, inbound, chunk, StreamIsOpen, eventualResponseQueue>>
    BY <1>9 DEF TerminateWhenDoneCurrentWork, UserTerminates, NetworkFails, ChunkIsRead,
                httpVars, streamVars, networkVars, managerVars, StreamFree, StreamIsOpen
  <2>2. UNCHANGED Sending
    BY <1>9 DEF TerminateWhenDoneCurrentWork, UserTerminates, NetworkFails, ChunkIsRead,
                httpVars, userVars, Sending
  <2> QED  BY <1>4, <1>6, <2>1, <2>2 DEF QueueIsAlong
\* Steps after which the stream is closed, or the manager told of a failure
<1>10. CASE UserClosesStream \/ UserClearsQueue \/ HandleHangup \/ HandleGarbage
            \/ FailureIsReported \/ ErrorHandlerEndsCall \/ StreamTerminates
  <2>1. ~StreamIsOpen'
    BY <1>4, <1>10 DEF UserClosesStream, UserClearsQueue, HandleHangup, HandleGarbage,
         FailureIsReported, ErrorHandlerEndsCall, StreamTerminates, Terminate, ClosedIsDeaf,
         PairedInv, HttpInv, CancelledIsEnding, streamVars, StreamIsOpen
  <2>2. OurResponse \in Message
    BY Parts
  <2>3. chunk # <<>> => Tail(chunk) \in Seq(Message)
    BY <1>4 DEF StreamTypes
  <2>4. StreamTypes'
    <3>1. UNCHANGED <<wire, inbound>>
      BY <1>10 DEF UserClosesStream, UserClearsQueue, HandleHangup, HandleGarbage,
                   FailureIsReported, ErrorHandlerEndsCall, StreamTerminates, networkVars
    <3>2. writeBuffer' \in {writeBuffer, Append(writeBuffer, OurResponse)}
      BY <1>10 DEF UserClosesStream, UserClearsQueue, HandleHangup, HandleGarbage,
                   FailureIsReported, ErrorHandlerEndsCall, StreamTerminates, streamVars
    <3>3. chunk' \in {chunk, <<>>} \/ (chunk # <<>> /\ chunk' = Tail(chunk))
      BY <1>10 DEF UserClosesStream, UserClearsQueue, HandleHangup, HandleGarbage,
                   FailureIsReported, ErrorHandlerEndsCall, StreamTerminates, NextMessage
    <3>4. writeBuffer' \in Seq(Message)
      <4>1. PICK m \in Message : m = OurResponse
        BY <2>2
      <4>2. PICK b \in Seq(Message) : b = writeBuffer
        BY <1>4 DEF StreamTypes
      <4>3. Append(b, m) \in Seq(Message)
        OBVIOUS
      <4> QED  BY <3>2, <4>1, <4>2, <4>3
    <3>5. chunk' \in Seq(Message)
      <4>1. <<>> \in Seq(Message)
        OBVIOUS
      <4> QED  BY <1>4, <2>3, <3>3, <4>1, Zenon DEF StreamTypes
    <3> QED  BY <1>4, <3>1, <3>4, <3>5 DEF StreamTypes
  <2> QED  BY <2>1, <2>4 DEF QueueIsAlong
\* Steps that pass on what is written
<1>11. ASSUME NEW d \in Seq(Message), OfKind(d, "request") = Kept,
              wire' \in Seq(Message), writeBuffer' \in Seq(Message),
              OfKind(wire', "request") \o OfKind(writeBuffer', "request")
                = OfKind(wire, "request") \o OfKind(d, "request"),
              UNCHANGED <<inbound, Read, Sending, StreamIsOpen, eventualResponseQueue>>,
              chunk' \in Seq(Message)
       PROVE  StreamPaired'
  <2>1. StreamTypes' /\ UNCHANGED Sent
    BY <1>4, <1>11 DEF StreamTypes, Sent
  <2>2. Written' \in S /\ Kept' \in S
    BY <1>1, <1>11, OfKindType DEF Written, Kept
  <2>3. Cat(Written', Kept') = Cat(Written, Kept)
    BY <1>11 DEF Written, Kept, Cat
  <2>4. Along(Read, Sent, Written', Kept', Sending) = Along(Read, Sent, Written, Kept, Sending)
    <3>1. PICK a, b, c, d1, e : a = Read /\ b = Sent /\ c = Written /\ d1 = Kept /\ e = Sending
      OBVIOUS
    <3>2. PICK c2, d2 : c2 = Written' /\ d2 = Kept'
      OBVIOUS
    <3>3. /\ a \in S /\ b \in S /\ c \in S /\ d1 \in S /\ e \in S /\ c2 \in S /\ d2 \in S
          /\ Cat(c2, d2) = Cat(c, d1) /\ Associative(S)
      BY <1>2, <1>5, <2>2, <2>3, <3>1, <3>2
    <3>4. /\ Along(a, b, c2, d2, e) = Cat(Cat(a, b), Cat(Cat(c2, d2), e))
          /\ Along(a, b, c, d1, e) = Cat(Cat(a, b), Cat(Cat(c, d1), e))
      BY <3>3, AlongGroups
    <3>5. Along(a, b, c2, d2, e) = Along(a, b, c, d1, e)
      BY <3>3, <3>4
    <3> QED  BY <3>1, <3>2, <3>5
  <2> QED  BY <1>4, <1>11, <2>1, <2>4 DEF QueueIsAlong
<1>12. CASE SpaceAvailable
  <2>1. PICK n \in 0 .. Len(writeBuffer) :
          /\ wire' = wire \o SubSeq(writeBuffer, 1, n)
          /\ writeBuffer' = SubSeq(writeBuffer, n + 1, Len(writeBuffer))
    BY <1>12 DEF SpaceAvailable
  <2>2. PICK w \in Seq(Message), d \in Seq(Message) : w = wire /\ d = writeBuffer
    BY <1>4 DEF StreamTypes
  <2>3. /\ w \o SubSeq(d, 1, n) \in Seq(Message) /\ SubSeq(d, n + 1, Len(d)) \in Seq(Message)
        /\ \A kind : OfKind(w \o SubSeq(d, 1, n), kind) \o OfKind(SubSeq(d, n + 1, Len(d)), kind)
                       = OfKind(w, kind) \o OfKind(d, kind)
    BY <2>2, PassedOn
  <2>4. /\ wire' \in Seq(Message) /\ writeBuffer' \in Seq(Message)
        /\ OfKind(wire', "request") \o OfKind(writeBuffer', "request")
             = OfKind(wire, "request") \o OfKind(d, "request")
    BY <2>1, <2>2, <2>3, Zenon
  <2>5. /\ UNCHANGED <<inbound, Read, Sending, StreamIsOpen, eventualResponseQueue>>
        /\ chunk' \in Seq(Message)
    BY <1>4, <1>12 DEF SpaceAvailable, managerVars, userVars, Read, Sending, StreamTypes,
                       StreamIsOpen
  <2>6. OfKind(d, "request") = Kept
    BY <2>2 DEF Kept
  <2> QED  BY <1>11, <2>2, <2>4, <2>5, <2>6
<1>13. CASE HandleServerRequest
  <2>1. /\ chunk # <<>> /\ Head(chunk).kind = "serverRequest" /\ chunk' = Tail(chunk)
        /\ Flush(Append(writeBuffer, OurResponse))
        /\ UNCHANGED <<inbound, Sending, StreamIsOpen, eventualResponseQueue>>
    BY <1>13 DEF HandleServerRequest, NextMessage, managerVars, userVars, Sending, StreamIsOpen
  <2>2. chunk' \in Seq(Message) /\ UNCHANGED Read
    BY <1>4, <2>1, OfKindHead DEF StreamTypes, Read
  <2>3. PICK d \in Seq(Message) : d = Append(writeBuffer, OurResponse)
    <3>1. PICK m \in Message : m = OurResponse
      BY Parts
    <3> QED  BY <1>4, <3>1, OfKindAppend DEF StreamTypes
  <2>4. OfKind(d, "request") = Kept
    BY <1>4, <2>3, Parts, OfKindAppend DEF StreamTypes, Kept
  <2>5. /\ wire' \in Seq(Message) /\ writeBuffer' \in Seq(Message)
        /\ OfKind(wire', "request") \o OfKind(writeBuffer', "request")
             = OfKind(wire, "request") \o OfKind(d, "request")
    BY <2>1, <2>3, FlushKeeps DEF PairedInv, PairingInv
  <2> QED  BY <1>11, <2>1, <2>2, <2>4, <2>5
<1>14. CASE BytesAvailable
  <2>1. PICK n \in 1 .. Len(inbound) :
          chunk' = SubSeq(inbound, 1, n) /\ inbound' = SubSeq(inbound, n + 1, Len(inbound))
    BY <1>14 DEF BytesAvailable
  <2>2. PICK d \in Seq(Message) : d = inbound
    BY <1>4 DEF StreamTypes
  <2>3. /\ chunk' \in Seq(Message) /\ inbound' \in Seq(Message)
        /\ OfKind(d, "response") = OfKind(chunk', "response") \o OfKind(inbound', "response")
    <3>1. n \in 0 .. Len(d) /\ chunk' = SubSeq(d, 1, n) /\ inbound' = SubSeq(d, n + 1, Len(d))
      BY <2>1, <2>2
    <3>2. /\ SubSeq(d, 1, n) \in Seq(Message) /\ SubSeq(d, n + 1, Len(d)) \in Seq(Message)
          /\ \A kind : OfKind(d, kind) = OfKind(SubSeq(d, 1, n), kind)
                                           \o OfKind(SubSeq(d, n + 1, Len(d)), kind)
      BY <3>1, OfKindSplit, Zenon
    <3> QED  BY <3>1, <3>2, Zenon
  <2>4. UNCHANGED <<wire, writeBuffer, Sending, StreamIsOpen, eventualResponseQueue>>
    BY <1>14 DEF BytesAvailable, managerVars, userVars, streamVars, Sending, StreamFree,
                 StreamIsOpen
  <2>5. StreamTypes' /\ UNCHANGED <<Written, Kept>>
    BY <1>4, <2>3, <2>4 DEF StreamTypes, Written, Kept
  <2>6. Read = <<>>
    BY <1>4, <1>14, OfKindEmpty DEF BytesAvailable, StreamFree, ClosedIsDeaf, Read
  <2>7. <<>> \o Sent = Sent
    BY <1>1, <1>5, ConcatEmptySeq
  <2>8. Cat(Read', Sent') = Cat(Read, Sent)
    BY <2>2, <2>3, <2>6, <2>7 DEF Cat, Read, Sent
  <2> QED  BY <1>4, <2>4, <2>5, <2>8 DEF QueueIsAlong, Along
<1>15. CASE HandleResponse
  <2>1. /\ chunk # <<>> /\ Head(chunk).kind = "response" /\ chunk' = Tail(chunk)
        /\ UNCHANGED <<inbound, wire, writeBuffer, Sending>>
    BY <1>15 DEF HandleResponse, NextMessage, userVars, networkVars, Sending
  <2>2. /\ Tail(chunk) \in Seq(Message) /\ Head(chunk) \in Message
        /\ Read = <<Head(chunk).of>> \o OfKind(Tail(chunk), "response")
    BY <1>4, <2>1, OfKindHead DEF StreamTypes, Read
  <2>3. StreamTypes' /\ UNCHANGED <<Sent, Written, Kept>>
    BY <1>4, <2>1, <2>2 DEF StreamTypes, Sent, Written, Kept
  <2>4. PICK u \in Known : u = Head(chunk).of
    BY <2>2, MessageParts
  <2>5. Read' \in S /\ <<u>> \in S /\ Read = Cat(<<u>>, Read')
    BY <1>1, <1>3, <2>1, <2>2, <2>4, OfKindType DEF Read, Cat
  <2>6. ASSUME StreamIsOpen'
        PROVE  eventualResponseQueue' = Along(Read', Sent, Written, Kept, Sending)
    <3>1. ~closedLocally' /\ StreamIsOpen
      BY <1>15, <2>6 DEF HandleResponse, Terminate, StreamIsOpen
    <3>2. eventualResponseQueue = Cat(<<u>>, Along(Read', Sent, Written, Kept, Sending))
      <4>1. Along(Cat(<<u>>, Read'), Sent, Written, Kept, Sending)
              = Cat(<<u>>, Along(Read', Sent, Written, Kept, Sending))
        <5>1. PICK v \in S, a \in S, b \in S, c \in S, d \in S, e \in S :
                v = <<u>> /\ a = Read' /\ b = Sent /\ c = Written /\ d = Kept /\ e = Sending
          BY <1>5, <2>5
        <5>2. Along(Cat(v, a), b, c, d, e) = Cat(v, Along(a, b, c, d, e))
          BY <1>2, Handles, SMTT(30)
        <5> QED  BY <5>1, <5>2
      <4> QED  BY <1>4, <2>5, <3>1, <4>1 DEF QueueIsAlong
    <3>3. PICK rest \in Seq(Known) : rest = Along(Read', Sent, Written, Kept, Sending)
      BY <1>1, <1>2, <1>5, <2>5, AlongGroups
    <3>4. eventualResponseQueue # <<>> /\ Tail(eventualResponseQueue) = rest
      BY <3>2, <3>3 DEF Cat
    <3>5. eventualResponseQueue' = Tail(eventualResponseQueue)
      BY <1>15, <3>1, <3>4 DEF HandleResponse, Terminate
    <3> QED  BY <3>3, <3>4, <3>5
  <2> QED  BY <2>1, <2>3, <2>6 DEF QueueIsAlong
\* Steps of the server
<1>16. CASE ServerReads
  <2>1. /\ wire # <<>> /\ wire' = Tail(wire)
        /\ inbound' = IF Head(wire).kind = "request"
                      THEN Append(inbound, ResponseTo(Head(wire).of)) ELSE inbound
        /\ UNCHANGED <<Sending, writeBuffer, chunk, StreamIsOpen, eventualResponseQueue>>
    BY <1>16 DEF ServerReads, managerVars, userVars, streamVars, Sending, StreamIsOpen
  <2>2. /\ Tail(wire) \in Seq(Message) /\ Head(wire) \in Message
        /\ Written = IF Head(wire).kind = "request"
                     THEN <<Head(wire).of>> \o OfKind(Tail(wire), "request")
                     ELSE OfKind(Tail(wire), "request")
    BY <1>4, <2>1, OfKindHead DEF StreamTypes, Written
  <2>3. UNCHANGED <<Read, Kept>>
    BY <2>1 DEF Read, Kept
  <2>4. CASE Head(wire).kind # "request"
    <3>1. StreamTypes' /\ UNCHANGED <<Sent, Written>>
      BY <1>4, <2>1, <2>2, <2>4 DEF StreamTypes, Sent, Written
    <3> QED  BY <1>4, <2>1, <2>3, <3>1 DEF QueueIsAlong
  <2>5. CASE Head(wire).kind = "request"
    <3>1. PICK u \in Known : u = Head(wire).of /\ u \in Request
      BY <2>2, <2>5, Parts DEF Known
    <3>2. /\ inbound' = Append(inbound, ResponseTo(u)) /\ ResponseTo(u) \in Message
          /\ ResponseTo(u).kind = "response" /\ ResponseTo(u).of = u
      BY <2>1, <2>5, <3>1, Parts
    <3>3. inbound' \in Seq(Message) /\ Sent' = Append(Sent, u)
      BY <1>4, <3>2, OfKindAppend DEF StreamTypes, Sent
    <3>4. StreamTypes'
      BY <1>4, <2>1, <2>2, <3>3 DEF StreamTypes
    <3>5. Written' \in S /\ <<u>> \in S /\ Written = Cat(<<u>>, Written')
          /\ Sent' = Cat(Sent, <<u>>)
      BY <1>1, <1>3, <1>5, <2>1, <2>2, <2>5, <3>1, <3>3, OfKindType DEF Written, Cat
    <3>6. Along(Read, Cat(Sent, <<u>>), Written', Kept, Sending)
            = Along(Read, Sent, Cat(<<u>>, Written'), Kept, Sending)
      <4>1. PICK v \in S, a \in S, b \in S, c \in S, d \in S, e \in S :
              v = <<u>> /\ a = Read /\ b = Sent /\ c = Written' /\ d = Kept /\ e = Sending
        BY <1>5, <3>5
      <4>2. Along(a, Cat(b, v), c, d, e) = Along(a, b, Cat(v, c), d, e)
        BY <1>2, Answers, SMTT(30)
      <4> QED  BY <4>1, <4>2
    <3> QED  BY <1>4, <2>1, <2>3, <3>4, <3>5, <3>6 DEF QueueIsAlong
  <2> QED  BY <2>4, <2>5
<1>17. CASE ServerSends
  <2>1. PICK m \in {Ringing, Hangup, Garbage} : inbound' = Append(inbound, m)
    BY <1>17 DEF ServerSends
  <2>2. UNCHANGED <<Sending, writeBuffer, wire, chunk, StreamIsOpen, eventualResponseQueue>>
    BY <1>17 DEF ServerSends, managerVars, userVars, streamVars, Sending, StreamIsOpen
  <2>3. inbound' \in Seq(Message) /\ UNCHANGED Sent
    BY <1>4, <2>1, Parts, OfKindAppend DEF StreamTypes, Sent
  <2>4. StreamTypes' /\ UNCHANGED <<Read, Written, Kept>>
    BY <1>4, <2>2, <2>3 DEF StreamTypes, Read, Written, Kept
  <2> QED  BY <1>4, <2>2, <2>3, <2>4 DEF QueueIsAlong
<1> QED
  BY <1>7, <1>8, <1>9, <1>10, <1>12, <1>13, <1>14, <1>15, <1>16, <1>17
     DEF HttpNext, UserContinues, RunLoop

\* What is handled first answers what was asked first.
LEMMA HeadIsAnswered ==
  ASSUME PairedInv, HandleResponse, eventualResponseQueue # <<>>
  PROVE  Head(chunk).of = Head(eventualResponseQueue)
<1>1. /\ runLoopAt = "reading" /\ ~managerLocked
      /\ chunk # <<>> /\ Head(chunk).kind = "response"
      /\ StreamTypes /\ ClosedIsDeaf /\ HttpInv /\ QueueIsAlong
  BY QueueFollows DEF HandleResponse, NextMessage, PairedInv, PairingInv, HttpTypeOK, StreamTypes
<1>2. StreamIsOpen
  BY <1>1 DEF ClosedIsDeaf, HttpInv, CancelledIsEnding, StreamIsOpen
<1>3. PICK S : S = Seq(Known)
  OBVIOUS
<1>4. Associative(S) /\ \A u \in Known : <<u>> \in S
  BY <1>3, ConcatIsAssociative
<1>5. Read \in S /\ Sent \in S /\ Written \in S /\ Kept \in S /\ Sending \in S
  BY <1>1, <1>3, PartsTyped
<1>6. /\ Tail(chunk) \in Seq(Message) /\ Head(chunk) \in Message
      /\ Read = <<Head(chunk).of>> \o OfKind(Tail(chunk), "response")
  BY <1>1, OfKindHead DEF StreamTypes, Read
<1>7. PICK u \in Known, read \in S :
        u = Head(chunk).of /\ read = OfKind(Tail(chunk), "response") /\ Read = Cat(<<u>>, read)
  BY <1>3, <1>6, MessageParts, OfKindType DEF Cat
<1>8. Along(Cat(<<u>>, read), Sent, Written, Kept, Sending)
        = Cat(<<u>>, Along(read, Sent, Written, Kept, Sending))
  BY <1>4, <1>5, <1>7, Handles
<1>9. PICK rest \in Seq(Known) : rest = Along(read, Sent, Written, Kept, Sending)
  BY <1>3, <1>4, <1>5, <1>7, AlongGroups
<1>10. eventualResponseQueue = <<u>> \o rest
  BY <1>1, <1>2, <1>7, <1>8, <1>9 DEF QueueIsAlong, Cat
<1> QED
  BY <1>7, <1>9, <1>10

LEMMA AnswersStep == PairedInv /\ [HttpNext]_httpVars => AnswersMatchRequests'
<1> SUFFICES ASSUME PairedInv, [HttpNext]_httpVars PROVE AnswersMatchRequests'
  OBVIOUS
<1> DEFINE Answered(f) == {r \in Request : f[r] = "answered"}
<1>1. /\ \A r \in Request : future[r] = "answered" => answer[r] = r
      /\ future \in [Request -> {"unasked", "incomplete", "answered", "failed"}]
      /\ answer \in [Request -> Request \cup {NoRequest}]
  BY DEF PairedInv, PairingInv, HttpTypeOK, AnswersMatchRequests
<1>2. ASSUME answer' = answer, \A r \in Request : future'[r] = "answered" => future[r] = "answered"
      PROVE  AnswersMatchRequests'
  BY <1>1, <1>2 DEF AnswersMatchRequests
<1>3. \A futures, r : Cleared(futures)[r] = "answered" /\ r \in Request => futures[r] = "answered"
  BY DEF Cleared
<1>4. CASE HandleResponse
  <2>1. CASE eventualResponseQueue = <<>>
    BY <1>2, <1>4, <2>1 DEF HandleResponse
  <2>2. CASE eventualResponseQueue # <<>>
    <3> DEFINE r == Head(eventualResponseQueue)
               futures == IF future[r] = "incomplete" THEN [future EXCEPT ![r] = "answered"]
                          ELSE future
    <3>1. /\ r \in Request
          /\ answer' = [answer EXCEPT ![r] = Head(chunk).of]
          /\ future' \in {futures, Cleared(futures)}
      BY <1>4, <2>2 DEF HandleResponse, AnsweredRequest, Terminate, PairedInv, HttpInv
    <3>2. Head(chunk).of = r
      BY <1>4, <2>2, HeadIsAnswered
    <3>3. \A q \in Request : future'[q] = "answered" => q = r \/ future[q] = "answered"
      <4>1. \A q \in Request : futures[q] = "answered" => q = r \/ future[q] = "answered"
        BY <1>1
      <4> HIDE DEF futures
      <4> QED  BY <1>3, <3>1, <4>1
    <3> HIDE DEF r
    <3> QED  BY <1>1, <3>1, <3>2, <3>3 DEF AnswersMatchRequests
  <2> QED  BY <2>1, <2>2
<1>5. ASSUME NEW r \in Request, AsyncResponseForRequest(r) PROVE AnswersMatchRequests'
  BY <1>1, <1>2, <1>5 DEF AsyncResponseForRequest
<1>6. CASE UserClearsQueue \/ HandleHangup \/ HandleGarbage \/ FailureIsReported
           \/ ErrorHandlerEndsCall
  <2>1. answer' = answer /\ future' = Cleared(future)
    BY <1>6 DEF UserClearsQueue, HandleHangup, HandleGarbage, FailureIsReported,
                ErrorHandlerEndsCall, Terminate, ClearOnSeriousError
  <2> QED  BY <1>2, <1>3, <2>1
<1>7. CASE Send \/ TerminateWhenDoneCurrentWork \/ UserTerminates \/ UserClosesStream
           \/ SpaceAvailable \/ BytesAvailable \/ HandleServerRequest \/ ChunkIsRead
           \/ NetworkFails \/ StreamTerminates \/ ServerReads \/ ServerSends
           \/ UNCHANGED httpVars
  <2>1. answer' = answer /\ future' = future
    BY <1>7 DEF Send, TerminateWhenDoneCurrentWork, UserTerminates, UserClosesStream,
                SpaceAvailable, BytesAvailable, HandleServerRequest, ChunkIsRead, NetworkFails,
                StreamTerminates, ServerReads, ServerSends, httpVars, managerVars
  <2> QED  BY <1>2, <2>1
<1> QED
  BY <1>4, <1>5, <1>6, <1>7 DEF HttpNext, UserContinues, RunLoop

LEMMA HttpTypesStep == PairedInv /\ [HttpNext]_httpVars => HttpTypeOK'
<1> SUFFICES ASSUME PairedInv, [HttpNext]_httpVars PROVE HttpTypeOK'
  OBVIOUS
<1> DEFINE Places == /\ answer \in [Request -> Request \cup {NoRequest}]
                     /\ lastWork \in Request \cup {NoRequest}
                     /\ userRequest \in Request \cup {NoRequest}
                     /\ managerLocked \in BOOLEAN
                     /\ runLoopAt \in {"idle", "reading", "failing", "reporting"}
                     /\ connection \in {"connecting", "connected", "no", "failed"}
                     /\ serverMessages \in 0 .. MaxServerMessages
<1>1. HttpInv /\ HttpInv' /\ StreamTypes' /\ Places
  BY HttpInvStep, StreamStep DEF PairedInv, PairingInv, HttpTypeOK, StreamPaired
<1>2. HttpInv' /\ StreamTypes' /\ Places' => HttpTypeOK'
  BY DEF HttpInv, StreamTypes, HttpTypeOK
<1>3. ASSUME NEW r \in Request, AsyncResponseForRequest(r) PROVE Places'
  BY <1>1, <1>3 DEF AsyncResponseForRequest, streamVars, networkVars
<1>4. CASE Send \/ UserTerminates \/ UserClosesStream \/ UserClearsQueue
  BY <1>1, <1>2, <1>4 DEF Send, UserTerminates, UserClosesStream, UserClearsQueue, managerVars,
                    streamVars, networkVars
<1>5. CASE TerminateWhenDoneCurrentWork
  <2>1. Last(eventualResponseQueue) \in Request
    BY <1>1, <1>5 DEF TerminateWhenDoneCurrentWork, HttpInv, Last
  <2> QED  BY <1>1, <1>2, <1>5, <2>1 DEF TerminateWhenDoneCurrentWork, userVars, streamVars, networkVars
<1>6. CASE SpaceAvailable \/ BytesAvailable \/ ChunkIsRead \/ NetworkFails \/ StreamTerminates
  BY <1>1, <1>2, <1>6 DEF SpaceAvailable, BytesAvailable, ChunkIsRead, NetworkFails,
                    StreamTerminates, managerVars, userVars, streamVars, networkVars
<1>7. CASE HandleResponse
  <2>1. /\ \/ answer' = answer
           \/ \E r \in Request : answer' = [answer EXCEPT ![r] = Head(chunk).of]
        /\ Head(chunk).of \in Request \cup {NoRequest}
        /\ UNCHANGED <<lastWork, userVars, runLoopAt, connection, serverMessages>>
    <3>1. Head(chunk).of \in Request \cup {NoRequest}
      BY <1>7, OfKindHead, MessageParts
         DEF HandleResponse, NextMessage, PairedInv, PairingInv, HttpTypeOK, Known
    <3>2. eventualResponseQueue # <<>> => Head(eventualResponseQueue) \in Request
      BY <1>1 DEF HttpInv
    <3> QED  BY <1>7, <3>1, <3>2 DEF HandleResponse, AnsweredRequest, networkVars
  <2> QED  BY <1>1, <1>2, <2>1 DEF userVars
<1>8. CASE HandleServerRequest \/ HandleHangup \/ HandleGarbage \/ FailureIsReported
           \/ ErrorHandlerEndsCall
  BY <1>1, <1>2, <1>8 DEF HandleServerRequest, HandleHangup, HandleGarbage, FailureIsReported,
                    ErrorHandlerEndsCall, managerVars, userVars, networkVars
<1>9. CASE ServerReads \/ ServerSends \/ UNCHANGED httpVars
  BY <1>1, <1>2, <1>9, SignallingAssumption DEF ServerReads, ServerSends, httpVars, managerVars,
                    userVars, streamVars, networkVars
<1> QED
  BY <1>1, <1>2, <1>3, <1>4, <1>5, <1>6, <1>7, <1>8, <1>9
     DEF HttpNext, UserContinues, RunLoop

LEMMA PairedStart == HttpInit => PairedInv
<1> SUFFICES ASSUME HttpInit PROVE PairedInv
  OBVIOUS
<1>1. HttpInv
  BY HttpStart
<1>2. chunk = <<>> /\ ClosedIsDeaf
  BY DEF HttpInit, ClosedIsDeaf
<1>3. HttpTypeOK
  <2>1. <<>> \in Seq(Message) /\ <<>> \in Seq(Request) /\ 0 \in 0 .. MaxServerMessages
    BY SignallingAssumption
  <2>2. /\ eventualResponseQueue \in Seq(Request) /\ writeBuffer \in Seq(Message)
        /\ wire \in Seq(Message) /\ inbound \in Seq(Message) /\ chunk \in Seq(Message)
    BY <2>1 DEF HttpInit
  <2>3. /\ future \in [Request -> {"unasked", "incomplete", "answered", "failed"}]
        /\ answer \in [Request -> Request \cup {NoRequest}]
    BY DEF HttpInit
  <2>4. managerLocked \in BOOLEAN /\ (managerLocked <=> userAt \in {"closing", "clearing"})
    BY <1>1 DEF HttpInit, HttpInv
  <2>5. managerLocked = (userAt \in {"closing", "clearing"})
    BY <2>4
  <2> QED  BY <2>1, <2>2, <2>3, <2>5 DEF HttpInit, HttpTypeOK
<1>4. QueueFollowsStream
  BY OfKindEmpty DEF HttpInit, QueueFollowsStream
<1>5. AnswersMatchRequests
  BY DEF HttpInit, AnswersMatchRequests
<1> QED
  BY <1>1, <1>2, <1>3, <1>4, <1>5 DEF PairedInv, PairingInv

LEMMA PairedStep == PairedInv /\ [HttpNext]_httpVars => PairedInv'
<1> SUFFICES ASSUME PairedInv, [HttpNext]_httpVars PROVE PairedInv'
  OBVIOUS
<1>1. QueueFollowsStream'
  <2>1. QueueIsAlong'
    BY StreamStep DEF StreamPaired
  <2>2. (QueueFollowsStream <=> QueueIsAlong)'
    BY QueueFollows, PTL
  <2> QED  BY <2>1, <2>2
<1> QED
  BY <1>1, HttpInvStep, HttpTypesStep, AnswersStep, ClosedIsDeafStep DEF PairedInv, PairingInv

(***************************************************************************)
(* Requests and responses stay paired on the pipelined stream, whatever is *)
(* partly written or read, asked by the server, or fails                   *)
(* (HttpManager.m:28-47, 111-126).                                         *)
(***************************************************************************)
THEOREM PairingHolds == HttpSpec => []PairingInv
<1>1. PairedInv => PairingInv
  BY DEF PairedInv
<1> QED
  BY <1>1, PairedStart, PairedStep, PTL DEF HttpSpec

-----------------------------------------------------------------------------
(* The record of migrations *)

\* What the main thread may have yet to look at
Rest == {<<"100", "101", "102">>, <<"101", "102">>, <<"102">>, <<>>}

Unchecked == CASE toCheck = <<"100", "101", "102">> -> {"100", "101", "102"}
               [] toCheck = <<"101", "102">> -> {"101", "102"}
               [] toCheck = <<"102">> -> {"102"}
               [] OTHER -> {}

(***************************************************************************)
(* A migration waits in one place: among those to look at, as a            *)
(* transaction or as a completion.  A record that is merely assumed is of  *)
(* an app that has no data.                                                *)
(***************************************************************************)
MigrationInv ==
  /\ RecordIsTrusted
  /\ Unchecked \cap (transactions \cup completions) = {}
  /\ lastRanVersion = "none" => ~recipients
  /\ launch = "assuming" =>
       lastRanVersion = "none" /\ transactions = {} /\ completions = {}
  /\ "100" \in completions => ~recipients
  /\ \A m \in {"101", "102"} : chosen[SettingOf[m]] # {} => m \in recorded

LEMMA RestsOfAll ==
  {AllMigrations, Tail(AllMigrations), Tail(Tail(AllMigrations)), <<>>} = Rest
<1>1. /\ Tail(<<"100", "101", "102">>) = <<"101", "102">>
      /\ Tail(<<"101", "102">>) = <<"102">>
  OBVIOUS
<1> QED
  BY <1>1 DEF AllMigrations, Rest

LEMMA Settings ==
  /\ SettingOf["101"] = "blockOnIdentityChange" /\ SettingOf["102"] = "logging"
  /\ SetTo["101"] = TRUE /\ SetTo["102"] = FALSE
  BY DEF SettingOf, SetTo

\* Looking at a migration
LEMMA NextToCheck ==
  ASSUME toCheck \in Rest, toCheck # <<>>, toCheck' = Tail(toCheck)
  PROVE  /\ Head(toCheck) \in Migration /\ toCheck' \in Rest
         /\ Head(toCheck) \in Unchecked
         /\ Unchecked' = Unchecked \ {Head(toCheck)}
<1>1. CASE toCheck = <<"100", "101", "102">>
  <2>1. Head(toCheck) = "100" /\ toCheck' = <<"101", "102">>
    BY <1>1
  <2>2. <<"101", "102">> # <<"100", "101", "102">>
    OBVIOUS
  <2> QED  BY <1>1, <2>1, <2>2 DEF Rest, Unchecked, Migration
<1>2. CASE toCheck = <<"101", "102">>
  <2>1. Head(toCheck) = "101" /\ toCheck' = <<"102">>
    BY <1>2
  <2>2. <<"101", "102">> # <<"100", "101", "102">> /\ <<"102">> # <<"100", "101", "102">> /\ <<"102">> # <<"101", "102">>
    OBVIOUS
  <2> QED  BY <1>2, <2>1, <2>2 DEF Rest, Unchecked, Migration
<1>3. CASE toCheck = <<"102">>
  <2>1. Head(toCheck) = "102" /\ toCheck' = <<>>
    BY <1>3
  <2>2. <<"102">> # <<"100", "101", "102">> /\ <<"102">> # <<"101", "102">>
        /\ <<>> # <<"100", "101", "102">> /\ <<>> # <<"101", "102">> /\ <<>> # <<"102">>
    OBVIOUS
  <2> QED  BY <1>3, <2>1, <2>2 DEF Rest, Unchecked, Migration
<1> QED
  BY <1>1, <1>2, <1>3 DEF Rest

LEMMA MigrationStart == MigrationInit => MigrationInv
<1> SUFFICES ASSUME MigrationInit PROVE MigrationInv
  OBVIOUS
<1>1. toCheck \in Rest /\ Unchecked = {}
  BY DEF MigrationInit, Rest, Unchecked
<1>2. crashes \in 0 .. MaxCrashes
  BY CrashesAssumption DEF MigrationInit
<1>3. MigrationTypeOK
  BY <1>1, <1>2, RestsOfAll DEF MigrationInit, MigrationTypeOK, Migration, Setting, Upgrade
<1>4. RecordedWasMade /\ ChoiceIsKept
  BY DEF MigrationInit, RecordedWasMade, ChoiceIsKept
<1> QED
  BY <1>1, <1>3, <1>4, Settings DEF MigrationInit, MigrationInv, RecordIsTrusted, Setting

LEMMA MigrationStep == MigrationInv /\ [MigrationNext]_migrationVars => MigrationInv'
<1> SUFFICES ASSUME MigrationInv, [MigrationNext]_migrationVars PROVE MigrationInv'
  OBVIOUS
<1> USE DEF MigrationInv, RecordIsTrusted, RecordedWasMade, ChoiceIsKept, MigrationTypeOK,
            storedVars, launchVars, Migration, Setting
<1>0. toCheck \in Rest /\ (toCheck' \in Rest =>
        toCheck' \in {AllMigrations, Tail(AllMigrations), Tail(Tail(AllMigrations)), <<>>})
  BY RestsOfAll
<1> HIDE DEF Migration
<1>1. CASE PerformUpdateCheck
  <2>1. toCheck' \in Rest
    BY <1>1 DEF PerformUpdateCheck, AllMigrations, Rest
  <2> QED  BY <1>0, <1>1, <2>1 DEF PerformUpdateCheck, Upgrade
<1>2. CASE AssumeRun
  BY <1>0, <1>2, NextToCheck DEF AssumeRun
<1>3. CASE RunOutstanding
  <2>1. PICK m \in Migration : m = Head(toCheck) /\ m \in Unchecked
    BY <1>0, <1>3, NextToCheck DEF RunOutstanding
  <2>2. toCheck' \in Rest /\ Unchecked' = Unchecked \ {m}
    BY <1>0, <1>3, <2>1, NextToCheck DEF RunOutstanding
  <2>3. /\ transactions' \in {transactions, transactions \cup {m}}
        /\ m \in recorded => transactions' = transactions
        /\ launch = "running"
        /\ UNCHANGED <<lastRanVersion, recorded, recipients, setting, chosen, upgraded,
                       background, launch, completions, crashes>>
    BY <1>3, <2>1 DEF RunOutstanding
  <2>4. MigrationTypeOK'
    BY <1>0, <2>1, <2>2, <2>3
  <2> QED  BY <2>1, <2>2, <2>3, <2>4
<1>4. CASE SetAndGetCurrentVersion
  BY <1>0, <1>4 DEF SetAndGetCurrentVersion, Unchecked
<1>5. ASSUME NEW m \in Migration, RunUpWithTransaction(m) PROVE MigrationInv'
  <2>1. CASE m = "100"
    BY <1>0, <1>5, <2>1 DEF RunUpWithTransaction, Unchecked
  <2>2. CASE m \in {"101", "102"}
    <3>1. SettingOf[m] \in Setting /\ chosen[SettingOf[m]] = {} /\ SetTo[m] \in BOOLEAN
          /\ m # "100"
      BY <1>5, <2>2, Settings DEF RunUpWithTransaction
    <3>2. RecordIsTrusted'
      BY <1>0, <1>5, <3>1 DEF RunUpWithTransaction
    <3> QED  BY <1>0, <1>5, <3>1, <3>2 DEF RunUpWithTransaction, Unchecked
  <2> QED  BY <2>1, <2>2 DEF Migration
<1>6. ASSUME NEW m \in Migration, SaveMigration(m) PROVE MigrationInv'
  BY <1>0, <1>6 DEF SaveMigration, Unchecked
<1>7. ASSUME NEW u \in Upgrade, FinishUpgrade(u) PROVE MigrationInv'
  BY <1>0, <1>7 DEF FinishUpgrade, Unchecked
<1>8. ASSUME NEW m \in {"101", "102"}, NEW value \in BOOLEAN, UserSets(m, value)
      PROVE  MigrationInv'
  BY <1>0, <1>8, Settings DEF UserSets, Unchecked
<1>9. CASE Crash
  BY <1>0, <1>9, CrashesAssumption DEF Crash, Rest
<1>10. CASE UNCHANGED migrationVars
  BY <1>0, <1>10 DEF migrationVars, Unchecked
<1> QED
  BY <1>1, <1>2, <1>3, <1>4, <1>5, <1>6, <1>7, <1>8, <1>9, <1>10 DEF MigrationNext, Proceeds

(***************************************************************************)
(* Wherever the app dies, nothing recorded is still pending, what is       *)
(* recorded was made, and it is not made again over what the user has      *)
(* chosen (OWSDatabaseMigrationRunner.m:34-52,                             *)
(* OWSDatabaseMigration.m:54-64).                                          *)
(***************************************************************************)
THEOREM MigrationsAreTrusted == MigrationSpec => []RecordIsTrusted
<1>1. MigrationInv => RecordIsTrusted
  BY DEF MigrationInv
<1> QED
  BY <1>1, MigrationStart, MigrationStep, PTL DEF MigrationSpec

-----------------------------------------------------------------------------
(* The upload of the push tokens *)

(***************************************************************************)
(* A job that has reached a place has brought the servers so far.          *)
(***************************************************************************)
JobPlace == {"idle", "stale", "always", "textSecure", "redPhone", "recording",
          "succeeded", "failed"}

TokensInv ==
  /\ device \in Nat /\ voipToken \in Nat /\ job \in [Job -> JobPlace]
  \* The second preference is written last: what it holds, both servers were given.
  /\ voipToken <= device
  /\ voipToken = device => textSecure = device /\ redPhone = device
  /\ \A j \in Job :
       /\ job[j] \in {"redPhone", "recording"} => textSecure = device
       /\ job[j] = "recording" => redPhone = device
  /\ SuccessIsTrue

LEMMA TokensStart == TokensInit => TokensInv
  BY DEF TokensInit, TokensInv, SuccessIsTrue, JobPlace

LEMMA TokensStep == TokensInv /\ [TokensNext]_tokenVars => TokensInv'
<1> SUFFICES ASSUME TokensInv, [TokensNext]_tokenVars PROVE TokensInv'
  OBVIOUS
<1> USE DEF TokensInv, SuccessIsTrue, JobPlace, JobGoes, recordVars
<1>1. ASSUME NEW j \in Job, RunJob(j, "stale") \/ RunJob(j, "always") PROVE TokensInv'
  BY <1>1 DEF RunJob
<1>2. ASSUME NEW j \in Job, TokensReceived(j) PROVE TokensInv'
  BY <1>2 DEF TokensReceived
<1>3. ASSUME NEW j \in Job, TokensRefused(j) PROVE TokensInv'
  BY <1>3 DEF TokensRefused
<1>4. ASSUME NEW j \in Job, UpdateTextSecure(j) PROVE TokensInv'
  BY <1>4 DEF UpdateTextSecure
<1>5. ASSUME NEW j \in Job, UpdateRedPhone(j) PROVE TokensInv'
  BY <1>5 DEF UpdateRedPhone
<1>6. ASSUME NEW j \in Job, UpdateFails(j) PROVE TokensInv'
  BY <1>6 DEF UpdateFails
<1>7. ASSUME NEW j \in Job, RecordNewPushTokens(j) PROVE TokensInv'
  BY <1>7 DEF RecordNewPushTokens
<1>8. CASE Restart
  BY <1>8 DEF Restart
<1>9. CASE UNCHANGED tokenVars
  BY <1>9 DEF tokenVars
<1> QED
  BY <1>1, <1>2, <1>3, <1>4, <1>5, <1>6, <1>7, <1>8, <1>9 DEF TokensNext

(***************************************************************************)
(* A token sync that succeeds tells the truth, whatever fails, overlaps or *)
(* crashes (SyncPushTokensJob.swift:37-55, AccountManager.swift:80-95).    *)
(***************************************************************************)
THEOREM TokenSyncTellsTheTruth == TokensSpec => []SuccessIsTrue
<1>1. TokensInv => SuccessIsTrue
  BY DEF TokensInv
<1> QED
  BY <1>1, TokensStart, TokensStep, PTL DEF TokensSpec

-----------------------------------------------------------------------------
(* The order of the envelopes *)

\* The envelopes that can be handled and were not
Missing == 1 .. arrived \ (handled \cup Unreadable)

(***************************************************************************)
(* What a run has left of its page begins with the oldest envelope that is *)
(* missing: whatever is missing and older than one of them is among them.  *)
(***************************************************************************)
PagesHaveNoGaps ==
  \A r \in Run, e \in Missing, f \in 1 .. arrived :
    f \in run[r].envelopes /\ e < f => e \in run[r].envelopes

FetcherInv ==
  /\ arrived \in Nat /\ undelivered \subseteq 1 .. arrived
  /\ handled \subseteq 1 .. arrived
  /\ run \in [Run -> [at : {"resting", "fetching", "page", "handling", "handled"},
                      envelopes : SUBSET (1 .. arrived), more : BOOLEAN]]
  \* An acknowledgement is of what was handled.
  /\ acks \subseteq handled
  /\ \A r \in Run : run[r].at = "handled" => First(r) \subseteq handled
  /\ PagesHaveNoGaps
  /\ HandledInOrder

LEMMA FetcherStart == FetcherInit => FetcherInv
  BY DEF FetcherInit, FetcherInv, PagesHaveNoGaps, Missing, HandledInOrder, Resting, Place, First

LEMMA UndeliveredIsFinite == FetcherInv => IsFiniteSet(undelivered)
<1>1. FetcherInv => IsFiniteSet(1 .. arrived)
  BY FS_Interval DEF FetcherInv
<1> QED
  BY <1>1, FS_Subset DEF FetcherInv

LEMMA PageIsOldest ==
  ASSUME FetcherInv
  PROVE  /\ NextPage \in [at : {"page"}, envelopes : SUBSET (1 .. arrived), more : BOOLEAN]
         /\ \A e \in undelivered \ Unreadable, f \in NextPage.envelopes :
              e < f => e \in NextPage.envelopes
<1> DEFINE page == {e \in undelivered : Cardinality({u \in undelivered : u < e}) < PageSize}
<1>1. /\ NextPage = Page(page \ Unreadable, Cardinality(undelivered) > PageSize)
      /\ NextPage.envelopes = page \ Unreadable
  BY DEF NextPage, Page, Place
<1>2. NextPage \in [at : {"page"}, envelopes : SUBSET (1 .. arrived), more : BOOLEAN]
  <2>1. page \ Unreadable \in SUBSET (1 .. arrived)
    BY DEF FetcherInv
  <2>2. (Cardinality(undelivered) > PageSize) \in BOOLEAN
    <3> DEFINE n == Cardinality(undelivered)
    <3>1. IsFiniteSet(undelivered)
      BY UndeliveredIsFinite
    <3>2. n \in Nat
      BY <3>1, FS_CardinalityType
    <3> HIDE DEF n
    <3>3. (n > PageSize) \in BOOLEAN
      BY <3>2
    <3> QED  BY <3>3 DEF n
  <2> HIDE DEF page
  <2> QED  BY <1>1, <2>1, <2>2 DEF Page, Place
<1>3. ASSUME NEW e \in undelivered, NEW f \in page, e < f PROVE e \in page
  <2> DEFINE before(x) == {u \in undelivered : u < x}
  <2>2. IsFiniteSet(undelivered)
    BY UndeliveredIsFinite
  <2>3. before(f) \subseteq undelivered /\ before(e) \subseteq before(f)
    <3>1. f \in undelivered /\ \A u \in undelivered : u \in Int
      BY DEF FetcherInv
    <3>2. \A u \in undelivered : u < e => u < f
      <4> HIDE DEF page
      <4> QED  BY <1>3, <3>1
    <3> QED  BY <3>2
  <2>4. IsFiniteSet(before(f))
    BY <2>2, <2>3, FS_Subset
  <2>5. /\ Cardinality(before(e)) <= Cardinality(before(f))
        /\ Cardinality(before(e)) \in Nat /\ Cardinality(before(f)) \in Nat
    <3> HIDE DEF before
    <3>1. IsFiniteSet(before(e))
      BY <2>3, <2>4, FS_Subset
    <3> QED  BY <2>3, <2>4, <3>1, FS_Subset, FS_CardinalityType
  <2>6. Cardinality(before(f)) < PageSize
    OBVIOUS
  <2>7. Cardinality(before(e)) < PageSize
    <3> HIDE DEF before
    <3> QED  BY <2>5, <2>6, PageAssumption
  <2> QED  BY <2>7
<1> QED
  BY <1>1, <1>2, <1>3

LEMMA FetcherStep == FetcherInv /\ [FetcherNext]_fetcherVars => FetcherInv'
<1> SUFFICES ASSUME FetcherInv, [FetcherNext]_fetcherVars PROVE FetcherInv'
  OBVIOUS
<1> USE DEF FetcherInv, PagesHaveNoGaps, Missing, HandledInOrder, First, RunGoes
<1>1. CASE Arrive
  BY <1>1 DEF Arrive
<1>2. ASSUME NEW r \in Run, RunAsync(r) PROVE FetcherInv'
  BY <1>2 DEF RunAsync, Fetching, Resting, Place
<1>3. ASSUME NEW r \in Run, FetchSucceeds(r) PROVE FetcherInv'
  <2>1. run' \in [Run -> [at : {"resting", "fetching", "page", "handling", "handled"},
                         envelopes : SUBSET (1 .. arrived), more : BOOLEAN]]
    BY <1>3, PageIsOldest DEF FetchSucceeds
  <2>2. PagesHaveNoGaps'
    BY <1>3, PageIsOldest DEF FetchSucceeds
  <2>3. \A q \in Run : run'[q].at = "handled" => run'[q] = run[q]
    BY <1>3, PageIsOldest DEF FetchSucceeds
  <2>4. \A q \in Run : run'[q].at = "handled" => First(q)' \subseteq handled'
    BY <1>3, <2>3 DEF FetchSucceeds
  <2>5. HandledInOrder' /\ UNCHANGED <<arrived, undelivered, handled, acks>>
    BY <1>3 DEF FetchSucceeds
  <2> HIDE DEF HandledInOrder, PagesHaveNoGaps, First
  <2> QED  BY <2>1, <2>2, <2>4, <2>5
<1>4. ASSUME NEW r \in Run, FetchFails(r) PROVE FetcherInv'
  BY <1>4 DEF FetchFails, Resting, Place
<1>5. ASSUME NEW r \in Run, HandleReceivedEnvelope(r) PROVE FetcherInv'
  <2>1. /\ handled' = handled \cup First(r)
        /\ run' = [run EXCEPT ![r] = Place("handled", run[r].envelopes, run[r].more)]
        /\ UNCHANGED <<undelivered, arrived, acks>>
    BY <1>5 DEF HandleReceivedEnvelope, Handled
  <2>2. \A q \in Run : run'[q].envelopes = run[q].envelopes /\ First(q)' = First(q)
    BY <2>1 DEF Place
  <2>3. \A e \in First(r) : e \in 1 .. arrived /\ e \in run[r].envelopes
    OBVIOUS
  <2>4. \A e \in Missing, x \in First(r) : x < e \/ e \in First(r)
    BY <2>3
  <2>5. HandledInOrder'
    BY <2>1, <2>4
  <2>6. PagesHaveNoGaps'
    BY <2>1, <2>2
  <2>7. \A q \in Run : run'[q].at = "handled" => First(q)' \subseteq handled'
    <3>1. \A q \in Run \ {r} : run'[q] = run[q]
      BY <2>1
    <3> HIDE DEF First
    <3> QED  BY <2>1, <2>2, <3>1
  <2>8. run' \in [Run -> [at : {"resting", "fetching", "page", "handling", "handled"},
                         envelopes : SUBSET (1 .. arrived)', more : BOOLEAN]]
    BY <2>1 DEF Place
  <2>9. handled' \subseteq 1 .. arrived' /\ acks' \subseteq handled'
    BY <2>1, <2>3
  <2> QED  BY <2>1, <2>5, <2>6, <2>7, <2>8, <2>9 DEF FetcherInv
<1>6. ASSUME NEW r \in Run, AcknowledgeDelivery(r) PROVE FetcherInv'
  BY <1>6 DEF AcknowledgeDelivery, Handling, Place
<1>7. ASSUME NEW r \in Run, PageIsDone(r) PROVE FetcherInv'
  BY <1>7 DEF PageIsDone, Fetching, Resting, Place
<1>8. ASSUME NEW e \in 1 .. MaxEnvelope, AckArrives(e) \/ AckIsLost(e) PROVE FetcherInv'
  BY <1>8 DEF AckArrives, AckIsLost
<1>9. CASE Die
  BY <1>9 DEF Die, Resting, Place
<1>10. CASE UNCHANGED fetcherVars
  BY <1>10 DEF fetcherVars
<1> QED
  BY <1>1, <1>2, <1>3, <1>4, <1>5, <1>6, <1>7, <1>8, <1>9, <1>10 DEF FetcherNext

(***************************************************************************)
(* No envelope is handled, nor deleted at the server, before an earlier one *)
(* that can be read, for any size of a page and any number of runs that    *)
(* overlap or die (MessageFetcherJob.swift:40-51).                         *)
(***************************************************************************)
THEOREM EnvelopesAreHandledInOrder == FetcherSpec => []HandledInOrder
<1>1. FetcherInv => HandledInOrder
  BY DEF FetcherInv
<1> QED
  BY <1>1, FetcherStart, FetcherStep, PTL DEF FetcherSpec
=============================================================================
