----------------------------- MODULE ValueStream -----------------------------
(***************************************************************************)
(* What ObservableValue.h promises: "an asynchronous stream of values".    *)
(* Who watches is told the value of the moment and, from then on, every    *)
(* change, all at once and in order, until it stops watching or the value  *)
(* becomes final.                                                          *)
(***************************************************************************)
EXTENDS Sequences

CONSTANTS Value, Watcher

VARIABLES value, final, watching, told

streamVars == <<value, final, watching, told>>

StreamInit ==
  /\ value \in Value /\ final = FALSE
  /\ watching = {}
  /\ told = [w \in Watcher |-> <<>>]

Watch(w) ==
  /\ told[w] = <<>>
  /\ told' = [told EXCEPT ![w] = <<value>>]
  /\ watching' = IF final THEN watching ELSE watching \cup {w}
  /\ UNCHANGED <<value, final>>

Change(v) ==
  /\ ~final
  /\ value' = v
  /\ told' = [w \in Watcher |-> IF w \in watching THEN Append(told[w], v) ELSE told[w]]
  /\ UNCHANGED <<final, watching>>

StopWatching(w) ==
  /\ watching' = watching \ {w}
  /\ UNCHANGED <<value, final, told>>

Finish ==
  /\ final' = TRUE /\ watching' = {}
  /\ UNCHANGED <<value, told>>

StreamNext ==
  \/ \E w \in Watcher : Watch(w) \/ StopWatching(w)
  \/ \E v \in Value : Change(v)
  \/ Finish

Spec == StreamInit /\ [][StreamNext]_streamVars
=============================================================================
