---------------------------- MODULE PriorityQueue ----------------------------
(***************************************************************************)
(* The binary heap of Signal/src/util/collections/PriorityQueue.m as       *)
(* operators on the array that stores it.  The array starts at 1 here, so  *)
(* that the children of i are 2i and 2i + 1.  A loop that moves items      *)
(* along a path of the heap is given by where one turn of it leads to; it  *)
(* ends where that is where it already is.                                 *)
(***************************************************************************)
EXTENDS Integers, Sequences

CONSTANT Compare(_, _)    \* negative when the first comes before the second

\* The places of a path in an array of n items, from start on.
Path(turn, start, n) ==
  LET at[k \in 0 .. n] == IF k = 0 THEN start ELSE turn[at[k - 1]]
  IN at

\* One turn of an item that moves up from the end of the array.
MovesUp(items, item) ==
  [i \in 1 .. Len(items) + 1 |->
     IF i = 1 \/ Compare(item, items[i \div 2]) >= 0 THEN i ELSE i \div 2]

\* What the item passes on its way moves down.
Enqueue(items, item) ==
  LET end == Len(items) + 1
      at == Path(MovesUp(items, item), end, end)
  IN [j \in 1 .. end |-> IF j = at[end] THEN item
                         ELSE IF \E k \in 0 .. end : j = at[k] THEN items[j \div 2]
                         ELSE items[j]]

SmallerChild(items, i) == IF Compare(items[2 * i], items[2 * i + 1]) <= 0 THEN 2 * i ELSE 2 * i + 1

\* One turn of the gap that moves down from the top: the smaller child moves
\* up until the last item, which is to be removed from its place, fits.
GapMoves(items) ==
  [i \in 1 .. Len(items) |->
     IF \/ 2 * i >= Len(items)
        \/ Compare(items[Len(items)], items[SmallerChild(items, i)]) <= 0
     THEN i ELSE SmallerChild(items, i)]

Peek(items) == items[1]

Dequeue(items) ==
  LET end == Len(items)
      at == Path(GapMoves(items), 1, end)
  IN [j \in 1 .. end - 1 |-> IF j = at[end] THEN items[end]
                             ELSE IF \E k \in 0 .. end : j = at[k]
                             THEN items[SmallerChild(items, j)]
                             ELSE items[j]]
=============================================================================
