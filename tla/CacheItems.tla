----------------------------- MODULE CacheItems -----------------------------
(* CacheItems.Filter of client/doomsday/client.go. An item is the time its  *)
(* certificate has left; only that is told apart.                          *)
EXTENDS Integers, Sequences, FiniteSetsExt

CONSTANT NotGiven  \* a filter's duration that is nil

Sorted(items) == \A i, j \in DOMAIN items : i < j => items[i] <= items[j]

\* The items that are left after a cutoff.
After(items, cutoff) == {i \in DOMAIN items : cutoff < items[i]}

\* From the first item after the cutoff; all of them if there is none.
Beyond(items, cutoff) ==
  IF cutoff = NotGiven \/ After(items, cutoff) = {} THEN items
  ELSE SubSeq(items, Min(After(items, cutoff)), Len(items))

\* Faulty variant of Within: the first item after the cutoff is kept.
WithinOneMore(items, cutoff) ==
  IF cutoff = NotGiven \/ After(items, cutoff) = {} THEN items
  ELSE SubSeq(items, 1, Min(After(items, cutoff)))

\* Up to the first item after the cutoff.
Within(items, cutoff) ==
  IF cutoff = NotGiven \/ After(items, cutoff) = {} THEN items
  ELSE SubSeq(items, 1, Min(After(items, cutoff)) - 1)

Filter(items, filter) == Within(Beyond(items, filter.beyond), filter.within)
=============================================================================
