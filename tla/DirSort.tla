------------------------------ MODULE DirSort ------------------------------
(***************************************************************************)
(* sort_page_dir and sort_malloc_dir (process.c): the bubble sort that     *)
(* add_to_page_dir and add_to_malloc_dir run after every append, keyed by  *)
(* va_page and va_start (the field f).  BubbleSort follows the two loops of the code;   *)
(* StableSorted is the reference: the stable ordering by key.             *)
(***************************************************************************)
EXTENDS Naturals, Sequences, FiniteSets

\* Swap entries j and j+1 (the temp shuffle of the inner loop body).
SwapNext(a, j) == [a EXCEPT ![j] = a[j + 1], ![j + 1] = a[j]]

\* mutant: the inner loop stops one comparison early
RECURSIVE BubblePassShort(_, _, _, _)
BubblePassShort(a, j, hi, f) ==
  IF j >= hi - 1 THEN a
  ELSE BubblePassShort(IF a[j][f] > a[j + 1][f] THEN SwapNext(a, j) ELSE a,
                       j + 1, hi, f)

\* Inner loop: j runs over 1 .. hi-1 (0 .. n-i-2 in the code), swapping
\* when the left key is strictly greater.
RECURSIVE BubblePass(_, _, _, _)
BubblePass(a, j, hi, f) ==
  IF j >= hi THEN a
  ELSE BubblePass(IF a[j][f] > a[j + 1][f] THEN SwapNext(a, j) ELSE a,
                  j + 1, hi, f)

\* Outer loop: i runs over 0 .. n-2, pass i stops before the last i entries.
RECURSIVE BubbleFrom(_, _, _)
BubbleFrom(a, i, f) ==
  IF i >= Len(a) - 1 THEN a
  ELSE BubbleFrom(BubblePass(a, 1, Len(a) - i, f), i + 1, f)

BubbleSort(a, f) == BubbleFrom(a, 0, f)

\* Reference: entry i goes to the position given by the number of entries
\* with a smaller key, or an equal key earlier in a.
StableSorted(a, f) ==
  LET rank(i) == 1 + Cardinality({j \in 1 .. Len(a) :
                     a[j][f] < a[i][f] \/ (a[j][f] = a[i][f] /\ j < i)})
  IN  [r \in 1 .. Len(a) |-> a[CHOOSE i \in 1 .. Len(a) : rank(i) = r]]

=============================================================================
