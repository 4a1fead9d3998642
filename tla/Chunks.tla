------------------------------- MODULE Chunks -------------------------------
(***************************************************************************)
(* What toChunks and cartesianProductQueue of DatabaseRequestHandler.h      *)
(* return; TextFormat compares these definitions with the loops.            *)
(***************************************************************************)
EXTENDS Integers, Sequences

LeastOf(a, b) == IF a < b THEN a ELSE b

\* Sequence s cut into pieces of n elements, the last one shorter.
ToChunks(s, n) ==
  [i \in 1..((Len(s) + n - 1) \div n) |-> SubSeq(s, (i - 1) * n + 1, LeastOf(i * n, Len(s)))]

\* The pairs of elements of ks and ls, those with the first of ks first.
Pairs(ks, ls) ==
  [i \in 1..(Len(ks) * Len(ls)) |-> <<ks[((i - 1) \div Len(ls)) + 1], ls[((i - 1) % Len(ls)) + 1]>>]
=============================================================================
