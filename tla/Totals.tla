------------------------------- MODULE Totals -------------------------------
(***************************************************************************)
(* The sum of a function's natural-number values, written without          *)
(* recursion: every x contributes f[x] cells, and the sum is the number of *)
(* cells.  The byte budgets of mxtr-server are sums of this kind: qbytes   *)
(* is the total length of a stream's queued chunks, and the session and    *)
(* global counters are the totals of qbytes over streams.                  *)
(***************************************************************************)
EXTENDS Integers, FiniteSets, Sequences

\* One cell <<x, i>> for each unit of f[x].
Cells(f) == UNION {{x} \X (1 .. f[x]) : x \in DOMAIN f}

\* The sum of f[x] over the domain of f; a sequence of lengths is a function.
Total(f) == Cardinality(Cells(f))

\* f on the points of S only.
TotalOn(S, f) == Total([x \in S |-> f[x]])
=============================================================================
