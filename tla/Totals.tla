------------------------------- MODULE Totals -------------------------------
(***************************************************************************)
(* Two things done to numbers in many places: adding up a sequence of them *)
(* and ordering positions by them.                                         *)
(***************************************************************************)
EXTENDS Integers, Sequences, FiniteSets

\* The running sums of a sequence, from 0, and the last of them.
Sums(ns) ==
  LET sum[k \in 0..Len(ns)] == IF k = 0 THEN 0 ELSE sum[k - 1] + ns[k]
  IN sum
Total(ns) == Sums(ns)[Len(ns)]

\* The positions in K, from that of the lowest key up; those with the same
\* key stay in their order, as sort.Stable leaves them.
Ordered(K, key) ==
  LET before(j, k) == key[j] < key[k] \/ (key[j] = key[k] /\ j < k)
  IN [i \in 1..Cardinality(K) |->
        CHOOSE k \in K : Cardinality({j \in K : before(j, k)}) = i - 1]

=============================================================================
