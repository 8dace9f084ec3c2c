-------------------------------- MODULE Lttb --------------------------------
(***************************************************************************)
(* lttb.Downsample: a series is cut into buckets between its first and its *)
(* last point, and of each bucket the point is kept that spans the largest *)
(* triangle with the point kept before it and the average of the next      *)
(* bucket.  A point is <<x, y>>; points are numbered from 0 as in the code *)
(* and s[k + 1] is point k.                                                *)
(***************************************************************************)
EXTENDS Integers, Sequences, FiniteSets, FiniteSetsExt, Totals

\* Mutant: the buckets start one point early, with the point that is always
\* kept.
EdgeEarly(n, t, low, i) ==
  IF i = t - 1 THEN n
  ELSE (i * (n - 2)) \div (t - 2) - (IF i \in low THEN 1 ELSE 0)

\* The first point of bucket i of a series of n points sampled to t; those
\* of the last bucket end with the series.  The product i * size may be
\* rounded below a whole number, for the i of low.
Edge(n, t, low, i) ==
  IF i = 0 THEN 1
  ELSE IF i = t - 1 THEN n
  ELSE (i * (n - 2)) \div (t - 2) + 1 - (IF i \in low THEN 1 ELSE 0)

\* The products that rounding can change: of a size that is not whole.
Roundings(n, t) ==
  {i \in 2..(t - 2) : (n - 2) % (t - 2) # 0 /\ (i * (n - 2)) % (t - 2) = 0}

Bucket(s, t, low, i) ==
  Edge(Len(s), t, low, i)..(Edge(Len(s), t, low, i + 1) - 1)

\* The first point p of the current bucket with the largest area; all areas
\* are scaled by the size of the next bucket to stay whole.
Sample(s, a, current, next) ==
  LET l == Cardinality(next)
      c(axis) == Total([k \in 1..l |-> s[Min(next) + k][axis]])
      x == s[a + 1][1]
      y == s[a + 1][2]
      area(p) == (x * l - c(1)) * (s[p + 1][2] - y)
                   - (x - s[p + 1][1]) * (c(2) - y * l)
      square(p) == area(p) * area(p)
  IN Min({p \in current : \A q \in current : square(q) <= square(p)})

\* One round of the loop of Downsample, with the points kept so far.
SampleNext(s, t, low, kept) ==
  Sample(s, kept[Len(kept)], Bucket(s, t, low, Len(kept) - 1),
                             Bucket(s, t, low, Len(kept)))

\* A series that need not be sampled.
Short(n, t) == t >= n \/ t = 0

\* The threshold must be 0 or at least 3 for a series that is longer.
TooLow(n, t) == ~Short(n, t) /\ t < 3

=============================================================================
