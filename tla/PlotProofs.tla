----------------------------- MODULE PlotProofs -----------------------------
(***************************************************************************)
(* Proofs about AttackPlot, for any number of workers and hits and for any *)
(* order of arrival: the results of an attack always restore to a gapless, *)
(* monotonic series, and the buffer holds exactly what waits for an        *)
(* earlier result.                                                         *)
(***************************************************************************)
EXTENDS AttackPlot, HitsProofs

\* The results of the file that are plotted and those that wait.
Early == {r \in delivered : r.seq < next}
Late == {r \in delivered : r.seq > next}

(* The series shows the results below next, none of which is missing, the  *)
(* buffer holds those above it, and began is the timestamp of result 0.    *)
SeriesInv ==
  /\ next \in Nat
  /\ failed = FALSE
  /\ \A n \in 0 .. (next - 1) : \E r \in delivered : r.seq = n
  /\ \A r \in delivered : r.seq # next
  /\ buf = {Point(r) : r \in Late}
  /\ series = {Push(Point(r), began) : r \in Early}
  /\ next # 0 => \E r \in delivered : r.seq = 0 /\ r.ts = began

(* The inductive invariant of an attack and its plot.                      *)
PlotInv == HitsInv /\ SeriesInv

-----------------------------------------------------------------------------
(* Division by a millisecond keeps the order.                              *)
LEMMA DivMonotonic ==
  ASSUME NEW a \in Nat, NEW b \in Nat, NEW m \in Nat \ {0}, a <= b
  PROVE  a \div m <= b \div m
<1> DEFINE x == a \div m
           y == b \div m
<1>1. x \in Nat /\ y \in Nat /\ m * x <= a /\ b < m * y + m
  OBVIOUS
<1> HIDE DEF x, y
<1>2. ASSUME y + 1 <= x PROVE FALSE
  <2>1. m * (y + 1) <= m * x
    BY <1>1, <1>2
  <2>2. m * (y + 1) = m * y + m
    BY <1>1
  <2>3. m * x \in Nat /\ m * y \in Nat
    BY <1>1
  <2>4. QED
    BY <1>1, <2>1, <2>2, <2>3
<1>3. x <= y
  BY <1>1, <1>2
<1>4. QED
  BY <1>3 DEF x, y

(* A number below the modulus is its own remainder.                        *)
LEMMA SmallRemainder ==
  ASSUME NEW w \in Nat \ {0}, NEW x \in 0 .. (w - 1)
  PROVE  x % w = x
OBVIOUS

(* Later results are pushed with later times: a time since the first       *)
(* result neither is negative nor wraps around.                            *)
LEMMA PushMonotonic ==
  ASSUME NEW a \in 0 .. MaxTime, NEW b \in 0 .. MaxTime, NEW first \in 0 .. MaxTime,
         first <= a, a <= b
  PROVE  ((a - first) % Wrap) \div Milli <= ((b - first) % Wrap) \div Milli
<1>1. MaxTime \in Nat /\ Wrap \in Nat \ {0} /\ Milli \in Nat \ {0} /\ MaxTime < Wrap
  BY HitsAssumption, SeriesAssumption, PlotAssumption
<1>2. a - first \in 0 .. (Wrap - 1) /\ b - first \in 0 .. (Wrap - 1)
  BY <1>1
<1>3. (a - first) % Wrap = a - first /\ (b - first) % Wrap = b - first
  BY <1>1, <1>2, SmallRemainder
<1>4. a - first \in Nat /\ b - first \in Nat /\ a - first <= b - first
  BY <1>1
<1>5. QED
  BY <1>1, <1>3, <1>4, DivMonotonic

(* A point keeps the number of its result, and its label when it is pushed.*)
LEMMA PointFields ==
  ASSUME NEW r \in Results, NEW first
  PROVE  /\ Point(r).seq = r.seq
         /\ Point(r).t = r.ts
         /\ Push(Point(r), first).seq = r.seq
         /\ Push(Point(r), first).label = ErrorLabeler(r)
         /\ Push(Point(r), first).t = ((r.ts - first) % Wrap) \div Milli
BY DEF Point, Push

(* An interval is as large as it is long.                                  *)
LEMMA IntervalSize ==
  ASSUME NEW k \in Nat, NEW c \in Nat
  PROVE  IsFiniteSet(k .. (k + c - 1)) /\ Cardinality(k .. (k + c - 1)) = c
<1>1. k + c - 1 \in Int
  OBVIOUS
<1>2. QED
  BY <1>1, FS_Interval

(* A set of points with the numbers of an interval, each once, is counted  *)
(* by the length of the interval.                                          *)
LEMMA CountBySeq ==
  ASSUME NEW S, NEW k \in Nat, NEW c \in Nat,
         {p.seq : p \in S} = k .. (k + c - 1),
         \A p, q \in S : p.seq = q.seq => p = q
  PROVE  Cardinality(S) = c
<1> DEFINE f == [p \in S |-> p.seq]
           T == k .. (k + c - 1)
<1>1. f \in Injection(S, T) /\ f \in Surjection(S, T)
  BY DEF Injection, IsInjective, Surjection
<1>2. IsFiniteSet(T) /\ Cardinality(T) = c
  BY IntervalSize
<1> HIDE DEF f, T
<1>3. QED
  BY <1>1, <1>2, FS_Injection

(* Run takes an interval of numbers, up to the first that is missing.      *)
LEMMA RunIsInterval ==
  ASSUME next \in Nat, NEW b, \A q \in b : q.seq \in 0 .. MaxHits
  PROVE  \E c \in Nat :
           /\ {q.seq : q \in Run(b)} = next .. (next + c - 1)
           /\ \A q \in b : q.seq # next + c
<1> DEFINE K == {q.seq : q \in Run(b)}
           c == Cardinality(K)
<1>1. \A k \in Nat : k \in K <=> k >= next /\ \A n \in next .. k : \E o \in b : o.seq = n
  BY DEF Run
<1>2. K \subseteq 0 .. MaxHits /\ MaxHits \in Nat
  BY HitsAssumption DEF Run
<1> HIDE DEF K
<1>3. IsFiniteSet(K) /\ c \in Nat
  <2>1. IsFiniteSet(0 .. MaxHits)
    BY <1>2, FS_Interval
  <2>2. IsFiniteSet(K)
    BY <1>2, <2>1, FS_Subset
  <2>3. QED
    BY <2>2, FS_CardinalityType
<1>4. K \subseteq next .. (next + c - 1)
  <2> SUFFICES ASSUME NEW k \in K PROVE k >= next /\ k <= next + c - 1
    BY <1>2, <1>3
  <2>1. k \in Nat /\ k >= next
    BY <1>1, <1>2
  <2>2. \A m \in next .. k : m \in K
    <3> TAKE m \in next .. k
    <3>1. m \in Nat /\ next .. m \subseteq next .. k
      BY <2>1
    <3>2. QED
      BY <1>1, <2>1, <3>1
  <2>3. Cardinality(next .. k) = k - next + 1 /\ next .. k \subseteq K
    BY <2>1, <2>2, FS_Interval
  <2>4. Cardinality(next .. k) <= c
    BY <1>3, <2>3, FS_Subset
  <2>5. QED
    BY <1>3, <2>1, <2>3, <2>4
<1>5. Cardinality(next .. (next + c - 1)) = c /\ IsFiniteSet(next .. (next + c - 1))
  <2> HIDE DEF c
  <2>1. QED
    BY <1>3, IntervalSize
<1>6. K = next .. (next + c - 1)
  <2> HIDE DEF c
  <2> DEFINE I == next .. (next + c - 1)
  <2>1. IsFiniteSet(I) /\ Cardinality(I) = Cardinality(K) /\ K \in SUBSET I
    BY <1>4, <1>5 DEF c
  <2> HIDE DEF I
  <2>2. I = K
    BY <2>1, FS_Subset
  <2>3. QED
    BY <2>2 DEF I
<1>7. ASSUME NEW q \in b, q.seq = next + c
      PROVE  FALSE
  <2>1. next + c \in Nat /\ next + c >= next
    BY <1>3
  <2>2. \A n \in next .. (next + c) : \E o \in b : o.seq = n
    <3> TAKE n \in next .. (next + c)
    <3>1. CASE n = next + c
      BY <1>7, <3>1
    <3>2. CASE n # next + c
      <4>1. n \in K /\ n \in Nat
        BY <1>3, <1>6, <3>2
      <4>2. QED
        BY <1>1, <4>1
    <3>3. QED
      BY <3>1, <3>2
  <2>3. next + c \in K
    BY <1>1, <2>1, <2>2
  <2>4. QED
    BY <1>3, <1>6, <2>3
<1>8. QED
  BY <1>3, <1>6, <1>7 DEF K

-----------------------------------------------------------------------------
(* Every step of the plot is a step of the hits, or leaves them alone.     *)
LEMMA PlotStepsAreHitsSteps ==
  ASSUME [PlotNext]_plotVars
  PROVE  [HitsNext]_hitsVars
<1>1. ASSUME NEW g \in Goroutines, PlotResult(g)
      PROVE  HitsNext
  BY <1>1 DEF PlotResult, HitsNext
<1>2. CASE Background
  BY <1>2 DEF Background, HitsNext
<1>3. CASE Cut \/ UNCHANGED plotVars
  BY <1>3 DEF Cut, plotVars
<1>4. QED
  BY <1>1, <1>2, <1>3 DEF PlotNext

(* Only the delivery of a result changes what was delivered.               *)
LEMMA BackgroundKeeps ==
  ASSUME Background
  PROVE  delivered' = delivered
BY DEF Background, HitStamp, HitNumber, HitStopReturns, HitRequest, CountTick,
       PaceHit, Clock, dataVars

(* A result that arrives is new, is not before any with a smaller number,  *)
(* and has not been waited past.                                           *)
LEMMA Arrival ==
  ASSUME HitsInv, SeriesInv, NEW g \in Goroutines, HitReceive(g)
  PROVE  /\ res[g] \in Results /\ delivered \subseteq Results
         /\ delivered' = delivered \cup {res[g]}
         /\ \A x, y \in delivered' : x.seq = y.seq => x = y
         /\ \A x, y \in delivered' : x.seq < y.seq => x.ts <= y.ts
         /\ \A x \in delivered : x.seq # res[g].seq
         /\ res[g].seq >= next
<1>1. res[g] \in Results /\ delivered \subseteq Results /\ g \in Holding
  BY DEF HitsInv, HitsTypeOK, HitReceive, Receive, Holding
<1>2. delivered' = delivered \cup {res[g]}
  BY DEF HitReceive
<1>3. \A x \in delivered : x.seq # res[g].seq
  BY <1>1 DEF HitsInv, SeqUnique
<1>4. \A x, y \in delivered' : x.seq = y.seq => x = y
  BY <1>2, <1>3 DEF HitsInv, SeqUnique
<1>5. \A x, y \in delivered' : x.seq < y.seq => x.ts <= y.ts
  <2>1. delivered' \subseteq Numbered /\ delivered' \subseteq Results
    BY <1>1, <1>2 DEF Numbered
  <2>2. QED
    BY <2>1, OrderFollows DEF SeqOrder, Results
<1>6. res[g].seq >= next
  <2>1. res[g].seq \in Nat
    BY <1>1 DEF Results
  <2>2. QED
    BY <1>3, <2>1 DEF SeriesInv
<1>7. QED
  BY <1>1, <1>2, <1>3, <1>4, <1>5, <1>6

(* The arriving result is put into the buffer, where nothing has its       *)
(* number.                                                                 *)
LEMMA BufferGrows ==
  ASSUME HitsInv, SeriesInv, NEW g \in Goroutines, HitReceive(g)
  PROVE  /\ Buffer(Point(res[g])) = {Point(x) : x \in Late \cup {res[g]}}
         /\ \A q \in Buffer(Point(res[g])) : q.seq \in 0 .. MaxHits
<1> DEFINE r == res[g]
<1>1. r \in Results /\ delivered \subseteq Results /\ \A x \in delivered : x.seq # r.seq
  BY Arrival
<1> HIDE DEF r
<1>2. \A x \in Late \cup {r} : x \in Results /\ Point(x).seq = x.seq
  BY <1>1, PointFields DEF Late
<1>3. \A q \in buf : q.seq # Point(r).seq
  BY <1>1, <1>2 DEF SeriesInv, Late
<1>4. Buffer(Point(r)) = buf \cup {Point(r)}
  BY <1>3 DEF Buffer
<1>5. Buffer(Point(r)) = {Point(x) : x \in Late \cup {r}}
  BY <1>4 DEF SeriesInv
<1>6. \A q \in Buffer(Point(r)) : q.seq \in 0 .. MaxHits
  BY <1>2, <1>5 DEF Results
<1>7. QED
  BY <1>5, <1>6 DEF r

(* A result that arrives before an earlier one waits in the buffer.        *)
LEMMA AddWaits ==
  ASSUME HitsInv, SeriesInv, NEW g \in Goroutines, HitReceive(g), Add(res[g]),
         res[g].seq # next
  PROVE  SeriesInv'
<1> DEFINE r == res[g]
<1>1. /\ r \in Results /\ delivered \subseteq Results
      /\ delivered' = delivered \cup {r}
      /\ r.seq >= next /\ r.seq # next
  BY Arrival
<1>2. Point(r).seq = r.seq
  BY <1>1, PointFields
<1>3. buf' = Buffer(Point(r)) /\ UNCHANGED <<next, began, series, failed>>
  BY <1>1, <1>2 DEF Add
<1>4. Buffer(Point(r)) = {Point(x) : x \in Late \cup {r}}
  BY BufferGrows
<1> HIDE DEF r
<1>5. next \in Nat /\ r.seq \in Nat /\ r.seq > next
  BY <1>1 DEF SeriesInv, Results
<1>6. Late' = Late \cup {r} /\ Early' = Early
  BY <1>1, <1>3, <1>5 DEF Late, Early
<1>7. buf' = {Point(x) : x \in Late'} /\ series' = {Push(Point(x), began') : x \in Early'}
  BY <1>3, <1>4, <1>6 DEF SeriesInv
<1>8. QED
  BY <1>1, <1>3, <1>5, <1>7 DEF SeriesInv

(* No point of a series of results whose timestamps follow their numbers   *)
(* is refused.                                                             *)
LEMMA NoneRefused ==
  ASSUME NEW D \in SUBSET Results, NEW first \in 0 .. MaxTime,
         \A x \in D : first <= x.ts,
         \A x, y \in D : x.seq < y.seq => x.ts <= y.ts,
         NEW R, series \cup R \subseteq {Push(Point(x), first) : x \in D}
  PROVE  Refused(R) = {}
<1> SUFFICES ASSUME NEW q \in R, NEW o \in series \cup R,
                    o.seq < q.seq, o.t > q.t
             PROVE  FALSE
  BY DEF Refused
<1>1. PICK x \in D : q = Push(Point(x), first)
  OBVIOUS
<1>2. PICK y \in D : o = Push(Point(y), first)
  OBVIOUS
<1>3. /\ q.seq = x.seq /\ q.t = ((x.ts - first) % Wrap) \div Milli
      /\ o.seq = y.seq /\ o.t = ((y.ts - first) % Wrap) \div Milli
  BY <1>1, <1>2, PointFields
<1>4. x.ts \in 0 .. MaxTime /\ y.ts \in 0 .. MaxTime /\ first <= y.ts /\ y.ts <= x.ts
  BY <1>3 DEF Results
<1>5. o.t <= q.t
  BY <1>3, <1>4, PushMonotonic
<1>6. o.t \in Int /\ q.t \in Int
  <2>1. \A a \in Int, w \in Nat \ {0}, m \in Nat \ {0} : (a % w) \div m \in Int
    OBVIOUS
  <2>2. x.ts - first \in Int /\ y.ts - first \in Int
    BY <1>4
  <2>3. QED
    BY <1>3, <2>1, <2>2, SeriesAssumption
<1>7. QED
  BY <1>5, <1>6

(* The result that was waited for is plotted with all that follow it       *)
(* without a gap.                                                          *)
LEMMA AddPlots ==
  ASSUME HitsInv, SeriesInv, NEW g \in Goroutines, HitReceive(g), Add(res[g]),
         res[g].seq = next
  PROVE  SeriesInv'
<1> DEFINE r == res[g]
           D == delivered'
           b == Buffer(Point(r))
           first == IF next = 0 THEN Point(r).t ELSE began
           R == {Push(q, first) : q \in Run(b)}
<1>1. /\ r \in Results /\ delivered \subseteq Results /\ D \subseteq Results
      /\ D = delivered \cup {r}
      /\ \A x, y \in D : x.seq = y.seq => x = y
      /\ \A x, y \in D : x.seq < y.seq => x.ts <= y.ts
      /\ r.seq = next
  BY Arrival
<1>2. Point(r).seq = next /\ Point(r).t = r.ts
  BY <1>1, PointFields
<1>3. b = {Point(x) : x \in Late \cup {r}} /\ \A q \in b : q.seq \in 0 .. MaxHits
  BY BufferGrows
<1>4. next \in Nat
  BY DEF SeriesInv
<1>5. PICK c \in Nat : /\ {q.seq : q \in Run(b)} = next .. (next + c - 1)
                       /\ \A q \in b : q.seq # next + c
  BY <1>3, <1>4, RunIsInterval
<1> HIDE DEF r, D, b
<1>6. \E z \in D : z.seq = 0 /\ z.ts = first
  BY <1>1, <1>2 DEF SeriesInv
<1>7. first \in 0 .. MaxTime /\ \A x \in D : first <= x.ts
  <2>1. PICK z \in D : z.seq = 0 /\ z.ts = first
    BY <1>6
  <2>2. \A x \in D : x.seq \in Nat /\ x.ts \in 0 .. MaxTime
    BY <1>1 DEF Results
  <2>3. QED
    BY <1>1, <2>1, <2>2
<1>8. series = {Push(Point(x), first) : x \in Early}
  <2>1. CASE next = 0
    <3>1. Early = {}
      BY <1>1, <2>1 DEF Early, Results
    <3>2. QED
      BY <3>1 DEF SeriesInv
  <2>2. CASE next # 0
    BY <2>2 DEF SeriesInv
  <2>3. QED
    BY <2>1, <2>2
<1> DEFINE M == {x \in D : x.seq \in next .. (next + c - 1)}
<1> HIDE DEF first
<1>9. \A x \in D : Point(x).seq = x.seq /\ x.seq \in Nat
  BY <1>1, PointFields DEF Results
<1>10. \A x \in D : x.seq >= next <=> x \in Late \cup {r}
  BY <1>1, <1>4, <1>9 DEF Late
<1>11. Run(b) = {Point(x) : x \in M}
  <2>1. ASSUME NEW q \in Run(b) PROVE q \in {Point(x) : x \in M}
    <3>1. q \in b /\ q.seq \in next .. (next + c - 1)
      BY <1>5 DEF Run
    <3>2. PICK x \in Late \cup {r} : q = Point(x)
      BY <1>3, <3>1
    <3>3. x \in D
      BY <1>1, <3>2 DEF Late
    <3>4. QED
      BY <1>9, <3>1, <3>2, <3>3
  <2>2. ASSUME NEW x \in M PROVE Point(x) \in Run(b)
    <3>1. Point(x) \in b
      BY <1>3, <1>4, <1>9, <1>10
    <3>2. PICK q \in Run(b) : q.seq = x.seq
      BY <1>5
    <3>3. QED
      BY <1>9, <3>1, <3>2 DEF Run
  <2>3. QED
    BY <2>1, <2>2
<1>12. R = {Push(Point(x), first) : x \in M}
  BY <1>11
<1> HIDE DEF R, M
<1>13. Refused(R) = {}
  <2>1. series \cup R \subseteq {Push(Point(x), first) : x \in D}
    BY <1>1, <1>8, <1>12 DEF Early, M
  <2>2. QED
    BY <1>1, <1>7, <2>1, NoneRefused
<1>14. /\ began' = first
       /\ series' = series \cup R
       /\ next' = next + Cardinality(R)
       /\ failed' = FALSE
       /\ buf' = {q \in b : q.seq < next \/ q.seq > next' - 1}
  <2>1. {q \in R : \A o \in Refused(R) : q.seq < o.seq} = R
    BY <1>13
  <2>2. Add(r) /\ ~(Point(r).seq # next)
    BY <1>2 DEF r
  <2>3. /\ began' = first
        /\ series' = series \cup {q \in R : \A o \in Refused(R) : q.seq < o.seq}
        /\ next' = next + Cardinality({q \in R : \A o \in Refused(R) : q.seq < o.seq})
        /\ failed' = (Refused(R) # {})
        /\ buf' = {q \in b : \/ q.seq < next
                             \/ q.seq > next' - (IF Refused(R) = {} THEN 1 ELSE 0)}
    BY <2>2, Zenon DEF Add, b, first, R
  <2>4. QED
    BY <1>13, <2>1, <2>3
<1>15. Cardinality(R) = c
  <2>1. \A x \in M : x \in Results /\ Push(Point(x), first).seq = x.seq
    BY <1>1, PointFields DEF M
  <2>2. {p.seq : p \in R} = next .. (next + c - 1)
    <3>1. \A p \in R : p.seq \in next .. (next + c - 1)
      BY <1>12, <2>1 DEF M
    <3>2. ASSUME NEW n \in next .. (next + c - 1) PROVE \E p \in R : p.seq = n
      <4>1. PICK q \in Run(b) : q.seq = n
        BY <1>5
      <4>2. PICK x \in M : q = Point(x)
        BY <1>11
      <4>3. QED
        BY <1>9, <1>12, <2>1, <4>1, <4>2 DEF M
    <3>3. QED
      BY <3>1, <3>2
  <2>3. \A p, q \in R : p.seq = q.seq => p = q
    BY <1>1, <1>12, <2>1 DEF M
  <2>4. QED
    BY <1>4, <2>2, <2>3, CountBySeq
<1>16. next' = next + c /\ next' \in Nat
  BY <1>4, <1>14, <1>15
<1>17. Early' = Early \cup M
  BY <1>1, <1>4, <1>9, <1>16 DEF Early, M, D
<1>18. series' = {Push(Point(x), began') : x \in Early'}
  BY <1>8, <1>12, <1>14, <1>17
<1>19. \A x \in D : x.seq # next'
  <2> SUFFICES ASSUME NEW x \in D, x.seq = next' PROVE FALSE
    OBVIOUS
  <2>1. Point(x) \in b
    BY <1>3, <1>4, <1>9, <1>10, <1>16
  <2>2. QED
    BY <1>5, <1>9, <1>16, <2>1
<1>20. buf' = {Point(x) : x \in Late'}
  <2>1. ASSUME NEW q \in buf' PROVE q \in {Point(x) : x \in Late'}
    <3>1. q \in b /\ (q.seq < next \/ q.seq > next' - 1)
      BY <1>14
    <3>2. PICK x \in Late \cup {r} : q = Point(x)
      BY <1>3, <3>1
    <3>3. x \in D /\ x.seq >= next
      BY <1>1, <1>10, <3>2 DEF Late
    <3>4. x.seq > next'
      BY <1>4, <1>9, <1>16, <1>19, <3>1, <3>2, <3>3
    <3>5. QED
      BY <3>2, <3>3, <3>4 DEF Late, D
  <2>2. ASSUME NEW x \in Late' PROVE Point(x) \in buf'
    <3>1. x \in D /\ x.seq > next'
      BY DEF Late, D
    <3>2. x.seq >= next /\ x.seq > next' - 1
      BY <1>4, <1>9, <1>16, <3>1
    <3>3. Point(x) \in b
      BY <1>3, <1>10, <3>1, <3>2
    <3>4. QED
      BY <1>9, <1>14, <3>1, <3>2, <3>3
  <2>3. QED
    BY <2>1, <2>2
<1>21. \A n \in 0 .. (next' - 1) : \E x \in D : x.seq = n
  <2> TAKE n \in 0 .. (next' - 1)
  <2>1. CASE n < next
    <3>1. n \in 0 .. (next - 1)
      BY <1>4, <1>16, <2>1
    <3>2. PICK x \in delivered : x.seq = n
      BY <3>1 DEF SeriesInv
    <3>3. QED
      BY <1>1, <3>2
  <2>2. CASE n >= next
    <3>1. n \in next .. (next + c - 1)
      BY <1>4, <1>16, <2>2
    <3>2. PICK q \in Run(b) : q.seq = n
      BY <1>5, <3>1
    <3>3. PICK x \in M : q = Point(x)
      BY <1>11
    <3>4. QED
      BY <1>9, <3>2, <3>3 DEF M
  <2>3. QED
    BY <1>4, <1>16, <2>1, <2>2
<1>22. QED
  BY <1>6, <1>14, <1>16, <1>18, <1>19, <1>20, <1>21 DEF SeriesInv, D

-----------------------------------------------------------------------------
(* Every step keeps the plot in order.                                     *)
LEMMA PlotStep ==
  ASSUME PlotInv, [PlotNext]_plotVars
  PROVE  PlotInv'
<1>1. HitsInv /\ SeriesInv /\ HitsInv'
  BY PlotStepsAreHitsSteps, HitsStep DEF PlotInv
<1>2. ASSUME NEW g \in Goroutines, PlotResult(g)
      PROVE  SeriesInv'
  BY <1>1, <1>2, AddWaits, AddPlots DEF PlotResult
<1>3. CASE UNCHANGED <<seriesVars, delivered>>
  <2>1. UNCHANGED <<next, began, buf, series, failed, delivered>>
    BY <1>3 DEF seriesVars
  <2>2. Early' = Early /\ Late' = Late
    BY <2>1 DEF Early, Late
  <2>3. /\ buf' = {Point(r) : r \in Late'}
        /\ series' = {Push(Point(r), began') : r \in Early'}
    BY <1>1, <2>1, <2>2 DEF SeriesInv
  <2>4. SeriesInv'
    BY <1>1, <2>1, <2>3 DEF SeriesInv
  <2>5. QED
    BY <1>1, <2>4 DEF PlotInv
<1>4. ASSUME ~(\E g \in Goroutines : PlotResult(g))
      PROVE  UNCHANGED <<seriesVars, delivered>>
  BY <1>4, BackgroundKeeps DEF PlotNext, Cut, plotVars, hitsVars, dataVars, seriesVars
<1>5. QED
  BY <1>1, <1>2, <1>3, <1>4 DEF PlotInv

(* PlotInv holds in every behaviour of an attack whose results are plotted *)
(* in the order in which they were received, wherever the file is cut.     *)
THEOREM PlotInvariant == PlotSpec => []PlotInv
<1>1. PlotInit => PlotInv
  <2> SUFFICES ASSUME PlotInit PROVE PlotInv
    OBVIOUS
  <2>1. HitsInv /\ delivered = {}
    BY HitsStart DEF PlotInit, HitsInit
  <2>2. Early = {} /\ Late = {}
    BY <2>1 DEF Early, Late
  <2>3. SeriesInv
    BY <2>1, <2>2 DEF PlotInit, SeriesInit, SeriesInv
  <2>4. QED
    BY <2>1, <2>3 DEF PlotInv
<1>2. QED
  BY <1>1, PlotStep, PTL DEF PlotSpec

(* timeSeries.add refuses no result of an attack: labeledSeries.add        *)
(* restores the order in which hit took numbers and timestamps.            *)
THEOREM PlotsNeverFail == PlotSpec => []PlotNeverFails
<1>1. PlotInv => PlotNeverFails
  BY DEF PlotInv, SeriesInv, PlotNeverFails
<1>2. QED
  BY <1>1, PlotInvariant, PTL

(* What is plotted has the numbers below next, each once.                  *)
LEMMA PlottedFollows ==
  ASSUME PlotInv
  PROVE  /\ PlottedSeqs = 0 .. (next - 1)
         /\ \A p, q \in series : p.seq = q.seq => p = q
         /\ \A p \in series : \E r \in delivered :
              p.seq = r.seq /\ p.label = ErrorLabeler(r)
<1>1. SeriesInv /\ delivered \subseteq Results /\ next \in Nat
  BY DEF PlotInv, HitsInv, HitsTypeOK, SeriesInv
<1>2. series = {Push(Point(r), began) : r \in Early} /\ Early \subseteq delivered
  BY <1>1 DEF SeriesInv, Early
<1>3. \A r \in Early : /\ Push(Point(r), began).seq = r.seq
                       /\ Push(Point(r), began).label = ErrorLabeler(r)
                       /\ r.seq \in 0 .. (next - 1)
  <2>1. \A r \in Early : r \in Results /\ r.seq \in Nat /\ r.seq < next
    BY <1>1 DEF Early, Results
  <2>2. QED
    BY <1>1, <2>1, PointFields
<1>4. ASSUME NEW n \in 0 .. (next - 1)
      PROVE  \E p \in series : p.seq = n
  <2>1. PICK r \in delivered : r.seq = n
    BY <1>1 DEF SeriesInv
  <2>2. r \in Early
    BY <1>1, <2>1 DEF Early
  <2>3. QED
    BY <1>2, <1>3, <2>1, <2>2
<1>5. \A p, q \in series : p.seq = q.seq => p = q
  BY <1>2, <1>3 DEF PlotInv, HitsInv, SeqUnique
<1>6. QED
  BY <1>2, <1>3, <1>4, <1>5 DEF PlottedSeqs

(* The plot shows the longest gapless prefix of the file, each result once *)
(* and under its own label, and buffers exactly the rest.                  *)
THEOREM PlotsPrefix == PlotSpec => []PlotPrefix
<1>1. ASSUME PlotInv PROVE PlotPrefix
  <2>1. SeriesInv /\ delivered \subseteq Results /\ next \in Nat
    BY <1>1 DEF PlotInv, HitsInv, HitsTypeOK, SeriesInv
  <2>2. Cardinality(series) = next
    <3>1. {p.seq : p \in series} = 0 .. (0 + next - 1)
      BY <1>1, <2>1, PlottedFollows DEF PlottedSeqs
    <3>2. QED
      BY <1>1, <2>1, <3>1, PlottedFollows, CountBySeq
  <2>3. next \notin FileSeqs
    BY <2>1 DEF SeriesInv, FileSeqs
  <2>4. {p.seq : p \in buf} = {n \in FileSeqs : n > next}
    <3>1. \A r \in Late : Point(r).seq = r.seq
      BY <2>1, PointFields DEF Late
    <3>2. buf = {Point(r) : r \in Late}
      BY <2>1 DEF SeriesInv
    <3>3. ASSUME NEW p \in buf PROVE p.seq \in FileSeqs /\ p.seq > next
      BY <3>1, <3>2 DEF FileSeqs, Late
    <3>4. ASSUME NEW r \in delivered, r.seq > next PROVE \E p \in buf : p.seq = r.seq
      BY <3>1, <3>2, <3>4 DEF Late
    <3>5. QED
      BY <3>3, <3>4 DEF FileSeqs
  <2>5. QED
    BY <1>1, <2>2, <2>3, <2>4, PlottedFollows DEF PlotPrefix
<1>2. QED
  BY <1>1, PlotInvariant, PTL

(* When the attack ended by itself every tick it counted is a point of the *)
(* plot and the buffer is empty.                                           *)
THEOREM PlotsComplete == PlotSpec => []PlotComplete
<1>1. ASSUME PlotInv PROVE PlotComplete
  <2> SUFFICES ASSUME results = "closed"
               PROVE  PlottedSeqs = 0 .. (count - 1) /\ buf = {}
    BY DEF PlotComplete
  <2>1. SeriesInv /\ HitsInv /\ next \in Nat /\ count \in Nat
    BY <1>1 DEF PlotInv, HitsInv, HitsTypeOK, SeriesInv
  <2>2. {r.seq : r \in delivered} = 0 .. (count - 1)
    BY <2>1, CompleteFollows DEF Complete
  <2>3. next \notin 0 .. (count - 1) /\ 0 .. (next - 1) \subseteq 0 .. (count - 1)
    BY <2>1, <2>2 DEF SeriesInv
  <2>4. next = count
    <3>1. next >= count
      BY <2>1, <2>3
    <3>2. next = 0 \/ next - 1 \in 0 .. (count - 1)
      BY <2>1, <2>3
    <3>3. QED
      BY <2>1, <3>1, <3>2
  <2>5. Late = {}
    BY <2>1, <2>2, <2>4 DEF Late
  <2>6. QED
    BY <1>1, <2>1, <2>4, <2>5, PlottedFollows DEF SeriesInv
<1>2. QED
  BY <1>1, PlotInvariant, PTL

=============================================================================
