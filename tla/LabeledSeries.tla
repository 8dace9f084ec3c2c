---------------------------- MODULE LabeledSeries ----------------------------
(***************************************************************************)
(* The time series that plot keeps for the results of one attack.  Results *)
(* arrive in any order; labeledSeries.add buffers each one until all with  *)
(* smaller sequence numbers have arrived, then pushes the run it completes *)
(* into the timeSeries of its points' labels, which refuse a point that is *)
(* older than their last.                                                  *)
(***************************************************************************)
EXTENDS Integers, FiniteSets

CONSTANTS
  Milli,   \* clock units in a millisecond
  Wrap     \* 2^64: a time.Duration becomes a uint64

ASSUME SeriesAssumption ==
  /\ Milli \in Nat \ {0}
  /\ Wrap \in Nat \ {0}

VARIABLES
  next,     \* ls.seq: the sequence number it waits for
  began,    \* ls.began: the timestamp of the first point
  buf,      \* ls.buf: points by sequence number
  series,   \* the points of all timeSeries
  failed    \* whether add returned an error

seriesVars == <<next, began, buf, series, failed>>

SeriesInit ==
  /\ next = 0
  /\ began = 0
  /\ buf = {}
  /\ series = {}
  /\ failed = FALSE

ErrorLabeler(r) == IF r.err THEN "ERROR" ELSE "OK"

Point(r) == [seq |-> r.seq, t |-> r.ts, label |-> ErrorLabeler(r)]

\* ls.buf[p.seq] = p
Buffer(p) == {q \in buf : q.seq # p.seq} \cup {p}

\* Mutant: the whole buffer is flushed, whatever is missing.
RunAll(b) == {q \in b : q.seq >= next}

\* Mutant: the point is added, but not the buffered ones that follow it.
RunOne(b) == {q \in b : q.seq = next}

\* The points of b that follow each other from next on.
Run(b) ==
  {q \in b : q.seq >= next /\ \A n \in next .. q.seq : \E o \in b : o.seq = n}

\* The point as timeSeries keeps it: milliseconds since the first point.
Push(p, first) == [p EXCEPT !.t = ((p.t - first) % Wrap) \div Milli]

\* The points of R that timeSeries.add refuses: ts.prev > t.
Refused(R) ==
  {q \in R : \E o \in series \cup R :
                 o.label = q.label /\ o.seq < q.seq /\ o.t > q.t}

\* Mutant: a point is added at once, in the order of arrival.
AddUnordered(r) ==
  LET p == Push(Point(r), began)
  IN /\ next' = next + 1
     /\ series' = series \cup {p}
     /\ failed' = \E o \in series : o.label = p.label /\ o.t > p.t
     /\ UNCHANGED <<began, buf>>

Add(r) ==
  LET p     == Point(r)
      b     == Buffer(p)
      first == IF next = 0 THEN p.t ELSE began
      R     == {Push(q, first) : q \in Run(b)}
      bad   == Refused(R)
      good  == {q \in R : \A o \in bad : q.seq < o.seq}
  IN IF p.seq # next
     THEN buf' = b /\ UNCHANGED <<next, began, series, failed>>
     ELSE /\ began' = first
          /\ series' = series \cup good
          /\ next' = next + Cardinality(good)
          /\ failed' = (bad # {})
          /\ buf' = {q \in b : \/ q.seq < next
                               \/ q.seq > next' - (IF bad = {} THEN 1 ELSE 0)}

=============================================================================
