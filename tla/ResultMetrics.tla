---------------------------- MODULE ResultMetrics ----------------------------
(***************************************************************************)
(* What is computed from results: Metrics and Histogram of the reports,    *)
(* one result at a time, and the counters of the Prometheus exporter; and  *)
(* what they should be, from all results at once.  A quotient is a pair.   *)
(***************************************************************************)
EXTENDS Integers, Sequences, FiniteSets, FiniteSetsExt, Totals

CONSTANT Codes   \* the status codes of results

NewMetrics ==
  [requests |-> 0, codes |-> [c \in Codes |-> 0], in |-> 0, total |-> 0,
   max |-> 0, min |-> 0, earliest |-> 0, latest |-> 0, end |-> 0,
   success |-> 0, errors |-> {}, duration |-> 0, wait |-> 0,
   rate |-> <<0, 1>>, throughput |-> <<0, 1>>, mean |-> <<0, 1>>]

\* The larger of the old value and the new.
After(old, new) == IF new > old THEN new ELSE old

Success(r) == r.code >= 200 /\ r.code < 400

\* Mutant: the end of the attack is that of the last result added.
MetricsAddLastEnd(m, r) ==
  [m EXCEPT !.requests = @ + 1,
            !.codes[r.code] = @ + 1,
            !.in = @ + r.in,
            !.total = @ + r.latency,
            !.max = After(@, r.latency),
            !.min = IF r.latency < @ \/ @ = 0 THEN r.latency ELSE @,
            !.earliest = IF @ = 0 \/ @ > r.ts THEN r.ts ELSE @,
            !.latest = After(@, r.ts),
            !.end = r.ts + r.latency,
            !.success = IF Success(r) THEN @ + 1 ELSE @,
            !.errors = IF r.error = "none" THEN @ ELSE @ \cup {r.error}]

\* Metrics.Add and LatencyMetrics.Add.  0 stands for no time and for no
\* minimum yet.
MetricsAdd(m, r) ==
  [m EXCEPT !.requests = @ + 1,
            !.codes[r.code] = @ + 1,
            !.in = @ + r.in,
            !.total = @ + r.latency,
            !.max = After(@, r.latency),
            !.min = IF r.latency < @ \/ @ = 0 THEN r.latency ELSE @,
            !.earliest = IF @ = 0 \/ @ > r.ts THEN r.ts ELSE @,
            !.latest = After(@, r.ts),
            !.end = After(@, r.ts + r.latency),
            !.success = IF Success(r) THEN @ + 1 ELSE @,
            !.errors = IF r.error = "none" THEN @ ELSE @ \cup {r.error}]

\* Metrics.Close may be called more than once, and Add after it.
MetricsClose(m) ==
  LET duration == m.latest - m.earliest
      wait == m.end - m.latest
  IN IF m.requests = 0 THEN m
     ELSE [m EXCEPT !.duration = duration,
                    !.wait = wait,
                    !.rate = <<m.requests, IF duration > 0 THEN duration ELSE 1>>,
                    !.throughput = <<m.success, IF duration > 0
                                                THEN duration + wait ELSE 1>>,
                    !.mean = <<m.total, m.requests>>]

-----------------------------------------------------------------------------
\* Buckets.UnmarshalText puts a bucket from 0 before the first.
Buckets(bs) == IF bs # <<>> /\ bs[1] > 0 THEN <<0>> \o bs ELSE bs

\* counts is empty until the first result, as the nil slice Counts.
NewHistogram(bs) == [buckets |-> Buckets(bs), counts |-> <<>>, total |-> 0]

\* Histogram.Add: the first bucket that holds the latency, else the last.
HistogramAdd(h, r) ==
  LET b == h.buckets
      counts == IF Len(h.counts) = Len(b) THEN h.counts ELSE [k \in DOMAIN b |-> 0]
      i == Min({k \in 1..(Len(b) - 1) : r.latency >= b[k] /\ r.latency < b[k + 1]}
               \cup {Len(b)})
  IN [h EXCEPT !.counts = [counts EXCEPT ![i] = @ + 1], !.total = @ + 1]

\* Histogram.MarshalJSON indexes Counts by bucket.
MarshalPanics(h) == h.counts = <<>> /\ h.buckets # <<>>

-----------------------------------------------------------------------------
NewExporter == [requests |-> [c \in Codes |-> 0], in |-> [c \in Codes |-> 0],
                failed |-> 0]

\* Mutant: a failed request is counted as a failure only.
ObserveFailure(e, r) ==
  IF r.error # "none" THEN [e EXCEPT !.failed = @ + 1]
  ELSE [e EXCEPT !.requests[r.code] = @ + 1, !.in[r.code] = @ + r.in]

\* prom Metrics.Observe: the counter of failures is looked up and left.
Observe(e, r) ==
  [e EXCEPT !.requests[r.code] = @ + 1, !.in[r.code] = @ + r.in]

-----------------------------------------------------------------------------
(***************************************************************************)
(* The reference: the same numbers from a sequence of results.             *)
(***************************************************************************)
Latencies(rs) == [k \in DOMAIN rs |-> rs[k].latency]
BytesIn(rs) == [k \in DOMAIN rs |-> rs[k].in]
BytesOf(rs, c) == [k \in DOMAIN rs |-> IF rs[k].code = c THEN rs[k].in ELSE 0]
Values(rs, f(_)) == {f(rs[k]) : k \in DOMAIN rs}
CountIf(rs, P(_)) == Cardinality({k \in DOMAIN rs : P(rs[k])})

MetricsOf(rs) ==
  LET latency(x) == x.latency
      ts(x) == x.ts
      first == Min(Values(rs, ts))
      last == Max(Values(rs, ts))
      end == Max(Values(rs, LAMBDA x : x.ts + x.latency))
      ok == CountIf(rs, Success)
  IN IF rs = <<>> THEN NewMetrics
     ELSE [requests |-> Len(rs),
           codes |-> [c \in Codes |-> CountIf(rs, LAMBDA x : x.code = c)],
           in |-> Total(BytesIn(rs)),
           total |-> Total(Latencies(rs)),
           max |-> Max(Values(rs, latency)),
           min |-> Min(Values(rs, latency)),
           earliest |-> first, latest |-> last, end |-> end,
           success |-> ok,
           errors |-> Values(rs, LAMBDA x : x.error) \ {"none"},
           duration |-> last - first,
           wait |-> end - last,
           rate |-> <<Len(rs), IF first = last THEN 1 ELSE last - first>>,
           throughput |-> <<ok, IF first = last THEN 1 ELSE end - first>>,
           mean |-> <<Total(Latencies(rs)), Len(rs)>>]

\* How many latencies are in bucket k of ascending buckets b.
CountIn(rs, b, k) ==
  CountIf(rs, LAMBDA x : x.latency >= b[k] /\ (k < Len(b) => x.latency < b[k + 1]))

=============================================================================
