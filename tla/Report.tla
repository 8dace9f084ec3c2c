------------------------------- MODULE Report -------------------------------
(***************************************************************************)
(* The report, encode and plot commands, reading results as in Decoding.   *)
(* A report is written at every tick of -every, at a signal and at the end *)
(* of the input; plot writes its page at a signal and at the end; encode   *)
(* writes every result as it comes.  The attack command at the other end   *)
(* of the pipe shows its results to the Prometheus exporter before it      *)
(* writes them.                                                            *)
(***************************************************************************)
EXTENDS Decoding, ResultMetrics, Lttb

CONSTANT Milli  \* units of a timestamp in a millisecond

\* Files, undamaged if there are several, in which the results of an attack
\* have different numbers that follow their timestamps, as one attack gives
\* them out (see Hits).
Numbered(fs) ==
  \A f, g \in DOMAIN fs :
    \A j \in DOMAIN fs[f].entries, k \in DOMAIN fs[g].entries :
      LET a == fs[f].entries[j]
          b == fs[g].entries[k]
      IN /\ Len(fs) > 1 => a.kind = "ok"
         /\ a.kind = "ok" /\ b.kind = "ok" /\ a.res.attack = b.res.attack =>
              \/ <<f, j>> = <<g, k>>
              \/ /\ a.res.seq # b.res.seq
                 /\ a.res.seq < b.res.seq => a.res.ts <= b.res.ts

(***************************************************************************)
(* Only report has -every.  Buckets ascend.  A result is at some time: the *)
(* zero time is that of none.  What is plotted is the results of attacks   *)
(* with different names: labeledSeries.add refuses others, or mixes them.  *)
(***************************************************************************)
ASSUME ReportAssumption ==
  /\ 0 \in Codes
  /\ Milli \in Nat \ {0}
  /\ \A c \in Commands :
       /\ c.every => c.name = "report"
       /\ c.threshold \in Int
       /\ c.buckets \in Seq(Int)
       /\ \A j, k \in DOMAIN c.buckets : j <= k => c.buckets[j] <= c.buckets[k]
       /\ c.name = "plot" => \A fs \in FileLists["plot"] : Numbered(fs)
       /\ \A fs \in FileLists[c.name] : \A f \in DOMAIN fs :
            \A n \in DOMAIN fs[f].entries :
              LET e == fs[f].entries[n]
              IN e.res.code \in Codes /\ (e.kind = "ok" => e.res.ts > 0)

VARIABLES m,         \* the Metrics
          h,         \* the Histogram, with no buckets if none was asked for
          exporter,  \* the counters of the exporter
          written,   \* the last report and how many results it is about
          todo,      \* the series of a plot not yet drawn
          cur,       \* the one being downsampled
          page       \* the rows of the plot

plotVars == <<todo, cur, page>>
reportVars == <<m, h, written, plotVars>>
vars == <<decodingVars, reportVars, exporter>>

Res(rs) == [k \in DOMAIN rs |-> rs[k].res]
InFile(n) == SubSeq(Res(files[1].entries), 1, n)

NoSeries == [name |-> <<0, "none">>, points |-> <<>>, low |-> {}, kept |-> <<>>]

ReportInit ==
  /\ DecodingInit
  /\ m = NewMetrics
  /\ h = NewHistogram(cmd.buckets)
  /\ exporter = NewExporter
  /\ written = [n |-> -1, m |-> NewMetrics, h |-> h]
  /\ todo = {}
  /\ cur = NoSeries
  /\ page = <<>>

-----------------------------------------------------------------------------
\* processAttack: Observe, then Encode, which may fail and end the attack.
WriteResult ==
  /\ Write
  /\ exporter' = Observe(exporter, files[1].entries[avail'].res)
  /\ UNCHANGED reportVars

WriteResultFails ==
  /\ avail < Len(files[1].entries)
  /\ WriterEnds
  /\ exporter' = Observe(exporter, files[1].entries[avail + 1].res)
  /\ UNCHANGED reportVars

WriterStops == WriterEnds /\ UNCHANGED <<reportVars, exporter>>

\* report.Add: the histogram is fed by Metrics or is the report itself.
Add(res) ==
  /\ m' = IF cmd.name = "report" /\ cmd.typ # "hist" THEN MetricsAdd(m, res) ELSE m
  /\ h' = IF h.buckets # <<>> THEN HistogramAdd(h, res) ELSE h

DecodeAndAdd ==
  /\ Decode
  /\ IF added' # added THEN Add(r') ELSE UNCHANGED <<m, h>>
  /\ UNCHANGED <<written, plotVars, exporter>>

\* encode: the result is decoded, and writing it fails.
EncodeFails ==
  /\ cmd.name = "encode"
  /\ stage = "select"
  /\ added # <<>>
  /\ Done("error")
  /\ UNCHANGED <<pipeVars, decVars, sigch, ticks, cause, added, reportVars,
                 exporter>>

Tick ==
  /\ cmd.every
  /\ stage \notin {"open", "done"}
  /\ ticks' = TRUE
  /\ UNCHANGED <<pipeVars, decVars, sigch, stage, outcome, cause, added,
                 reportVars, exporter>>

\* writeReport: Close, if the report has one, then the Reporter.
WriteReport ==
  /\ m' = IF cmd.typ = "hist" THEN m ELSE MetricsClose(m)
  /\ written' = [n |-> Len(added), m |-> m', h |-> h]

ReportPanics == cmd.typ = "json" /\ MarshalPanics(h)

\* A tick; the output may fail.
SelectTick ==
  /\ stage = "select"
  /\ ticks
  /\ ticks' = FALSE
  /\ \/ /\ ~ReportPanics
        /\ WriteReport
        /\ UNCHANGED <<stage, outcome>>
     \/ /\ Done(IF ReportPanics THEN "panic" ELSE "error")
        /\ UNCHANGED <<m, written>>
  /\ UNCHANGED <<pipeVars, decVars, sigch, cause, added, h, plotVars, exporter>>

-----------------------------------------------------------------------------
ErrorLabeler(res) == IF res.error = "none" THEN "OK" ELSE "ERROR"

(***************************************************************************)
(* The timeSeries of a plot: of each attack the results whose predecessors *)
(* have all arrived, in the order of their sequence numbers (see           *)
(* LabeledSeries and AttackPlot), by label, as points in whole             *)
(* milliseconds since the first result of the same attack, where the usage *)
(* text of the command promises the beginning of the earliest attack.      *)
(***************************************************************************)
Gapless(x) ==
  \A n \in 0..x.seq :
    \E k \in DOMAIN added : added[k].res.attack = x.attack /\ added[k].res.seq = n
Series(name) ==
  LET of(x) == x.attack = name[1] /\ ErrorLabeler(x) = name[2]
      own == {k \in DOMAIN added : of(added[k].res) /\ Gapless(added[k].res)}
      inOrder == Ordered(own, [k \in DOMAIN added |-> added[k].res.seq])
      began == CHOOSE x \in ToSet(Res(added)) : x.attack = name[1] /\ x.seq = 0
      point(x) == <<(x.ts - began.ts) \div Milli, x.latency>>
  IN [i \in DOMAIN inOrder |-> point(added[inOrder[i]].res)]

Names == {<<x.attack, ErrorLabeler(x)>> : x \in ToSet(Res(added))}

NameBefore(m1, m2) ==
  m1[1] < m2[1] \/ (m1[1] = m2[1] /\ m1[2] = "ERROR" /\ m2[2] = "OK")

RowsOf(name, points) ==
  [k \in DOMAIN points |-> [x |-> points[k][1], y |-> points[k][2],
                            attack |-> name[1], label |-> name[2]]]

\* Plot.data takes the series by name and downsamples each.
DrawSeries ==
  /\ stage = "draw"
  /\ cur = NoSeries
  /\ todo # {}
  /\ LET name == CHOOSE n \in todo : \A o \in todo \ {n} : NameBefore(n, o)
         t == cmd.threshold
     IN \E s \in {Series(name)} :
          IF TooLow(Len(s), t)
          THEN Done("error") /\ UNCHANGED plotVars
          ELSE /\ todo' = todo \ {name}
               /\ UNCHANGED <<stage, outcome>>
               /\ IF Short(Len(s), t)
                  THEN page' = page \o RowsOf(name, s) /\ UNCHANGED cur
                  ELSE /\ \E low \in SUBSET Roundings(Len(s), t) :
                            cur' = [name |-> name, points |-> s, low |-> low,
                                    kept |-> <<0>>]
                       /\ UNCHANGED page
  /\ UNCHANGED <<pipeVars, decVars, sigch, ticks, cause, added, m, h, written,
                 exporter>>

\* A bucket is sampled; after the last one the last point is kept.
DrawSample ==
  LET s == cur.points
      t == cmd.threshold
      kept == Append(cur.kept, Len(s) - 1)
  IN /\ stage = "draw"
     /\ cur # NoSeries
     /\ IF Len(cur.kept) < t - 1
        THEN /\ cur' = [cur EXCEPT !.kept =
                          Append(@, SampleNext(s, t, cur.low, cur.kept))]
             /\ UNCHANGED page
        ELSE /\ page' = page \o RowsOf(cur.name, [k \in DOMAIN kept |-> s[kept[k] + 1]])
             /\ cur' = NoSeries
     /\ UNCHANGED <<pipeVars, decVars, loopVars, added, m, h, written, todo,
                    exporter>>

\* dataPoints, with the rows of all series, are sorted by time.
Sorted(rows) ==
  LET order == Ordered(DOMAIN rows, [k \in DOMAIN rows |-> rows[k].x])
  IN [i \in DOMAIN order |-> rows[order[i]]]

WritePage ==
  /\ stage = "draw"
  /\ cur = NoSeries
  /\ todo = {}
  /\ page' = Sorted(page)
  /\ Done("ok")
  /\ UNCHANGED <<pipeVars, decVars, sigch, ticks, cause, added, m, h, written,
                 todo, cur, exporter>>

\* What a command does after its loop.
Close ==
  /\ stage = "close"
  /\ CASE cmd.name = "report" ->
            /\ UNCHANGED todo
            /\ \/ ~ReportPanics /\ WriteReport /\ Done("ok")
               \/ /\ Done(IF ReportPanics THEN "panic" ELSE "error")
                  /\ UNCHANGED <<m, written>>
       [] cmd.name = "plot" ->
            stage' = "draw" /\ todo' = Names /\ UNCHANGED <<outcome, m, written>>
       [] OTHER -> Done("ok") /\ UNCHANGED <<m, written, todo>>
  /\ UNCHANGED <<pipeVars, decVars, sigch, ticks, cause, added, h, cur, page,
                 exporter>>

-----------------------------------------------------------------------------
Writer == WriteResult \/ WriteResultFails \/ WriterStops
Program ==
  \/ (Open \/ SelectDecode) /\ UNCHANGED <<reportVars, exporter>>
  \/ DecodeAndAdd
  \/ SelectTick
  \/ Close
  \/ DrawSeries \/ DrawSample \/ WritePage
TakeSignal == SelectSignal /\ UNCHANGED <<reportVars, exporter>>

ReportNext ==
  \/ Writer
  \/ Signal /\ UNCHANGED <<reportVars, exporter>>
  \/ Tick
  \/ Program
  \/ EncodeFails
  \/ TakeSignal
  \/ stage = "done" /\ UNCHANGED vars

\* The command runs, and a select that finds signals and ticks ready takes
\* each of them in the end.  The attack at the other end may fall silent.
ReportSpec ==
  /\ ReportInit
  /\ [][ReportNext]_vars
  /\ WF_vars(Program)
  /\ SF_vars(TakeSignal)

-----------------------------------------------------------------------------
(* Every report, of a tick, a signal or the end, says what the results     *)
(* read so far say, however often Metrics.Close ran before: the counts,    *)
(* the extremes, the rates and the buckets agree with the definitions over *)
(* all results at once.  Only the minimum is lost if a latency is 0, and   *)
(* only a JSON report of buckets before the first result panics.           *)
MetricsExact ==
  /\ written.n >= 0 =>
       LET rs == SubSeq(Res(added), 1, written.n)
           ref == MetricsOf(rs)
           zero == \E k \in DOMAIN rs : rs[k].latency = 0
       IN /\ cmd.typ # "hist" =>
               \/ written.m = ref
               \/ zero /\ written.m = [ref EXCEPT !.min = written.m.min]
          /\ cmd.buckets # <<>> /\ rs # <<>> =>
               /\ written.h.total = Len(rs)
               /\ \A k \in DOMAIN written.h.buckets :
                    written.h.counts[k] = CountIn(rs, written.h.buckets, k)
  /\ outcome = "panic" => added = <<>>

\* The decoder waits for a pipe that says nothing.
Blocked == stage = "decode" /\ ~Ready((seq % Len(files)) + 1)

(* A signal makes the command write what it has and end, also while ticks  *)
(* of -every keep coming: only a decoder that waits for a silent pipe      *)
(* delays it, and it is not forgotten when the pipe goes on.               *)
SignalReports ==
  /\ sigch ~> (stage = "done" \/ Blocked)
  /\ (sigch /\ stage # "decode") ~> stage = "done"

(* The exporter counts the requests and the bytes of exactly the results   *)
(* that are written, and of one more if writing it failed.                 *)
ExporterAgrees ==
  LET counts(n) ==
        /\ exporter.requests = [c \in Codes |-> CountIf(InFile(n), LAMBDA x : x.code = c)]
        /\ exporter.in = [c \in Codes |-> Total(BytesOf(InFile(n), c))]
  IN \/ counts(avail)
     \/ writer = "closed" /\ avail < Len(files[1].entries) /\ counts(avail + 1)

\* The sets of points of series s that threshold t allows to show: all up to
\* the threshold, and of a longer series exactly t with the first and the
\* last, never skipping more than two buckets in a row.
Samplings(s, t) ==
  {K \in kSubset(IF t = 0 \/ t > Len(s) THEN Len(s) ELSE t, DOMAIN s) :
     /\ s # <<>> => {1, Len(s)} \subseteq K
     /\ \A j, k \in K : j < k /\ (\A i \in K : i <= j \/ k <= i) =>
          (k - j - 1) * (t - 2) <= 2 * (Len(s) - 2) + t}

\* The elements of q at the positions in K, in their order.
At(q, K) ==
  LET place == Ordered(K, [k \in K |-> k])
  IN [i \in DOMAIN place |-> q[place[i]]]

\* The rows of series n on the page are those of the points in some such
\* set, in the order of the hits' numbers.
Shown(n) ==
  LET own == {k \in DOMAIN page : page[k].attack = n[1] /\ page[k].label = n[2]}
  IN \E K \in Samplings(Series(n), cmd.threshold) :
       At(page, own) = At(RowsOf(n, Series(n)), K)

(* A page is in the order of time, and shows of every series all points up *)
(* to the threshold and of a longer one exactly threshold points, no point *)
(* twice, its first and its last among them, never skipping more than two  *)
(* buckets in a row; and it shows them in the order in which the hits were *)
(* numbered, also where several points share a millisecond.  Time is that  *)
(* since the first result of each attack: attacks that began one after the *)
(* other lie over each other on the page.                                  *)
PageSound ==
  cmd.name = "plot" /\ outcome = "ok" =>
    /\ \A k \in 1..(Len(page) - 1) : page[k].x <= page[k + 1].x
    /\ \A n \in Names : Shown(n)

=============================================================================
