----------------------------- MODULE AttackPlot -----------------------------
(***************************************************************************)
(* An attack and the plot of its results: the results are written to a     *)
(* file in the order in which they are received, and the plot command adds *)
(* them in that order.  The file may be cut short: processAttack returns   *)
(* while hits are under way (see AttackCmd).                               *)
(***************************************************************************)
EXTENDS Hits, LabeledSeries

(***************************************************************************)
(* time.Duration is an int64 and the difference of two times saturates, so *)
(* a time since the first result is below 2^64.                            *)
(***************************************************************************)
ASSUME PlotAssumption == MaxTime < Wrap

VARIABLE file  \* whether results are still written to the file

plotVars == <<hitsVars, seriesVars, file>>

PlotInit == HitsInit /\ SeriesInit /\ file = "open"

\* The reader receives a result, which is the next in the file.
PlotResult(g) ==
  /\ file = "open"
  /\ ~failed
  /\ HitReceive(g)
  /\ Add(res[g])
  /\ UNCHANGED file

\* Everything of the attack but the delivery of results.
Background ==
  \/ ControlStep /\ UNCHANGED dataVars
  \/ \E g \in Goroutines : HitStamp(g) \/ HitNumber(g) \/ HitStopReturns(g)
                             \/ HitRequest(g) \/ CountTick(g)
  \/ PaceHit
  \/ Clock

\* The attack command returns before the channel is closed.
Cut ==
  /\ file = "open"
  /\ results = "open"
  /\ file' = "cut"
  /\ UNCHANGED <<hitsVars, seriesVars>>

PlotNext ==
  \/ \E g \in Goroutines : PlotResult(g)
  \/ file = "open" /\ Background /\ UNCHANGED <<seriesVars, file>>
  \/ Cut
  \/ file = "cut" /\ UNCHANGED plotVars

PlotSpec == PlotInit /\ [][PlotNext]_plotVars

-----------------------------------------------------------------------------
PlottedSeqs == {p.seq : p \in series}
FileSeqs == {r.seq : r \in delivered}

(* The results of one attack never make timeSeries.add refuse a point with *)
(* errMonotonicTimestamp: hit numbers them in the order of their           *)
(* timestamps and labeledSeries.add restores the order of their numbers.   *)
PlotNeverFails == ~failed

(* The plot shows the longest gapless prefix of the results in the file,   *)
(* each once and in its own label's series, and buffers exactly the rest.  *)
PlotPrefix ==
  /\ PlottedSeqs = 0 .. (next - 1)
  /\ Cardinality(series) = next
  /\ next \notin FileSeqs
  /\ {p.seq : p \in buf} = {n \in FileSeqs : n > next}
  /\ \A p \in series : \E r \in delivered :
       p.seq = r.seq /\ p.label = ErrorLabeler(r)

(* When the attack ended by itself all its results are plotted and nothing *)
(* is left in the buffer.                                                  *)
PlotComplete ==
  results = "closed" => PlottedSeqs = 0 .. (count - 1) /\ buf = {}

=============================================================================
