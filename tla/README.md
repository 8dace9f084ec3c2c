# Vegeta in TLA+

Vegeta sends HTTP requests at a given rate and records what became of each one.
This directory models the parts of it whose correctness depends on the order in
which things happen, checks them with TLC on small instances, and proves the
most important properties with TLAPS for every value of the constants. Paths
below are relative to the repository.

## 1. The system

### Parts

| Part | Source | State it keeps | Operations |
|---|---|---|---|
| Attack engine | `lib/attack.go` `Attack`, `attack`, `Stop` | `ticks`, `results`, `stopch` (channels), `wg`, `workers`, `stopOnce` | start an attack, pace it, grow the pool, stop it |
| Hit | `lib/attack.go` `hit`, `lib/results.go` `Result` | `atk.seq`, `atk.seqmu`, `atk.began` | number and time-stamp a hit, make the exchange, fill in a `Result` |
| attack command | `attack.go` | the `sig` channel | read and encode results, handle signals |
| Pacers | `lib/pacer.go` | none (pure) | `Pace(elapsed, hits)`, `Rate` |
| Targeters | `lib/targets.go` | static: an atomic counter; HTTP and JSON: a reader under a mutex | next target |
| DNS caching, ConnectTo, resolver | `lib/attack.go`, `internal/resolver` | the cache, round-robin counters | dial |
| Result codecs | `lib/results.go`, `encode.go`, `file.go` | a stream per file | encode, decode, decode several files in turn |
| Report | `report.go`, `lib/metrics.go`, `lib/histogram.go`, `lib/reporters.go` | `Metrics`, `Histogram` | add a result, close, report at the end, every tick and on a signal |
| Plot | `plot.go`, `lib/plot` | one `labeledSeries` per attack: `seq`, `buf`, `series` | add a result, downsample, write the page |
| Downsampling | `lib/lttb` | none (pure) | largest-triangle-three-buckets |
| Prometheus exporter | `lib/prom` | counters | observe a result |
| Command line | `main.go`, `flags.go` | none | parse flags, dispatch |

### Interaction

`Attack` starts the initial workers and one pacing goroutine and returns the
results channel. The pacing goroutine sends a tick for each hit on the
unbuffered channel `ticks`; a worker that receives one calls `hit` and sends the
`Result` on the unbuffered channel `results`, where the program
(`processAttack`) reads it. So a slow reader blocks workers, blocked workers
make the loop start more of them, and at `maxWorkers` the loop itself blocks.
Everything ends through `Stop`, which closes `stopch`: the program calls it on a
signal, a hit calls it when the targeter fails, and the loop's deferred function
calls it at the end. Results are written in the order of delivery; `plot` puts
them back into the order of their sequence numbers and relies on `hit` having
numbered them in the order of their timestamps.

### What is hard

- **Shutdown.** `close(ticks)`, `wg.Wait()`, `close(results)`, `Stop()` run while
  workers are anywhere in `hit`, while some have just been started, and while
  other goroutines call `Stop`. A send on a closed channel, a second `close` and
  a negative WaitGroup all panic.
- **Order.** Timestamp and number are taken in one critical section so that they
  agree; delivery is in any order.
- **Selects.** The loop and the command choose at random between ready cases; a
  stop or a signal competes with a stream of ticks or results.
- **Limits.** The pool at `maxWorkers`; the pacer's unsigned and signed 64-bit
  arithmetic at its overflow guard; an interval that rounds to 0.
- **Missing data.** A command that leaves early writes a file with holes in the
  numbering, which the plot must cope with. Files may be damaged, unterminated
  or still growing when they are read.
- **Sharing.** Concurrent hits share a reader of targets and the array of the
  default headers; concurrent dials share an index, a random generator and the
  slice of the DNS cache, without a lock.
- **Wrapping.** The dial function is replaced by some options and wrapped by
  others; what an attack dials depends on their order.

`PROJECT.json` lists the hazards line by line, with the properties that cover
them, and those no property covers yet.

### What makes each part correct

| Part | Correct when |
|---|---|
| Attack engine | no send after close, one close of `stopch`, pool within its bound, ends after `Stop` and after the duration, no tick lost |
| Hit | numbers unique, gapless and ordered like the timestamps; error and code agree |
| attack command | everything written when it ends by itself; a signal ends it, a second one even when requests hang |
| Constant pacer | on its rate but for the rounding of the interval, never sleeps too long, at most one late hit |
| Plot | no failure on the results of an attack; shows exactly the gapless prefix, all of it in the end |
| Targeters | every target is handed out once per round, in order; a request carries the headers and body of its own target; a wrong file is refused |
| Set-up | no option undoes another; what an attack that is refused leaves behind is known |
| DNS and dials | a dial goes to an address of its own host, returns a connection exactly if it has one, and ends |
| Codecs | every result of every file is decoded once and as it was written |
| Report | every report equals the totals over what was read, however often it was made before; a signal ends the command |
| Exporter | agrees with what was written |
| Downsampling | first and last point kept, exactly as many points as asked for, none twice, buckets cover the series |

## 2. Modules

| Module | Models | Notes |
|---|---|---|
| `Attack` | `Attack`, `attack`, `Stop`, the control of `hit` | no counters: infinite behaviours, finite state |
| `Hits` | the data of `hit` and the count of the loop | extends `Attack`; each action is one of `Attack`'s with its effect on the data |
| `HitStream` | what the reader of the channel is promised | abstract; `Hits` refines it |
| `AttackCmd` | `processAttack`, signals, exit of the process | extends `Attack`; `Main` is its only outside caller of `Stop` |
| `ConstantPacer` | `ConstantPacer.Pace` in machine arithmetic | operators only |
| `PacedAttack` | the loop with a clock and a `ConstantPacer` | extends `ConstantPacer` |
| `LabeledSeries` | `labeledSeries.add`, `timeSeries.add` | state and one operation |
| `AttackPlot` | an attack whose results are plotted | composes `Hits` and `LabeledSeries` |
| `Targets` | the HTTP, JSON and static targeters, `ReadAllTargets`, `Target.Request`, and the hits that use them | with a line-by-line reference of what a file says |
| `Options` | the checks of `attack()` and the options of `NewAttacker` | sequential set-up |
| `Dial` | `ConnectTo`, `DNSCaching`, `firstOfEachIPFamily`, the refresh goroutine | extends `Options`: dials go through the layers that the set-up left |
| `Decoding` | `decoder`, `DecoderFor`, `NewRoundRobinDecoder`, the three decoders, the loop around them | a pipe that is still written |
| `ResultMetrics` | `Metrics`, `Histogram`, the exporter's counters | operators, with a reference definition over all results |
| `Totals` | sums and stable orders | operators that the next two and `Report` share |
| `Lttb` | `lttb.Downsample`, `sample` | operators |
| `Report` | the commands `report`, `encode`, `plot`, and the exporter of the attack that feeds them | composes `Decoding`, `ResultMetrics`, `Lttb` |
| `AttackProofs`, `HitsProofs`, `CmdProofs` | `Attack`, `Hits`, `AttackCmd` | theorems; the second and third build on the first |
| `PacedProofs` | `PacedAttack` | theorems |
| `PlotProofs` | `AttackPlot` | theorems; builds on `HitsProofs` |
| `TargetsProofs` | `Targets` | theorems |
| `DialProofs` | `Options`, `Dial` | theorems |
| `ReportProofs` | `Decoding`, `ResultMetrics`, `Lttb`, `Report` | theorems |
| `MC...` | | instances for TLC |

Definitions that start with the comment "Mutant:" are wrong versions of the
definition after them. No specification uses them; putting one in place of its
original must break the property that `PROJECT.json` pairs it with.

### Attack

Each goroutine is a program counter: `loop` for the pacing goroutine, `pc[g]` for
worker `g`, `call[c]` for whoever is inside `Stop`. A step is what a goroutine
does between two points where another can interfere:

| Code | Actions |
|---|---|
| `elapsed > du` | `Elapse` (time passes), `DurationOver` |
| `p.Pace`, `time.Sleep` | `PaceStops`, `PaceWaits`, `Wake` |
| first `select` (below `maxWorkers`), `loop = "try"` | `SendTick`, `SeeStop`, `Spawn` (its default case: no worker is parked and `stopch` is open) |
| second `select`, `loop = "block"` | `SendTick`, `SeeStop` |
| deferred function | `CloseTicks`, `Wait`, `CloseResults`, `LoopReturns` |
| `Stop` | `StopCheck` (the select), `StopClose` (the Once) |
| `for range ticks` | `Park`, `Leave` |
| `hit` | `Lock`, `Stamp`, `Number`, `TargetOK`, `TargetErr`, `StopReturns`, `Request` |
| `results <-` | `Receive` |

A worker in `"range"` runs towards its receive and one in `"parked"` is blocked
in it. The difference matters: a send in a `select` with a default case succeeds
only with a parked worker, so the loop may start a worker although another is
about to become free. The Pacer may give any answer and the targeter may fail at
any call. `stopch` counts closes, so that a second one is visible. `Init` also
has the state in which the Attacker already ran an attack and `stopch` is closed.

### Hits, HitStream

`Hits` adds `now`, `seq`, `count`, the `Result` each worker holds and the set of
delivered results. A result has a number, a timestamp, a code and whether its
error is set; names, bodies, sizes, headers and latency are left out.
`Exchanges` lists what may become of a request: its status (0 when it was not
built, sent or answered) and whether the body could be read. `HitStream` knows
pending and delivered results only. `Hits` refines it with the tags (number and
timestamp) of the results that workers hold as `pending`.

### AttackCmd

`Main` alternates between the select and what it chose. The `sig` channel holds
one signal; more are lost. When the command exits, `Alive` is false and no
goroutine takes another step. `Encode` may fail.

### ConstantPacer, PacedAttack

`MaxInt` stands for `math.MaxInt64`; `Unsigned` and `Signed` are the conversions
between `uint64` and `int64`, and every product and difference goes through
them. In `PacedAttack` a step may take any time: `Sleep` returns late, workers
are busy, the goroutine is scheduled late. `RateKept` measures the hits against
the rate that was given, `Freq` hits per `Per` nanoseconds: on it hit `k` is due
at `k*Per/Freq`. The code waits for multiples of `Per/Freq` rounded down to whole
nanoseconds, so hit `k` may be early by the `k` fractions cut off,
`k*(Per % Freq)/Freq` nanoseconds in all, and no more. With an interval of 0 the
loop only ever catches up and is not early at all.

### LabeledSeries, AttackPlot

`Add` is one call of `labeledSeries.add`: the loop that empties the buffer is the
set `Run` of points that follow each other from `ls.seq`; `Refused` are those
that `timeSeries.add` rejects, and a rejection ends the call as in the code. The
timestamps go through the conversion to unsigned milliseconds. `Cut` is the
attack command returning early (a second signal or a failure to encode).

### Targets

A line of a targets file is its kind, which is what it would be taken for where a
target starts and where a header is expected: blank, comment, header, body
reference, a method and a URL that passes for a header because it has a colon
(`target`) or does not (`path`), a method with something that is no URL and passes
for a header or not (`badurl`, `nourl`), bad (none of these, or a body file that
cannot be read) or the place where the reader fails. `HTTPTargeter(n)` is one call
with the scanner at line `n`: it skips blanks and comments, takes a target, peeks
at the next line and reads a section of headers. A line that looks like a request
(`Methods`) ends the target before it, whatever its URL: the target is handed out
and the next call fails. A `header` value is the number of its
line. The own values of a target are appended to the default ones; they live in
the shared array (`spare`) as long as they fit into its capacity, and `Request`
copies what is there when it runs. Lazy targets are decoded by the hits, eager
ones by `ReadAllTargets` before the attack. `Mode`, `StartOf` and `Given` say what
a file means by the repository's documentation, without a scanner and with
comments as if they were not there, and the properties compare the two; `Lists`
says that a sequence of lines has each line of a set once and in the order of the
file. The code departs from that meaning where a comment stands between the line
of a target and the next request's (`targets_comments`, section 4). `CommentsClear`
sets those files apart, and `TargetsInOrder` and `RequestsFaithful` are about all
others.

### Options, Dial

`Checks` and `OptionOrder` are the lists of `attack()`, one step each. The
Attacker is what the options leave behind; its dial function is the sequence of
its layers, outermost first, so `LocalAddr`, `KeepAlive` and `UnixSocket` replace it
and `DNSCaching` and `ConnectTo` put a layer in front. `H2C` replaces the
transport; options after it that check the type do nothing, and those that do not
(`Asserting`) panic.

| Code | Actions |
|---|---|
| `cm.n = (cm.n + 1) % len`, `cm.addrs[cm.n]` | `MapRead`, `MapWrite`, `MapPick`: a data race, three steps |
| `resolver.LookupHost` (external) | `LookupHost`: an error, or the slice that the cache keeps, at first one of the answers of the name server |
| `rng.Shuffle`, `firstOfEachIPFamily`, `go func` | `Shuffle`, `ShufflePanics` |
| an attempt | `Connects` (with `cancel`), `SendsConn`, `Fails` |
| the receive loop | `Collect` |
| no DNS layer | `Direct` |
| the client's timeout (external) | `Timeout` |
| the refresh goroutine | `RefreshTick`, `RefreshDone` (the cache has new slices), `RefreshStop` |

`dnscache` returns the slice in its cache (`cache`), and the shuffle and
`firstOfEachIPFamily` write to it: what they leave (`Undisturbed`, `Overwritten`)
is what the next dial of the host finds. Dials of the same host that are between
the lookup and the choice share the slice (`Share`) and may each end up with any
of its addresses (`Raced`; `written` is what others may have put there), unless a
refresh has replaced the slice in between (`stale`). `rand.Rand` is not safe for
concurrent use: two dials that shuffle together may panic. `Asked` is the address
that each dial is for; `RightAddress` follows it through the map, once.

### Decoding, ResultMetrics, Lttb, Report

A file is a sequence of entries in one encoding. An entry is a result or damaged,
with nothing or some of its fields set when the error is found (the CSV decoder
sets them one by one). A gob entry leaves fields alone that are zero in the
stream, which matters after a damaged entry of another file. The first file may be
a pipe: `avail` entries are there so far, none at first, and the attack at its
other end writes more, fails, or falls silent. A line without its newline is not
read from a pipe that is still written (`Ended`, `Ready`), and when it is the last
of a whole file it counts in CSV and not in JSON (`Readable`). Headers are not
among the fields of a result: a CSV record without headers leaves those of the
`Result` alone, in a fresh one nil. `Errors` are the texts an error may
have. `Decode` is one turn of the round-robin decoder,
since a turn can block; `Missed` is its error path.

Times, sizes and latencies are small numbers, a quotient is a pair. `MetricsOf`
and `CountIn` are the reference. `Edge` is the boundary of a bucket; `low` is the
set of boundaries whose floating-point product falls below the whole number it
should be. Areas are multiplied by the number of points in the next bucket, which
keeps their order and makes them whole. In `Report` the series of a plot are
given by `Series` (`LabeledSeries` and `AttackPlot` show that `labeledSeries.add`
computes them), with times since the first result of each attack; `DrawSeries` and
`DrawSample` are `Plot.data` and the loop of `Downsample`, and `Sorted` is its `sort.Stable`. A timestamp counts in units of
which `Milli` are a millisecond. `Shown` compares the page with the series: the
rows of a series, in the order in which they stand on the page, are those of one
of the allowed `Samplings`, in the order of the hits. So two hits that share a
millisecond may not change places either.

## 3. Runs

| Run | Checks | Instance |
|---|---|---|
| `attack` | `TypeOK`, `SafeClose`, `StopLatch`, `MutualExclusion`, `WorkersBounded`, `AttackInv`; `StopEndsAttack`, `DurationEndsAttack`, `TicksAnswered` | 3 goroutines, from 0 to 2 workers, one outside caller of `Stop` |
| `hits_plotted` | `HitsTypeOK`, `SeqOrder`, `SeqUnique`, `Complete`, `ErrorsAgree`, `HitsInv`; the refinement `StreamProperty`; `PlotNeverFails`, `PlotPrefix`, `PlotComplete` | 1 to 3 workers, 3 hits, clock 0..1, 4 kinds of exchange, the file cut anywhere |
| `command` | `CmdTypeOK`, `CleanExit`; `SignalEndsCommand`, `SecondSignalExits` | 1 to 2 workers, 2 signals |
| `command_first_signal` | `ExitOnSecondSignal` is violated | the same |
| `paced` | `RateKept`, `NeverOversleeps`, `OneLateHit`, `PacedInv` | 2 hits per 7 ns, integers up to 25, durations 0, 1, 7, 12 |
| `pacer_fast` | `NoPanic` is violated | 4 hits per 3 ns |
| `targets` | `TargetsInOrder`, `RequestsFaithful` | 3 hits; every file of up to 5 lines of 10 kinds, both formats, lazy and eager; 2 default values |
| `targets_comments` | `CommentsIgnored` is violated | 2 hits, files of up to 4 lines of 3 kinds |
| `headers_shared` | `RequestsFaithful` is violated | 2 hits, 3 default values |
| `dial` | `SetUpSound`, `RightAddress`, `DialResult`; `DialEnds`, `RefreshEnds` | 2 dials, a map of one address to two, one of which is mapped back, hosts with addresses of both families, of one, with a zone and with none; 9 combinations of flags, 5 faults |
| `dns_cache` | `PicksFromAnswer` is violated | 2 dials without any flag, of a host with two addresses of one family and one of the other |
| `report` | `ReadComplete`, `MetricsExact`, `ExporterAgrees`, `PageSound`; `SignalReports` | 9 commands; lists of one or two files of up to 3 entries, in three encodings, damaged, empty or unterminated; plots of two attacks that begin at different times, one with 7 points, some in the same millisecond, with a slow one at any place, sampled to 0, 2, 3, 4, 5 |

**Why the bounds are enough.** Workers are interchangeable and the conflicts are
between two of them, or between one and the loop: two workers plus a third
identity that must never be used show a pool at its maximum, a worker that is
started while the other is busy, and a contended mutex. Starting with none makes
the first hit depend on the default case. `attack` and `command` have no bound on
hits. In `hits_plotted` three hits are enough for a late result to be overtaken by
two others, and two clock values for hits at the same and at different times. It
has three workers because a buffer with a hole in it needs them: one holds the
number that is awaited, one a later number, and one has delivered a number after
both. Its clock counts milliseconds; the rounding of finer times is in `report`
and in the proofs. Stops from outside are in `attack`; here failed targeters stop
the attack. In `paced` the interval (3) does not divide the period (7), so the two
ways to compute what is due differ and the rounding of the interval adds up, and 25
is small enough for the product in `delta` to overflow before the guard stops the
attack. Where the rate is exact, and for an interval of 0, `RateKept` is stronger;
there it rests on the proof.

In `targets` five lines hold two targets of which the first has a comment or a
header and a body, and three hits overtake each other on them; two default values
fill their array, so that nothing is shared, and three (`headers_shared`) leave
room for one. In `dial` two dials race on the index, the generator and the
results; a third adds no new pair. They ask for the same address, whose slice they
share if the map sends both to the same host. The flags are those that touch the dial
function or the transport; each of the rest is set along with one of them. In
`report` a file of three results in the order 1, 0, 2 has a late result, two files
of different length put the end of one before the end of the other, and the second
file has a damaged entry between two good ones. An unterminated last line comes in
JSON and in CSV, alone and before a longer file. Seven points sampled to five have
buckets of 5/3, the smallest case in which a boundary can be rounded down. Two
units per millisecond give the rows of a plot that only their order tells apart.

Symmetry is used for the worker identities, and only in runs without liveness properties.

**Fairness.** Goroutines are scheduled and time passes: weak fairness of their
steps. A `select` with several ready cases picks at random, so a stop (`SeeStop`)
or a signal (`TakeSignal`) that is ready again and again is taken: strong
fairness. `sync.Mutex` hands itself to a waiter that has waited for long: strong
fairness of `Lock`. In `Attack` a request ends (the client has a timeout, which
the command sets to 30 s by default) and the program reads the results, which is
what `Attack`'s interface asks of it. `AttackCmd` assumes nothing of requests:
`SignalEndsCommand` has "no request hangs for ever" as its premise and
`SecondSignalExits` has none. Nothing obliges the user to send a signal.

In `Dial` a dial may hang: only one whose context is cancelled (or that goes to a
unix socket) is sure to return, and the goroutine that waits for it proceeds when
it can. A connection, a timeout and a stop need not happen. The select of the
refresh goroutine takes the stop channel in the end, although ticks keep coming
(strong fairness). In `Report` the command runs, the select takes a signal that
is ready again and again (strong fairness), and nothing is assumed of the attack
at the other end of the pipe: it may fall silent for ever, and `SignalReports`
says what a signal does then.

## 4. Where code and comments disagree

1. `processAttack` says it exits on the second signal. It looks at what `Stop`
   returns, and a hit whose targeter failed (an exhausted file of targets, say)
   has called `Stop` too: then the first signal ends the command, and the results
   of hits under way are lost (`command_first_signal`).
2. `ConstantPacer.Pace` divides by `Per/Freq`, which is 0 when there are more hits
   than nanoseconds in the period: the pacing goroutine panics (`pacer_fast`).
3. `NewHTTPTargeter` says it merges the default headers with each target's. It
   appends to the slices of the defaults; with three values of one key (capacity
   four) the targets write their own values into the same place
   (`headers_shared`). Giving it once, twice or four times is safe.
4. The repository's README says that lines of a targets file that start with `#`
   are ignored, and a test says "even inside the target". After the line of a
   target the targeter peeks at one line to see whether the next request begins.
   A comment there hides it: the line of the next target is then taken for a
   header (its URL has a colon), sent as one, and never requested
   (`targets_comments`). A line like `GET /b` there fails the first target instead.
5. A comment in `DNSCaching` says that a random address of each family is picked,
   and `-dns-ttl=0` caches for ever. The pick overwrites the slice in the cache, so
   an address that the first dials of a host did not pick may be gone for good
   (`dns_cache`).

Smaller things met while modelling, which no run is devoted to:

- `Stop` documents `true` for the first call only. Its check and its Once are two
  steps, so two concurrent calls may both return `true`; `stopch` is still closed
  once (`StopLatch`).
- In a file with a hole in the numbering everything after the hole stays in the
  buffer of the plot and is missing from the page, without an error. `PlotPrefix`
  states exactly this.
- The usage text of `plot` says that the X axis is the time since the beginning of
  the earliest attack in all input files. Every `labeledSeries` counts from the
  first result of its own attack, so attacks that began one after the other lie
  over each other on the page. `Series` and with it `PageSound` are about the times
  that the code computes; `report` has attacks that begin at different times.
- `-unix-socket` says it overrides the host address. `DNSCaching` is on by default
  and wraps the socket's dial, so the host is looked up first and a host that does
  not resolve fails the request; with `-h2c` the socket is not used at all.
- A read error of a targets file counts as its end in the HTTP format and as an
  error in the JSON format; a last JSON line without a newline is dropped, of
  targets and of results.
- `prom.Metrics.Observe` looks the counter of failures up and does not increment
  it, so `request_fail_count` stays 0.
- `Metrics` takes a latency of 0 for "no minimum yet"; a JSON report with buckets
  that is written before the first result panics. `MetricsExact` names both.
- When both attempts of a dial connect, one connection is dropped without being
  closed; when no address of a host parses, the dial returns neither a connection
  nor an error. `DialResult` names the second. Two dials that draw from the random
  generator at the same time may panic, which `RightAddress` names.
- `-h2c` with `-session-tickets` panics, and `-h2c` ignores `-proxy-header`,
  `-dns-ttl` and `-connect-to`. An attack that is refused for its certificates has
  already truncated its output. `SetUpSound` names these.
- With several files the round-robin decoder reports the error of the last file
  it tried only, so the damage of one file may pass for the end of all.

One thing looks wrong and is not: the pacer's guard admits a number of hits for
which `delta` overflows. The subtraction of `elapsed` wraps back, and the wait is
right. `paced` reaches that case and the proofs cover it. The interval that is
rounded down is a smaller matter: at 3 hits per second a hit is early by at most a
third of a nanosecond for each one before it. Only towards a hit per nanosecond it
decides the rate (4 per 7 ns are sent every nanosecond).

## 5. Proofs

Every invariant that a passing run checks is proved for all values of the
constants, `RequestsFaithful` under a condition that is given below. The
assumptions are those next to the CONSTANTS declarations:

| Assumption | Says |
|---|---|
| `AttackAssumption`, `HitsAssumption`, `CmdAssumption` | types, disjoint identities, at least `MaxWorkers` identities of goroutines; `Main` is the only outside caller of `Stop` |
| `PacerAssumption`, `PacedAssumption` | the rate is any pair of signed integers (zero and negative ones too), the clock stays within them, durations are not negative |
| `SeriesAssumption`, `PlotAssumption` | an attack is over before a timestamp in unsigned milliseconds wraps |
| `TargetsAssumption` | the ten kinds of lines |
| `OptionsAssumption`, `DialAssumption` | the values of flags; each dial asks for an address; `-connect-to` maps an address to one or more; a host has finitely many addresses |
| `DecodingAssumption`, `ReportAssumption` | a command has at least one file; a result was made after time 0; the buckets of a histogram are given in ascending order, which the code does not check; only `report` has `-every`; what is plotted is one file, or undamaged ones, and the numbers of an attack differ and follow its timestamps (`Numbered`), which `HitsSeqOrder` and `HitsSeqUnique` prove of the results of one attack |

So the theorems are about every finite set of goroutines, every `Workers` and
`MaxWorkers`, any number of callers of `Stop`, of signals, of hits and of dials,
any rate and any `MaxInt`, targets files of any length, and result files of any
number and length.

**`AttackProofs`.** `SafeClose` is not inductive: that no worker is left when
`results` is closed depends on the WaitGroup. `AttackInv` says that `wg` is the
number of active workers (`PoolInv`), that only the Once closes `stopch` and has
run before any call of `Stop` returned (`StopInv`), that `seqmu` is held by the
worker in its critical section (`MutexInv`) and that the loop's count of workers
is exact and below the maximum when it may grow (`BornInv`). Each part has a lemma
with one step per action. `AttackInvariant` gives `AttackTypes`,
`AttackSafeClose`, `AttackStopLatch`, `AttackMutualExclusion`,
`AttackWorkersBounded`.

**`HitsProofs`.** `HitsImplementAttack` shows that the detailed specification
implements `Attack`'s, so `AttackInv` carries over. `HitsInv` adds that a counted
tick is a number taken or a worker about to take one (`CountInv`), that the
numbers are exactly those below `atk.seq` and ordered like their timestamps
(`TagsInv`), and that a worker between reading the clock and taking its number
read a time not before any other (`StampInv`), which is what the mutex is for.
From it follow `HitsTypes`, `HitsSeqOrder`, `HitsSeqUnique`, `HitsComplete` and
`HitsRefineStream`, the refinement of `HitStream`. `HitsErrorsAgree` needs an
invariant of its own: a result has code and error in agreement already while a
worker holds it, from the end of the exchange on (`OutcomeInv`).

**`CmdProofs`.** The command is not an attack in the sense of `Attack`, because
`Main` may call `Stop` again after a call has returned. That step preserves
`AttackInv` as well, so `CmdInv` has it as a part, together with where `Main` is
(`MainInv`) and what an exit means (`ExitInv`). From it follow `CmdTypes` and
`CmdCleanExit`. `CmdStoppedBefore` is what remains true of the comment that the
violation `command_first_signal` refutes, and `CmdExitIsFinal` is an action
property.

**`PacedProofs`.** `PacedInv` says that a loop that sleeps wakes at the time its
hit is due or later (`DueInv`), and that a hit that is late was paced in time
(`LateInv`). The lemmas on `Pace` show that its answer is exact although `delta`
may wrap. From it follow `PacedRateKept`, `PacedNeverOversleeps`,
`PacedOneLateHit`. `PacedRateKept` needs more than multiples of the interval: since
`Per` is `Interval*Freq` and a rest, what `count` intervals fall short of the rate
is `count` times that rest, and for an interval of 0 `DueInv` has the rate itself.

**`PlotProofs`.** `SeriesInv` says what `labeledSeries` has made of the results
delivered so far, in whatever order they came: the series holds those below the
number it waits for, none of which is missing, and the buffer those above it. One
call of `add` keeps this (the run of points it takes out of the buffer ends at the
next number that was not delivered). That no point is refused follows from the
order of timestamps in `HitsInv`, since the division by a millisecond is
monotonic. From it follow `PlotsNeverFail`, `PlotsPrefix`, `PlotsComplete`.

**`TargetsProofs`.** The heart is a lemma about one call of a targeter (`Call`):
if the reader stands at a `Boundary` (the end, outside of targets, or at a target
that ended the one before), the call is `CallSound`. It returns the first target
that is given from there on, with the values and the body that the lines say, or
an error that the lines have, and it leaves the reader at a boundary. `Mode`
reads the file line by line and the targeter section by section; lemmas on where
a mode stays as it is (`Stays`, `AfterBroken`, `SkipsOut`, `NoStart`) and on the
lines a section covers (`Covers`, `Inside`, `Belongs`, `SectionFacts`) connect the
two. `TargetsInv` then says that what the reader has passed is what was handed out
(`LazyInv`) or read (`EagerInv`), that every target in hand is one of the file's
(`HandsInv`), and that the requests are right (`MadeInv`). From it follow
`TargetsHandedInOrder` and `RequestsRight`, for every file whose comments are
clear; `targets_comments` shows that the condition is needed. The header values are right under the
condition that the array of default values is full or the format is JSON; the
violation `headers_shared` shows that the condition is needed.

**`DialProofs`.** `SetupInv` says, for each number of options applied, which
layers the dial function has (`OptionInv`), and how far the set-up came in each
status (`StepInv`). `DialInv` adds the index of `ConnectTo`, which stays inside its
list whoever wrote it last (`MapInv`), and for each dial where it goes
(`AddrInv`), what it found (`IpsInv`) and that its attempts, its channel and its
result agree (`ResultInv`). The slices of the cache hold addresses of their own
host (`CacheInv`). A step of one dial leaves the others alone
(`OnlyDial`), so that each action is looked at for its own dial. From it follow
`SetsUp`, `DialsRightAddress`, `DialsReturn` and the action property `DialFinal`.

**`ReportProofs`.** `ReadInv` says that the entries passed over are those read, but
for damaged ones (`OrderInv`), that they were read as written (`ValueInv`), and
that a file the round-robin decoder tried in vain in this call has ended, so that
after a full round all have (`EndInv`). It gives `ReadsComplete`. `MetricsInv` says
that `Metrics` and `Histogram` hold the tallies of the results added, also after
`Close` ran, and `WrittenInv` that the last report was exact when it was written:
`TalliesInvariant` and `ReportsExact`. `ExporterInv` gives `ExporterCounts`.

For the page, `PageInv` says that the series taken so far are shown on it and the
others have no row (`DrawInv`), and that the points kept of the series at hand lie
one in each bucket (`CurInv`). What "shown" means is a function from the rows of a
series to the points of a sampling that grows with the rows (`Tracks`): rows that
come to the end of the page leave it alone (`OthersKept`), and sorting composes it
with a permutation (`SortedShown`). Four facts carry the proof. The boundaries of
the buckets ascend whichever of their products are rounded down, and two of them
are never further apart than a bucket and its rounding (`EdgeAscends`, `EdgeGap`).
`Sample` returns a point of its bucket, so that the points kept grow, no gap is
longer than two buckets, and they are exactly as many as asked for
(`SampleFacts`, `SampleNextFacts`, `KeptSampling`). A stable sort lets rows change
places only if their times are not yet in order (`OrderedFacts`, `SortedFacts`).
And a series ascends, because a plotted result is as it was written (`PlainInv`),
numbers follow timestamps and rounding down to milliseconds keeps their order
(`SeriesAscend`). It gives `PageInvariant` and `PageIsSound`, for every threshold,
every length and every choice of the points in the buckets: that `Sample` takes
the largest triangle is in the model and of no concern to the proof.

*Induction over data.* The library's induction rules cannot be used by the
installed provers. Where a recursive function or a sum has to be followed along a
sequence (`Mode` of a file, the totals of `Metrics`), the proofs take the least
number at which a set of numbers fails, which the well-foundedness of `<` provides
(`Ascend`), and show that a recursion over an interval has a solution
(`Recursion`).

**Checked with TLC only.** All liveness properties (`StopEndsAttack`,
`DurationEndsAttack`, `TicksAnswered`, `SignalEndsCommand`, `SecondSignalExits`,
`DialEnds`, `RefreshEnds`, `SignalReports`): fairness and ENABLED are beyond the
prover. The five violations are TLC's too.

## 6. Not modelled

- The parsing of flags and `main`: sequential, no state.
- `SinePacer`, `LinearPacer`: floating-point trigonometry and roots. `Attack` is
  checked with a pacer that gives any answer.
- The bytes of the three encodings, the syntax inside a line of a targets file,
  the layout of reports and of the HTML page, generated JSON code, assets, fuzz
  harnesses and the tools under `internal/cmd`.
- Quantiles (t-digest), the DNS cache, `net/http`, the Prometheus registry and the
  compression of time series: libraries, modelled by what the code uses of them.
- The round robin of the custom resolver over name servers: one atomic counter; a
  lookup may have any outcome in `Dial`.
- Plots of several attacks with the same name, whose numbers collide.

## 7. Plan

What is left: what can be said of `LinearPacer` in integers, and the merging of
attacks with the same name in a plot, once it is said what a page of colliding
numbers should show.
