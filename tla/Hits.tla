-------------------------------- MODULE Hits --------------------------------
(***************************************************************************)
(* The data of an attack: the clock, the sequence numbers and timestamps   *)
(* that hit takes under seqmu, the outcome of each exchange, the results   *)
(* handed to the reader, and the loop's count of hits.  Every action is an *)
(* action of Attack together with what it does to this data.               *)
(***************************************************************************)
EXTENDS Attack

CONSTANTS
  Exchanges,  \* what may become of a request
  MaxHits,    \* bound: the Pacer stops the attack after this many hits
  MaxTime     \* bound on the clock

(***************************************************************************)
(* An exchange has a status, 0 when the request could not be built or sent *)
(* or was not answered, and tells whether its body was read to the end.    *)
(***************************************************************************)
ASSUME HitsAssumption ==
  /\ Exchanges \subseteq [status : Nat, read : BOOLEAN]
  /\ MaxHits \in Nat
  /\ MaxTime \in Nat

VARIABLES
  now,        \* time elapsed since atk.began
  seq,        \* atk.seq
  count,      \* ticks the loop has sent
  res,        \* the Result each worker is filling in
  delivered   \* the Results the reader has received

dataVars == <<now, seq, count, res, delivered>>
hitsVars == <<vars, dataVars>>

Results == [seq : 0 .. MaxHits, ts : 0 .. MaxTime, code : Nat, err : BOOLEAN]

BlankResult == [seq |-> 0, ts |-> 0, code |-> 0, err |-> FALSE]

\* The workers that have a hit without a number yet, and those with one.
Unnumbered == {g \in Goroutines : pc[g] \in {"lock", "stamp", "number"}}
Holding == {g \in Goroutines : pc[g] \in {"target", "stopping", "request", "send"}}

HitsInit ==
  /\ Init
  /\ now = 0
  /\ seq = 0
  /\ count = 0
  /\ res = [g \in Goroutines |-> BlankResult]
  /\ delivered = {}

-----------------------------------------------------------------------------
\* Time passes.
Clock ==
  /\ now < MaxTime
  /\ now' = now + 1
  /\ UNCHANGED <<vars, seq, count, res, delivered>>

\* Mutant: the clock was read before the mutex was taken.
StampEarly(g) ==
  /\ Stamp(g)
  /\ \E t \in 0 .. now : res' = [res EXCEPT ![g].ts = t]
  /\ UNCHANGED <<now, seq, count, delivered>>

\* res.Timestamp = atk.began.Add(time.Since(atk.began))
HitStamp(g) ==
  /\ Stamp(g)
  /\ res' = [res EXCEPT ![g].ts = now]
  /\ UNCHANGED <<now, seq, count, delivered>>

\* Mutant: the sequence number is not incremented.
NumberNoIncrement(g) ==
  /\ Number(g)
  /\ res' = [res EXCEPT ![g].seq = seq]
  /\ UNCHANGED <<now, seq, count, delivered>>

\* res.Seq = atk.seq; atk.seq++
HitNumber(g) ==
  /\ Number(g)
  /\ res' = [res EXCEPT ![g].seq = seq]
  /\ seq' = seq + 1
  /\ UNCHANGED <<now, count, delivered>>

\* hit returns the targeter's error, after Stop.
HitStopReturns(g) ==
  /\ StopReturns(g)
  /\ res' = [res EXCEPT ![g].err = TRUE]
  /\ UNCHANGED <<now, seq, count, delivered>>

\* Mutant: the code is set as soon as there is a response.
OutcomeEarlyCode(r, x) ==
  [r EXCEPT !.code = x.status,
            !.err = x.status = 0 \/ ~x.read \/ x.status < 200 \/ x.status >= 400]

\* The code is set only when the body was read; a status out of the range of
\* success is an error too.
Outcome(r, x) ==
  IF x.status = 0 \/ ~x.read
  THEN [r EXCEPT !.err = TRUE]
  ELSE [r EXCEPT !.code = x.status, !.err = x.status < 200 \/ x.status >= 400]

HitRequest(g) ==
  /\ Request(g)
  /\ \E x \in Exchanges : res' = [res EXCEPT ![g] = Outcome(@, x)]
  /\ UNCHANGED <<now, seq, count, delivered>>

\* Mutant: the result of a failed hit is dropped.
ReceiveIfNoError(g) ==
  /\ Receive(g)
  /\ delivered' = IF res[g].err THEN delivered ELSE delivered \cup {res[g]}
  /\ res' = [res EXCEPT ![g] = BlankResult]
  /\ UNCHANGED <<now, seq, count>>

HitReceive(g) ==
  /\ Receive(g)
  /\ delivered' = delivered \cup {res[g]}
  /\ res' = [res EXCEPT ![g] = BlankResult]
  /\ UNCHANGED <<now, seq, count>>

\* Mutant: a tick taken in the select is not counted.
CountTickMissing(g) ==
  /\ SendTick(g)
  /\ UNCHANGED dataVars

CountTick(g) ==
  /\ SendTick(g)
  /\ count' = count + 1
  /\ UNCHANGED <<now, seq, res, delivered>>

PaceHit ==
  /\ count < MaxHits
  /\ PaceWaits
  /\ UNCHANGED dataVars

\* The steps of Attack that leave the data alone.
ControlStep ==
  \/ \E c \in Callers : StopStep(c)
  \/ \E s \in Stoppers : CallStop(s)
  \/ \E g \in Goroutines : PlainStep(g) \/ Spawn(g)
  \/ LoopStep
  \/ Elapse
  \/ Over

HitsNext ==
  \/ ControlStep /\ UNCHANGED dataVars
  \/ \E g \in Goroutines : HitStamp(g) \/ HitNumber(g) \/ HitStopReturns(g)
                             \/ HitRequest(g) \/ HitReceive(g) \/ CountTick(g)
  \/ PaceHit
  \/ Clock

HitsSpec == HitsInit /\ [][HitsNext]_hitsVars

-----------------------------------------------------------------------------
\* Every numbered result, delivered or on its way.
Numbered == delivered \cup {res[g] : g \in Holding}

(* The data variables keep their types; a worker never has a number beyond *)
(* the bound on hits.                                                      *)
HitsTypeOK ==
  /\ TypeOK
  /\ now \in 0 .. MaxTime
  /\ seq \in 0 .. MaxHits
  /\ count \in 0 .. MaxHits
  /\ res \in [Goroutines -> Results]
  /\ delivered \subseteq Results

(* The comment in hit: there are no two results A and B where A.seq > B.seq *)
(* but A.timestamp < B.timestamp.                                          *)
SeqOrder ==
  \A a, b \in Numbered : a.seq > b.seq => a.ts >= b.ts

(* No two results have the same sequence number, whichever workers made    *)
(* them and whether they were delivered or not.                            *)
SeqUnique ==
  /\ \A g, h \in Holding : res[g].seq = res[h].seq => g = h
  /\ \A g \in Holding, r \in delivered : res[g].seq # r.seq
  /\ \A q, r \in delivered : q.seq = r.seq => q = r

(* When the channel is closed every tick the loop counted has become one   *)
(* delivered result, numbered without gaps.                                *)
Complete ==
  results = "closed" => {r.seq : r \in delivered} = 0 .. (count - 1)

(* A result has no error exactly when its code is one that Metrics.Add     *)
(* counts as a success, so that reports and plots (ErrorLabeler) agree.    *)
ErrorsAgree ==
  \A r \in delivered : ~r.err <=> r.code \in 200 .. 399

\* What the stream's reader tells results apart by.
Tag(r) == [seq |-> r.seq, ts |-> r.ts]

PendingTags == {Tag(res[g]) : g \in Holding}
DeliveredTags == {Tag(r) : r \in delivered}
Tags == PendingTags \cup DeliveredTags

(* The attack implements the stream of results it promises its reader.     *)
Stream == INSTANCE HitStream WITH
  StreamResults <- [seq : 0 .. MaxHits, ts : 0 .. MaxTime],
  pending <- PendingTags,
  delivered <- DeliveredTags,
  closed <- results = "closed"

StreamProperty == Stream!StreamSpec

-----------------------------------------------------------------------------
(* Why these hold.  A tick that was counted is a number taken or a worker  *)
(* about to take one.                                                      *)
CountInv ==
  /\ count = seq + Cardinality(Unnumbered)
  /\ loop \in {"sleep", "try", "block"} => count < MaxHits

\* Numbers are taken in order, none is skipped, none is later than now.
TagsInv ==
  /\ \A t \in Tags : t.seq < seq /\ t.ts <= now
  /\ \A n \in 0 .. (seq - 1) : \E t \in Tags : t.seq = n
  /\ \A t, u \in Tags : t.seq > u.seq => t.ts >= u.ts

\* A worker that has read the clock and not yet taken its number read it
\* after every hit that has one: it holds the mutex.
StampInv ==
  \A g \in Goroutines : pc[g] = "number" =>
     res[g].ts <= now /\ \A t \in Tags : t.ts <= res[g].ts

(* The inductive invariant of the hits: the numbers taken and the workers  *)
(* about to take one account for every tick, the numbers are those below   *)
(* atk.seq, and a timestamp read under seqmu is not before any of theirs.  *)
HitsInv ==
  AttackInv /\ HitsTypeOK /\ CountInv /\ TagsInv /\ StampInv /\ SeqUnique

=============================================================================
