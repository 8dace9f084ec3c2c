-------------------------------- MODULE Dial --------------------------------
(***************************************************************************)
(* Concurrent dials of an attack through the layers that Options sets up:  *)
(* the translation of addresses by ConnectTo, whose index is read and      *)
(* written without a lock, the lookup and the concurrent attempts of       *)
(* DNSCaching, which shuffles and overwrites the slice of the cache, and   *)
(* the net or unix dial below them; and the goroutine that refreshes the   *)
(* cache.                                                                  *)
(*                                                                         *)
(* A dial may hang: only a cancelled one is sure to return.                *)
(***************************************************************************)
EXTENDS Options, FiniteSets, SequencesExt

CONSTANTS Dials,       \* the dials of the transport
          Asked,       \* the address that each asks for
          ConnectMap,  \* the map of -connect-to: address to addresses
          HostIPs      \* the answers of the name server for an address

\* connectToFlag.Set appends to the list of an address, and an answer of
\* the name server is a slice.
Addresses ==
  Range(Asked) \cup UNION {Range(ConnectMap[a]) : a \in DOMAIN ConnectMap}
ASSUME DialAssumption ==
  /\ Asked \in [Dials -> Addresses]
  /\ \A a \in DOMAIN ConnectMap :
       ConnectMap[a] \in Seq(Addresses) /\ Len(ConnectMap[a]) > 0
  /\ \A a \in Addresses : \A all \in HostIPs[a] : IsFiniteSet(all)

VARIABLES n,         \* cm.n of each address of the map
          stage,     \* where each dial is
          addr,      \* the address it dials
          seen,      \* the value of cm.n it has read and not yet used
          ips,       \* the slice it looked up, then the addresses it dials
          att,       \* its attempts
          cancelled, \* whether its context is cancelled
          ch,        \* the results of attempts not yet received
          got,       \* how many it has received
          conn,      \* the attempt whose connection it returns, 0 for none
          err,       \* the error it returns
          cache,     \* the slice kept for an address, <<>> if there is none
          written,   \* what others may have written to the slice of a dial
          stale,     \* the dials whose slice the cache has replaced
          refresh,   \* the goroutine that refreshes the cache
          stopch     \* whether the attack was stopped

mapVars == <<n, seen>>
dialVars == <<stage, addr, ips, att, cancelled, ch, got, conn, err>>
cacheVars == <<cache, written, stale>>
refreshVars == <<refresh, stopch>>
vars == <<setupVars, mapVars, dialVars, cacheVars, refreshVars>>

-----------------------------------------------------------------------------
Layer(name) == \E k \in DOMAIN atk.dial : atk.dial[k] = name
Base == atk.dial[Len(atk.dial)]

\* Where a dial goes once its address is translated.
AfterMap == IF Layer("dns") THEN "lookup" ELSE "direct"

DialInit ==
  /\ SetupInit
  /\ n = [a \in DOMAIN ConnectMap |-> 0]
  /\ stage = [d \in Dials |-> "idle"]
  /\ addr = Asked
  /\ seen = [d \in Dials |-> 0]
  /\ ips = [d \in Dials |-> <<>>]
  /\ att = [d \in Dials |-> <<>>]
  /\ cancelled = [d \in Dials |-> FALSE]
  /\ ch = [d \in Dials |-> <<>>]
  /\ got = [d \in Dials |-> 0]
  /\ conn = [d \in Dials |-> 0]
  /\ err = [d \in Dials |-> "nil"]
  /\ cache = [a \in Addresses |-> <<>>]
  /\ written = [d \in Dials |-> {}]
  /\ stale = {}
  /\ refresh = "none"
  /\ stopch = "open"

Setup ==
  /\ SetupNext
  /\ refresh' = IF atk'.refresh THEN "waiting" ELSE "none"
  /\ UNCHANGED <<mapVars, dialVars, cacheVars, stopch>>

GoTo(d, s) == stage' = [stage EXCEPT ![d] = s]

Start(d) ==
  /\ status = "running"
  /\ stage[d] = "idle"
  /\ GoTo(d, IF Layer("connectTo") /\ addr[d] \in DOMAIN ConnectMap
             THEN "mapRead" ELSE AfterMap)
  /\ UNCHANGED <<setupVars, mapVars, addr, ips, att, cancelled, ch, got,
                 conn, err, cacheVars, refreshVars>>

\* cm.n = (cm.n + 1) % len(cm.addrs), a read and a write.
MapRead(d) ==
  /\ stage[d] = "mapRead"
  /\ seen' = [seen EXCEPT ![d] = n[addr[d]]]
  /\ GoTo(d, "mapWrite")
  /\ UNCHANGED <<setupVars, n, addr, ips, att, cancelled, ch, got, conn, err,
                 cacheVars, refreshVars>>

\* Mutant: the index is wrapped when it is used and not when it is stored.
MapWriteUnwrapped(d) ==
  /\ stage[d] = "mapWrite"
  /\ n' = [n EXCEPT ![addr[d]] = seen[d] + 1]
  /\ GoTo(d, "mapPick")
  /\ UNCHANGED <<setupVars, seen, addr, ips, att, cancelled, ch, got, conn,
                 err, cacheVars, refreshVars>>

MapWrite(d) ==
  /\ stage[d] = "mapWrite"
  /\ n' = [n EXCEPT ![addr[d]] = (seen[d] + 1) % Len(ConnectMap[addr[d]])]
  /\ GoTo(d, "mapPick")
  /\ UNCHANGED <<setupVars, seen, addr, ips, att, cancelled, ch, got, conn,
                 err, cacheVars, refreshVars>>

\* addr = cm.addrs[cm.n], which another dial may have written since; an
\* index out of range panics.
MapPick(d) ==
  LET to == ConnectMap[addr[d]]
      k == n[addr[d]] + 1
  IN /\ stage[d] = "mapPick"
     /\ IF k \in DOMAIN to
        THEN /\ addr' = [addr EXCEPT ![d] = to[k]]
             /\ seen' = [seen EXCEPT ![d] = 0]
             /\ GoTo(d, AfterMap)
             /\ UNCHANGED status
        ELSE status' = "panic" /\ UNCHANGED <<addr, seen, stage>>
     /\ UNCHANGED <<flags, fault, step, output, atk, n, ips, att, cancelled,
                    ch, got, conn, err, cacheVars, refreshVars>>

Return(d, c, e) ==
  /\ GoTo(d, "done")
  /\ conn' = [conn EXCEPT ![d] = c]
  /\ err' = [err EXCEPT ![d] = e]

\* The slice that the cache keeps for an address, or one for an answer.
Slices(a) ==
  IF cache[a] # <<>> THEN {cache[a]} ELSE {SetToSeq(all) : all \in HostIPs[a]}

\* resolver.LookupHost: an error, or the slice of the cache itself.
LookupHost(d) ==
  LET a == addr[d] IN
  /\ stage[d] = "lookup"
  /\ \/ /\ cache[a] = <<>>
        /\ Return(d, 0, "lookup")
        /\ UNCHANGED <<ips, cache>>
     \/ \E s \in Slices(a) :
          /\ cache' = [cache EXCEPT ![a] = s]
          /\ IF s = <<>>
             THEN Return(d, 0, "noSuchHost") /\ UNCHANGED ips
             ELSE /\ ips' = [ips EXCEPT ![d] = s]
                  /\ GoTo(d, "shuffle")
                  /\ UNCHANGED <<conn, err>>
  /\ UNCHANGED <<setupVars, mapVars, addr, att, cancelled, ch, got, written,
                 stale, refreshVars>>

\* net.ParseIP refuses an address with a zone.
Parses(ip) == ip.family \in {"v4", "v6"}

\* The first address, and the first of the other family.
FirstOfEachIPFamily(s) ==
  LET i == SelectInSeq(s, Parses)
      j == SelectInSeq(s, LAMBDA ip : Parses(ip) /\ ip.family # s[i].family)
  IN IF i = 0 THEN <<>>
     ELSE IF j = 0 THEN <<s[i]>> ELSE <<s[i], s[j]>>

\* Two dials hold the same slice.
Share(d, e) ==
  /\ d # e
  /\ addr[d] = addr[e]
  /\ stage[d] = "shuffle" /\ stage[e] = "shuffle"
  /\ d \in stale <=> e \in stale

\* The orders that rng.Shuffle may bring a slice into.
Shuffled(s) ==
  {[k \in DOMAIN s |-> s[p[k]]] : p \in Bijection(DOMAIN s, DOMAIN s)}

\* firstOfEachIPFamily appends to ips[:0], over the slice it reads.
Overwritten(s, each) == each \o SubSeq(s, Len(each) + 1, Len(s))

\* The addresses that a dial takes and what is then left in the slice, when
\* it had the slice for itself ...
Undisturbed(d) ==
  {[each |-> FirstOfEachIPFamily(s),
    left |-> Overwritten(s, FirstOfEachIPFamily(s))] : s \in Shuffled(ips[d])}

\* ... and when others wrote to it from LookupHost to the last read.
Raced(d) ==
  LET wrote(e) == ToSet(ips[e]) \cup written[e]
      pool == wrote(d) \cup UNION {wrote(e) : e \in {e \in Dials : Share(d, e)}}
      seqs == [DOMAIN ips[d] -> pool]
  IN UNION {[each : [DOMAIN FirstOfEachIPFamily(s) -> pool], left : seqs] :
              s \in seqs}

\* The shuffle and the choice; one goroutine per address is started.
Shuffle(d) ==
  /\ stage[d] = "shuffle"
  /\ \E c \in IF written[d] = {} /\ ~\E e \in Dials : Share(d, e)
              THEN Undisturbed(d) ELSE Raced(d) :
       /\ ips' = [ips EXCEPT ![d] = c.each]
       /\ att' = [att EXCEPT ![d] = [k \in DOMAIN c.each |-> "dialing"]]
       /\ cache' = IF d \in stale THEN cache
                   ELSE [cache EXCEPT ![addr[d]] = c.left]
       /\ GoTo(d, IF c.each = <<>> THEN "done" ELSE "collect")
  /\ written' = [e \in Dials |->
                   IF e = d THEN {}
                   ELSE IF Share(d, e)
                        THEN written[e] \cup written[d] \cup ToSet(ips[d])
                        ELSE written[e]]
  /\ stale' = stale \ {d}
  /\ UNCHANGED <<setupVars, mapVars, addr, cancelled, ch, got, conn, err,
                 refreshVars>>

\* Two dials draw from rng, which is not safe for concurrent use.
ShufflePanics(d, e) ==
  /\ status = "running"
  /\ d # e
  /\ \A x \in {d, e} : stage[x] = "shuffle" /\ Len(ips[x]) > 1
  /\ status' = "panic"
  /\ UNCHANGED <<flags, fault, step, output, atk, mapVars, dialVars,
                 cacheVars, refreshVars>>

\* Mutant: the attempt that connects does not cancel the other.
ConnectsAlone(d, k) ==
  /\ stage[d] = "collect"
  /\ att[d][k] = "dialing"
  /\ att' = [att EXCEPT ![d][k] = "connected"]
  /\ UNCHANGED <<setupVars, mapVars, stage, addr, ips, cancelled, ch, got,
                 conn, err, cacheVars, refreshVars>>

\* An attempt connects and cancels the context, even one that was about to
\* be cancelled itself.
Connects(d, k) ==
  /\ stage[d] = "collect"
  /\ att[d][k] = "dialing"
  /\ att' = [att EXCEPT ![d][k] = "connected"]
  /\ cancelled' = [cancelled EXCEPT ![d] = TRUE]
  /\ UNCHANGED <<setupVars, mapVars, stage, addr, ips, ch, got, conn, err,
                 cacheVars, refreshVars>>

Send(d, k, outcome) ==
  /\ att' = [att EXCEPT ![d][k] = outcome]
  /\ ch' = [ch EXCEPT ![d] = Append(@, k)]
  /\ UNCHANGED <<setupVars, mapVars, stage, addr, ips, cancelled, got, conn,
                 err, cacheVars, refreshVars>>

SendsConn(d, k) == att[d][k] = "connected" /\ Send(d, k, "sent")
Fails(d, k) == att[d][k] = "dialing" /\ Send(d, k, "failed")

\* A dial returns when its context is cancelled; net.Dial has none, but
\* over a unix socket it returns by itself.
GivesUp(d, k) == (cancelled[d] \/ Base = "unix") /\ Fails(d, k)

\* Mutant: a later result replaces the first connection.
KeepsLast(d) == TRUE

\* conn, err = r.conn, r.err for the results up to the first connection.
Keeps(d) == conn[d] = 0

Collect(d) ==
  LET k == Head(ch[d])
      c == IF att[d][k] = "sent" THEN k ELSE 0
      e == IF att[d][k] = "sent" THEN "nil" ELSE "dial"
  IN /\ stage[d] = "collect"
     /\ ch[d] # <<>>
     /\ ch' = [ch EXCEPT ![d] = Tail(@)]
     /\ got' = [got EXCEPT ![d] = @ + 1]
     /\ IF Keeps(d)
        THEN /\ conn' = [conn EXCEPT ![d] = c]
             /\ err' = [err EXCEPT ![d] = e]
        ELSE UNCHANGED <<conn, err>>
     /\ IF got'[d] = Len(att[d])
        THEN GoTo(d, "done") /\ cancelled' = [cancelled EXCEPT ![d] = TRUE]
        ELSE UNCHANGED <<stage, cancelled>>
     /\ UNCHANGED <<setupVars, mapVars, addr, ips, att, cacheVars, refreshVars>>

\* Without DNSCaching the net or unix dial gets the address as it is.
Direct(d) ==
  /\ stage[d] = "direct"
  /\ \/ Return(d, 1, "nil")
     \/ Return(d, 0, "dial")
  /\ UNCHANGED <<setupVars, mapVars, addr, ips, att, cancelled, ch, got,
                 cacheVars, refreshVars>>

\* The client's timeout, or the end of the request.
Timeout(d) ==
  /\ stage[d] = "collect"
  /\ ~cancelled[d]
  /\ cancelled' = [cancelled EXCEPT ![d] = TRUE]
  /\ UNCHANGED <<setupVars, mapVars, stage, addr, ips, att, ch, got, conn,
                 err, cacheVars, refreshVars>>

-----------------------------------------------------------------------------
\* Attacker.Stop, which nobody else of this module waits for.
StopAttack ==
  /\ status = "running"
  /\ refresh # "none"
  /\ stopch = "open"
  /\ stopch' = "closed"
  /\ UNCHANGED <<setupVars, mapVars, dialVars, cacheVars, refresh>>

\* The goroutine of DNSCaching: a tick, resolver.Refresh, the stop channel.
RefreshTick ==
  /\ refresh = "waiting"
  /\ refresh' = "refreshing"
  /\ UNCHANGED <<setupVars, mapVars, dialVars, cacheVars, stopch>>

\* What Refresh makes of an address: nothing if it was not kept, and if it
\* was, the slice of a new answer or, unused or failing, nothing.
Renewed(a) ==
  IF cache[a] = <<>> THEN {<<>>}
  ELSE {<<>>} \cup {SetToSeq(all) : all \in HostIPs[a]}

RefreshDone ==
  /\ refresh = "refreshing"
  /\ refresh' = "waiting"
  /\ cache' \in {c \in [Addresses -> UNION {Renewed(a) : a \in Addresses}] :
                 \A a \in Addresses : c[a] \in Renewed(a)}
  /\ stale' = {d \in Dials : stage[d] = "shuffle"}
  /\ UNCHANGED <<setupVars, mapVars, dialVars, written, stopch>>

\* Mutant: the goroutine does not watch the stop channel.
RefreshStopMissing ==
  /\ FALSE
  /\ UNCHANGED vars

RefreshStop ==
  /\ refresh = "waiting"
  /\ stopch = "closed"
  /\ refresh' = "ended"
  /\ UNCHANGED <<setupVars, mapVars, dialVars, cacheVars, stopch>>

\* The steps of dial d that its goroutine takes without waiting.
Proceed(d) ==
  \/ MapRead(d) \/ MapWrite(d) \/ MapPick(d)
  \/ LookupHost(d) \/ Shuffle(d) \/ Collect(d)
  \/ \E k \in DOMAIN att[d] : SendsConn(d, k)

DialStep(d) ==
  \/ Start(d) \/ Proceed(d) \/ Direct(d) \/ Timeout(d)
  \/ \E k \in DOMAIN att[d] : Connects(d, k) \/ Fails(d, k)
  \/ \E e \in Dials : ShufflePanics(d, e)

\* The command refused the attack or panicked, or there is no more to do.
Ended ==
  /\ \/ status \in {"refused", "panic"}
     \/ /\ \A d \in Dials : stage[d] = "done"
        /\ refresh \in {"none", "ended"}
  /\ UNCHANGED vars

DialNext ==
  \/ Setup
  \/ status = "running" /\ \E d \in Dials : DialStep(d)
  \/ StopAttack
  \/ status = "running" /\ (RefreshTick \/ RefreshDone \/ RefreshStop)
  \/ Ended

\* A dial that need not wait proceeds, a cancelled attempt returns, and the
\* select of the refresh goroutine takes the stop channel in the end.
DialSpec ==
  /\ DialInit
  /\ [][DialNext]_vars
  /\ \A d \in Dials :
       /\ WF_vars(status = "running" /\ Proceed(d))
       /\ WF_vars(status = "running"
                    /\ \E k \in DOMAIN att[d] : GivesUp(d, k))
  /\ WF_vars(status = "running" /\ RefreshDone)
  /\ SF_vars(status = "running" /\ RefreshStop)

-----------------------------------------------------------------------------
\* The addresses a dial of address a may end up with.
Translated(a) ==
  IF Layer("connectTo") /\ a \in DOMAIN ConnectMap THEN ToSet(ConnectMap[a])
  ELSE {a}

(* A dial is never translated twice, nor by a stale index or the list of   *)
(* another request, although the dials race on cm.n: it attempts only      *)
(* addresses that the name server gave for a host its own request may go   *)
(* to, one per IP family unless another dial of the host may have written  *)
(* to the slice of the cache, and nothing but the race on rng panics.      *)
RightAddress ==
  /\ \A d \in Dials : stage[d] \notin {"idle", "mapRead", "mapWrite", "mapPick"} =>
       /\ addr[d] \in Translated(Asked[d])
       /\ \A k \in DOMAIN att[d] : \E all \in HostIPs[addr[d]] : ips[d][k] \in all
       /\ Len(att[d]) = 2 =>
            \/ ips[d][1].family # ips[d][2].family
            \/ \E e \in Dials \ {d} : addr[e] = addr[d]
  /\ status = "panic" /\ SetUp =>
       \E d, e \in Dials : d # e /\ stage[d] = "shuffle" /\ stage[e] = "shuffle"

(* DNSCaching returns a connection exactly if one of its attempts          *)
(* connected, in whatever order the results arrive, and the error of an    *)
(* attempt otherwise; neither only when there was nothing to attempt, and  *)
(* that only when some address of the host does not parse.                 *)
DialResult ==
  \A d \in Dials : stage[d] = "done" /\ Layer("dns") =>
    /\ conn[d] # 0 => att[d][conn[d]] = "sent" /\ err[d] = "nil"
    /\ conn[d] = 0 => \A k \in DOMAIN att[d] : att[d][k] = "failed"
    /\ conn[d] = 0 /\ err[d] = "nil" =>
         /\ att[d] = <<>>
         /\ \E all \in HostIPs[addr[d]] : \E ip \in all : ~Parses(ip)

(* The first attempt that succeeds ends the dial, as the timeout of the    *)
(* client does: the other attempt is cancelled and the loop that waits for *)
(* both does not hang on it.                                               *)
DialEnds ==
  \A d \in Dials :
    (cancelled[d] \/ \E k \in DOMAIN att[d] : att[d][k] = "connected")
      ~> (stage[d] = "done" \/ status = "panic")

(* The comment of DNSCaching: the goroutine that refreshes the cache will  *)
(* be stopped when the attack is stopped.                                  *)
RefreshEnds ==
  stopch = "closed" ~> (refresh \in {"none", "ended"} \/ status = "panic")

(* The comment in DNSCaching: "Pick a random IP from each IP family and    *)
(* dial each concurrently".  What a dial picks from are the addresses of   *)
(* an answer of the name server, whatever other dials have picked before.  *)
PicksFromAnswer ==
  \A d \in Dials : stage[d] = "shuffle" => ToSet(ips[d]) \in HostIPs[addr[d]]

=============================================================================
