------------------------------ MODULE HitStream ------------------------------
(***************************************************************************)
(* What Attack promises the reader of its channel, whatever goroutines,    *)
(* mutexes and channels are behind it: hits are numbered 0, 1, 2, ... in   *)
(* the order of their timestamps, each hit yields one result, results may  *)
(* arrive in any order, none is lost or repeated, and the channel is       *)
(* closed only when there is nothing left to deliver.                      *)
(***************************************************************************)
EXTENDS Integers

CONSTANT StreamResults  \* the results there can be: records with seq and ts

VARIABLES
  pending,    \* results of hits that were made and not yet delivered
  delivered,  \* results the reader has received
  closed      \* whether the channel is closed

streamVars == <<pending, delivered, closed>>

Made == pending \cup delivered

StreamInit ==
  /\ pending = {}
  /\ delivered = {}
  /\ closed = FALSE

\* The next hit: a number that follows all others, a timestamp not before any.
Hit(r) ==
  /\ ~closed
  /\ \A m \in Made : m.seq < r.seq /\ m.ts <= r.ts
  /\ \A n \in 0 .. (r.seq - 1) : \E m \in Made : m.seq = n
  /\ pending' = pending \cup {r}
  /\ UNCHANGED <<delivered, closed>>

Deliver(r) ==
  /\ ~closed
  /\ r \in pending
  /\ pending' = pending \ {r}
  /\ delivered' = delivered \cup {r}
  /\ UNCHANGED closed

Close ==
  /\ pending = {}
  /\ closed' = TRUE
  /\ UNCHANGED <<pending, delivered>>

StreamNext ==
  \/ \E r \in StreamResults : Hit(r) \/ Deliver(r)
  \/ Close

StreamSpec == StreamInit /\ [][StreamNext]_streamVars

=============================================================================
