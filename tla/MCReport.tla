------------------------------ MODULE MCReport ------------------------------
EXTENDS Report, TLC

Cmd(name, typ, every, buckets, threshold) ==
  [name |-> name, typ |-> typ, every |-> every, buckets |-> buckets,
   threshold |-> threshold]

MCCommands ==
  {Cmd("report", "text", TRUE, <<>>, 0),
   Cmd("report", "json", TRUE, <<2, 3>>, 0),
   Cmd("report", "hist", FALSE, <<0, 2>>, 0),
   Cmd("encode", "none", FALSE, <<>>, 0)}
  \cup {Cmd("plot", "none", FALSE, <<>>, t) : t \in {0, 2, 3, 4, 5}}

R(a, n, t, c, l, e) ==
  [attack |-> a, seq |-> n, ts |-> t, code |-> c, latency |-> l, in |-> n + 1,
   error |-> e]
E(kind, res) == [kind |-> kind, res |-> res]
File(format, eol, entries) == [format |-> format, eol |-> eol, entries |-> entries]

\* An attack of three hits, in the order in which they end, and others.
First == <<E("ok", R(1, 1, 6, 200, 1, "none")), E("ok", R(1, 0, 5, 0, 4, "timeout")),
           E("ok", R(1, 2, 8, 200, 2, "none"))>>
Second == <<E("ok", R(2, 0, 3, 500, 3, "500")), E("ok", R(2, 1, 7, 200, 0, "none"))>>
Hurt(kind) == <<Second[1], E(kind, R(2, 1, 9, 500, 1, "500")), Second[2]>>

MCReadLists ==
  {<<File(f, TRUE, First)>> : f \in {"gob", "csv"}}
  \cup {<<File(f, FALSE, First)>> : f \in {"json", "csv"}}
  \cup {<<File("csv", TRUE, Hurt("half"))>>, <<File("gob", TRUE, <<>>)>>,
        <<File("json", TRUE, <<E("bad", Zero)>>)>>,
        <<File("json", FALSE, First), File("gob", TRUE, Second)>>}
  \cup {<<File("gob", TRUE, First), File(f, TRUE, Second)>> : f \in {"gob", "json"}}
  \cup {<<File("gob", TRUE, First), File("csv", TRUE, Hurt(k))>> : k \in {"bad", "half"}}

\* Two attacks, the first with a slow hit somewhere and hits in the same
\* millisecond, the second later and with a gap; and a damaged file.
MCPlotLists ==
  {<<File("csv", TRUE, Hurt("half"))>>} \cup
  {<<File("gob", TRUE,
          [k \in 1..7 |->
             LET n == (k + 1) % 7
             IN E("ok", R(1, n, n + 1, 200, IF k = slow THEN 5 ELSE 1 + (k % 2),
                      "none"))]),
     File("gob", TRUE,
          <<E("ok", R(2, 0, 4, 500, 1, "500")), E("ok", R(2, 1, 7, 500, 1, "500")),
            E("ok", R(2, 3, 12, 200, 1, "none"))>>)>> :
     slow \in 1..7}

MCFileLists ==
  [name \in {"report", "encode", "plot"} |->
     IF name = "plot" THEN MCPlotLists ELSE MCReadLists]
=============================================================================
