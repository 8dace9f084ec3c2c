------------------------------- MODULE MCDial -------------------------------
EXTENDS Dial, TLC

\* The flags that change how an attack dials, the others along with them.
MCFlags ==
  {f \in [insecure : {FALSE}, cert : {"cert"}, key : {"none", "key"},
          http2 : {TRUE}, keepalive : BOOLEAN, h2c : BOOLEAN,
          unix : BOOLEAN, dns : {"off", "forever", "ttl"},
          connectTo : BOOLEAN, tickets : BOOLEAN] :
     /\ f.keepalive = f.unix
     /\ f.tickets = (f.dns # "forever")
     /\ (f.key = "none") = f.connectTo
     /\ f.dns = "ttl" => f.unix /\ ~f.connectTo
     /\ f.dns = "forever" => ~f.unix /\ f.connectTo
     /\ f.h2c => f.connectTo}

\* The flags of an attack for which none was given.
MCNoFlags ==
  {[insecure |-> FALSE, cert |-> "none", key |-> "none", http2 |-> TRUE,
    keepalive |-> TRUE, h2c |-> FALSE, unix |-> FALSE, dns |-> "forever",
    connectTo |-> FALSE, tickets |-> FALSE]}

MCAsked == [d \in {1, 2} |-> "site"]
MCConnectMap == "site" :> <<"near", "far">> @@ "near" :> <<"site">>

IP(h, f, k) == [host |-> h, family |-> f, id |-> k]
MCHostIPs ==
  [a \in {"site", "near", "far"} |->
     CASE a = "near" -> {{IP(a, "v4", 1), IP(a, "v6", 2)}}
       [] a = "far"  -> {{IP(a, "v4", 1), IP(a, "v4", 2)}, {}}
       [] OTHER      -> {{IP(a, "zone", 1)}, {IP(a, "v4", 2)}}]

\* Two addresses of one family, which a dial has to choose from.
MCTwoOfAFamily ==
  [a \in {"site", "near", "far"} |->
     {{IP(a, "v4", 1), IP(a, "v4", 2), IP(a, "v6", 3)}}]
=============================================================================
