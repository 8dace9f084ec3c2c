------------------------------ MODULE Options ------------------------------
(***************************************************************************)
(* What the attack command does before the attack starts: attack() checks  *)
(* and opens what its flags name, returning at the first error, and builds *)
(* the Attacker by applying the functional options of NewAttacker one      *)
(* after the other, in a fixed order, to a default one.                    *)
(*                                                                         *)
(* The dial function of the transport is the sequence of its layers,       *)
(* outermost first.  Files and addresses are named by the flag they come   *)
(* from, "none" for the empty string.                                      *)
(***************************************************************************)
EXTENDS Integers, Sequences

CONSTANTS Flags,   \* the records of flags to consider
          Faults   \* the checks that may fail

\* The fields of attackOpts.
ASSUME OptionsAssumption ==
  Flags \subseteq [insecure : BOOLEAN, cert : {"none", "cert"}, key : {"none", "key"},
                   http2 : BOOLEAN, keepalive : BOOLEAN, h2c : BOOLEAN,
                   unix : BOOLEAN, dns : {"off", "forever", "ttl"},
                   connectTo : BOOLEAN, tickets : BOOLEAN]

VARIABLES flags,   \* the flags given
          fault,   \* the check that fails, "none" if all succeed
          step,    \* the next check or option
          status,  \* "setup", "running", "refused" or "panic"
          output,  \* whether the file of -output was truncated
          atk      \* the Attacker

setupVars == <<flags, fault, step, status, output, atk>>

-----------------------------------------------------------------------------
Checks == <<"rate", "resolvers", "files", "body", "format", "targets",
            "output", "tls", "exporter">>

OptionOrder ==
  <<"Redirects", "Timeout", "LocalAddr", "TLSConfig", "Workers",
    "MaxWorkers", "KeepAlive", "Connections", "MaxConnections", "HTTP2",
    "H2C", "MaxBody", "UnixSocket", "ProxyHeader", "ChunkedBody",
    "DNSCaching", "ConnectTo", "SessionTickets">>

\* tlsConfig: the key is read from the certificate's file when no other is
\* given, and a key without a certificate is ignored.
TLS ==
  [insecure |-> flags.insecure,
   cert |-> flags.cert,
   key |-> IF flags.cert = "none" THEN "none"
           ELSE IF flags.key = "none" THEN flags.cert ELSE flags.key]

\* The fields of the Attacker and its client, and those of the transport.
Fields == {"Redirects", "Timeout", "Workers", "MaxWorkers", "MaxBody",
           "ChunkedBody"}
TransportFields == {"Connections", "MaxConnections"}

NewAttacker ==
  [fields |-> [f \in Fields |-> "default"],
   tr |-> [f \in TransportFields |-> "default"],
   tls |-> [insecure |-> FALSE, cert |-> "none", key |-> "none"],
   transport |-> "http",
   dial |-> <<"net">>,
   laddr |-> "default",
   keepalive |-> TRUE,
   http2 |-> FALSE,
   proxyHeader |-> FALSE,
   tickets |-> FALSE,
   refresh |-> FALSE]

IsHTTP(a) == a.transport = "http"

LocalAddr(a) == [a EXCEPT !.laddr = "flag", !.dial = <<"net">>]

KeepAlive(a) ==
  IF flags.keepalive THEN a ELSE [a EXCEPT !.keepalive = FALSE, !.dial = <<"net">>]

\* The h2c transport keeps the dial function of the one it replaces.
H2C(a) == IF flags.h2c THEN [a EXCEPT !.transport = "h2c"] ELSE a

UnixSocket(a) ==
  IF flags.unix /\ IsHTTP(a) THEN [a EXCEPT !.dial = <<"unix">>] ELSE a

ProxyHeader(a) == IF IsHTTP(a) THEN [a EXCEPT !.proxyHeader = TRUE] ELSE a

DNSCaching(a) ==
  IF flags.dns # "off" /\ IsHTTP(a)
  THEN [a EXCEPT !.dial = <<"dns">> \o @, !.refresh = (flags.dns = "ttl")]
  ELSE a

\* Mutant: the addresses are translated after the names are resolved.
ConnectToInside(a) ==
  IF flags.connectTo /\ IsHTTP(a)
  THEN [a EXCEPT !.dial = SubSeq(@, 1, Len(@) - 1) \o <<"connectTo", @[Len(@)]>>]
  ELSE a

ConnectTo(a) ==
  IF flags.connectTo /\ IsHTTP(a)
  THEN [a EXCEPT !.dial = <<"connectTo">> \o @]
  ELSE a

\* One option applied to the attacker.
Option(name, a) ==
  CASE name \in Fields -> [a EXCEPT !.fields[name] = "flag"]
    [] name \in TransportFields -> [a EXCEPT !.tr[name] = "flag"]
    [] name = "TLSConfig" -> [a EXCEPT !.tls = TLS]
    [] name = "LocalAddr" -> LocalAddr(a)
    [] name = "KeepAlive" -> KeepAlive(a)
    [] name = "HTTP2" -> [a EXCEPT !.http2 = flags.http2]
    [] name = "H2C" -> H2C(a)
    [] name = "UnixSocket" -> UnixSocket(a)
    [] name = "ProxyHeader" -> ProxyHeader(a)
    [] name = "DNSCaching" -> DNSCaching(a)
    [] name = "ConnectTo" -> ConnectTo(a)
    [] name = "SessionTickets" -> [a EXCEPT !.tickets = flags.tickets]

\* The options that assert the type of the transport without checking it.
Asserting(name) ==
  \/ name \in TransportFields \cup
       {"TLSConfig", "LocalAddr", "KeepAlive", "HTTP2", "H2C"}
  \/ name = "SessionTickets" /\ flags.tickets

-----------------------------------------------------------------------------
SetupInit ==
  /\ flags \in Flags
  /\ fault \in Faults \cup {"none"}
  /\ step = 1
  /\ status = "setup"
  /\ output = FALSE
  /\ atk = NewAttacker

Check ==
  /\ status = "setup"
  /\ step <= Len(Checks)
  /\ IF fault = Checks[step]
     THEN status' = "refused" /\ UNCHANGED <<step, output>>
     ELSE /\ output' = (output \/ Checks[step] = "output")
          /\ step' = step + 1
          /\ UNCHANGED status
  /\ UNCHANGED <<flags, fault, atk>>

ApplyOption ==
  LET k == step - Len(Checks)
  IN /\ status = "setup"
     /\ k \in 1..Len(OptionOrder)
     /\ IF Asserting(OptionOrder[k]) /\ ~IsHTTP(atk)
        THEN status' = "panic" /\ UNCHANGED <<step, atk>>
        ELSE /\ atk' = Option(OptionOrder[k], atk)
             /\ step' = step + 1
             /\ status' = IF k = Len(OptionOrder) THEN "running" ELSE status
     /\ UNCHANGED <<flags, fault, output>>

SetupNext == Check \/ ApplyOption

-----------------------------------------------------------------------------
SetUp == step > Len(Checks) + Len(OptionOrder)
Wanted ==
  (IF flags.connectTo THEN <<"connectTo">> ELSE <<>>)
    \o (IF flags.dns # "off" THEN <<"dns">> ELSE <<>>)
    \o (IF flags.unix THEN <<"unix">> ELSE <<"net">>)

(* No option undoes another: with any flags but -h2c the attacker dials    *)
(* through all the layers asked for, address translation before name       *)
(* resolution (the comment of ConnectTo: "it must be used after it") and   *)
(* the socket last, although LocalAddr, KeepAlive and UnixSocket replace   *)
(* the dial function.  Only -h2c with -session-tickets panics, and the     *)
(* results of an earlier attack are truncated by an attack that is refused *)
(* only for its certificates or its exporter.                              *)
SetUpSound ==
  /\ status = "running" =>
       /\ atk.laddr = "flag"
       /\ atk.keepalive = flags.keepalive
       /\ atk.tickets = flags.tickets
       /\ ~flags.h2c => atk.dial = Wanted
  /\ status = "panic" /\ ~SetUp => flags.h2c /\ flags.tickets
  /\ status = "refused" /\ output => fault \in {"tls", "exporter"}

=============================================================================
