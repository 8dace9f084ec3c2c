----------------------------- MODULE DialProofs -----------------------------
(***************************************************************************)
(* Proofs about Options and Dial: whatever the flags, the check that fails *)
(* and the interleaving of the dials, the attacker is set up as asked, a   *)
(* dial goes where its request may go and returns what its attempts found. *)
(***************************************************************************)
EXTENDS Dial, FiniteSetTheorems, SequenceTheorems, WellFoundedInduction, TLAPS

(***************************************************************************)
(* The set-up.                                                             *)
(***************************************************************************)
LayerNames == {"connectTo", "dns", "unix", "net"}

(* The Attackers the options make.                                         *)
Attackers ==
  [fields : [Fields -> {"default", "flag"}],
   tr : [TransportFields -> {"default", "flag"}],
   tls : [insecure : BOOLEAN, cert : {"none", "cert"},
          key : {"none", "cert", "key"}],
   transport : {"http", "h2c"},
   dial : Seq(LayerNames),
   laddr : {"default", "flag"},
   keepalive : BOOLEAN,
   http2 : BOOLEAN,
   proxyHeader : BOOLEAN,
   tickets : BOOLEAN,
   refresh : BOOLEAN]

(* The state of the command.                                               *)
SetupType ==
  /\ flags \in Flags
  /\ step \in 1..28
  /\ status \in {"setup", "running", "refused", "panic"}
  /\ output \in BOOLEAN
  /\ atk \in Attackers

(* How far the set-up has come in each status.                             *)
StepInv ==
  /\ output => step > 7
  /\ status = "setup" => step <= 27
  /\ status = "running" => step = 28
  /\ status = "refused" => step <= 9 /\ fault = Checks[step]
  /\ status = "panic" /\ step <= 27 => flags.h2c /\ flags.tickets

(* The dial function of the transport, layer by layer, before step s.      *)
Layers(s) ==
  LET base == IF s > 22 /\ flags.unix THEN <<"unix">> ELSE <<"net">>
      names == IF s > 25 /\ flags.dns # "off" THEN <<"dns">> \o base ELSE base
  IN IF s > 26 /\ flags.connectTo THEN <<"connectTo">> \o names ELSE names

(* What the options applied so far have made of the Attacker.              *)
OptionInv ==
  /\ atk.transport = "h2c" <=> step > 20 /\ flags.h2c
  /\ step > 12 => atk.laddr = "flag"
  /\ step <= 16 => atk.keepalive
  /\ step > 16 => (atk.keepalive <=> flags.keepalive)
  /\ step > 27 => atk.tickets = flags.tickets
  /\ ~flags.h2c => atk.dial = Layers(step)

SetupInv == SetupType /\ StepInv /\ OptionInv

-----------------------------------------------------------------------------
(* The checks and the options, by number.                                  *)
LEMMA Numbered ==
  /\ Len(Checks) = 9
  /\ Len(OptionOrder) = 18
  /\ Checks[7] = "output" /\ Checks[8] = "tls" /\ Checks[9] = "exporter"
  /\ \A k \in 1..6 : Checks[k] # "output"
  /\ OptionOrder[1] = "Redirects" /\ OptionOrder[2] = "Timeout"
  /\ OptionOrder[3] = "LocalAddr" /\ OptionOrder[4] = "TLSConfig"
  /\ OptionOrder[5] = "Workers" /\ OptionOrder[6] = "MaxWorkers"
  /\ OptionOrder[7] = "KeepAlive" /\ OptionOrder[8] = "Connections"
  /\ OptionOrder[9] = "MaxConnections" /\ OptionOrder[10] = "HTTP2"
  /\ OptionOrder[11] = "H2C" /\ OptionOrder[12] = "MaxBody"
  /\ OptionOrder[13] = "UnixSocket" /\ OptionOrder[14] = "ProxyHeader"
  /\ OptionOrder[15] = "ChunkedBody" /\ OptionOrder[16] = "DNSCaching"
  /\ OptionOrder[17] = "ConnectTo" /\ OptionOrder[18] = "SessionTickets"
BY DEF Checks, OptionOrder

(* An Attacker made of parts of the right type.                            *)
LEMMA MadeOfParts ==
  ASSUME NEW f \in [Fields -> {"default", "flag"}],
         NEW tr \in [TransportFields -> {"default", "flag"}],
         NEW tls \in [insecure : BOOLEAN, cert : {"none", "cert"},
                      key : {"none", "cert", "key"}],
         NEW dial \in Seq(LayerNames)
  PROVE  [fields |-> f, tr |-> tr, tls |-> tls, transport |-> "http",
          dial |-> dial, laddr |-> "default", keepalive |-> TRUE,
          http2 |-> FALSE, proxyHeader |-> FALSE, tickets |-> FALSE,
          refresh |-> FALSE] \in Attackers
BY DEF Attackers

(* The default Attacker.                                                   *)
LEMMA SetupStarts ==
  ASSUME SetupInit
  PROVE  SetupInv
<1> USE DEF SetupInit
<1>1. SetupType
  <2>1. <<"net">> \in Seq(LayerNames)
    BY DEF LayerNames
  <2>2. /\ [f \in Fields |-> "default"] \in [Fields -> {"default", "flag"}]
        /\ [f \in TransportFields |-> "default"]
             \in [TransportFields -> {"default", "flag"}]
    OBVIOUS
  <2>3. [insecure |-> FALSE, cert |-> "none", key |-> "none"]
          \in [insecure : BOOLEAN, cert : {"none", "cert"},
               key : {"none", "cert", "key"}]
    OBVIOUS
  <2>4. NewAttacker \in Attackers
    BY <2>1, <2>2, <2>3, MadeOfParts, Zenon DEF NewAttacker
  <2>5. step \in 1..28
    OBVIOUS
  <2>6. QED
    BY <2>4, <2>5, Zenon DEF SetupType
<1>2. StepInv
  BY DEF StepInv
<1>3. OptionInv
  BY OptionsAssumption DEF OptionInv, NewAttacker, Layers
<1>4. QED
  BY <1>1, <1>2, <1>3 DEF SetupInv

(* A check moves on, or refuses the attack and stays where it failed.      *)
LEMMA CheckStep ==
  ASSUME SetupInv, Check
  PROVE  SetupInv'
<1> USE Numbered DEF SetupInv, Check
<1>1. step \in 1..9 /\ status = "setup"
  BY DEF SetupType
<1>2. CASE fault = Checks[step]
  BY <1>1, <1>2 DEF SetupType, StepInv, OptionInv, Layers
<1>3. CASE fault # Checks[step]
  <2>1. step' = step + 1 /\ step' \in 2..10 /\ status' = "setup"
    BY <1>1, <1>3
  <2>2. SetupType'
    BY <1>1, <1>3, <2>1 DEF SetupType
  <2>3. StepInv'
    BY <1>1, <1>3, <2>1 DEF StepInv, SetupType
  <2>4. OptionInv'
    BY <1>1, <1>3, <2>1 DEF OptionInv, Layers
  <2>5. QED
    BY <2>2, <2>3, <2>4
<1>4. QED
  BY <1>2, <1>3

(* The fields the invariant speaks of.                                     *)
SameDialing(a, b) ==
  /\ a.transport = b.transport
  /\ a.dial = b.dial
  /\ a.laddr = b.laddr
  /\ a.keepalive = b.keepalive
  /\ a.tickets = b.tickets

(* Most options set one field that has no part in dialing.                 *)
LEMMA PlainOptions ==
  ASSUME SetupType,
         NEW name \in Fields \cup TransportFields
                        \cup {"TLSConfig", "HTTP2", "ProxyHeader"}
  PROVE  /\ Option(name, atk) \in Attackers
         /\ SameDialing(Option(name, atk), atk)
<1> USE DEF SetupType, Attackers, SameDialing, TransportFields, Fields
<1>1. CASE name \in Fields
  <2>1. Option(name, atk) = [atk EXCEPT !.fields[name] = "flag"]
    BY <1>1 DEF Option
  <2>2. [atk.fields EXCEPT ![name] = "flag"] \in [Fields -> {"default", "flag"}]
    BY <1>1
  <2>3. QED
    BY <2>1, <2>2
<1>2. CASE name \in TransportFields
  <2>1. Option(name, atk) = [atk EXCEPT !.tr[name] = "flag"]
    BY <1>2 DEF Option
  <2>2. [atk.tr EXCEPT ![name] = "flag"] \in [TransportFields -> {"default", "flag"}]
    BY <1>2
  <2>3. QED
    BY <2>1, <2>2
<1>3. CASE name = "TLSConfig"
  <2>1. Option(name, atk) = [atk EXCEPT !.tls = TLS]
    BY <1>3 DEF Option
  <2>2. TLS \in [insecure : BOOLEAN, cert : {"none", "cert"},
                 key : {"none", "cert", "key"}]
    BY OptionsAssumption DEF TLS
  <2>3. QED
    BY <1>3, <2>1, <2>2
<1>4. CASE name = "HTTP2"
  <2>1. Option(name, atk) = [atk EXCEPT !.http2 = flags.http2]
    BY <1>4 DEF Option
  <2>2. flags.http2 \in BOOLEAN
    BY OptionsAssumption
  <2>3. QED
    BY <1>4, <2>1, <2>2
<1>5. CASE name = "ProxyHeader"
  <2>1. Option(name, atk) = ProxyHeader(atk)
    BY <1>5 DEF Option
  <2>2. CASE IsHTTP(atk)
    <3>1. Option(name, atk) = [atk EXCEPT !.proxyHeader = TRUE]
      BY <2>1, <2>2 DEF ProxyHeader
    <3>2. QED
      BY <3>1
  <2>3. CASE ~IsHTTP(atk)
    BY <2>1, <2>3 DEF ProxyHeader
  <2>4. QED
    BY <2>2, <2>3
<1>6. QED
  BY <1>1, <1>2, <1>3, <1>4, <1>5

(* The other options.                                                      *)
LEMMA DialingOptions ==
  /\ Option("LocalAddr", atk) = LocalAddr(atk)
  /\ Option("KeepAlive", atk) = KeepAlive(atk)
  /\ Option("H2C", atk) = H2C(atk)
  /\ Option("UnixSocket", atk) = UnixSocket(atk)
  /\ Option("DNSCaching", atk) = DNSCaching(atk)
  /\ Option("ConnectTo", atk) = ConnectTo(atk)
  /\ Option("SessionTickets", atk) = [atk EXCEPT !.tickets = flags.tickets]
BY DEF Option, Fields, TransportFields

(* The options that change how the attacker dials: which they are, and     *)
(* that the others are plain.                                              *)
Dialing == {3, 7, 11, 13, 16, 17, 18}

LEMMA PlainOrder ==
  \A k \in (1..18) \ Dialing :
    OptionOrder[k] \in Fields \cup TransportFields
                         \cup {"TLSConfig", "HTTP2", "ProxyHeader"}
<1> SUFFICES ASSUME NEW k \in (1..18) \ Dialing
             PROVE  OptionOrder[k] \in Fields \cup TransportFields
                                 \cup {"TLSConfig", "HTTP2", "ProxyHeader"}
  OBVIOUS
<1>1. k \in {1, 2, 4, 5, 6, 8, 9, 10, 12, 14, 15}
  BY DEF Dialing
<1>2. QED
  BY <1>1, Numbered DEF Fields, TransportFields

(* The layers that options put in front of others or in their place.       *)
LEMMA LayerSeqs ==
  /\ <<"net">> \in Seq(LayerNames) /\ <<"unix">> \in Seq(LayerNames)
  /\ <<"dns">> \in Seq(LayerNames) /\ <<"connectTo">> \in Seq(LayerNames)
BY DEF LayerNames

(* The options set fields and replace the dial function.                   *)
LEMMA Redialed ==
  ASSUME SetupType, NEW d \in Seq(LayerNames), NEW r \in BOOLEAN
  PROVE  /\ [atk EXCEPT !.laddr = "flag", !.dial = d] \in Attackers
         /\ [atk EXCEPT !.keepalive = FALSE, !.dial = d] \in Attackers
         /\ [atk EXCEPT !.dial = d] \in Attackers
         /\ [atk EXCEPT !.dial = d, !.refresh = r] \in Attackers
         /\ [atk EXCEPT !.transport = "h2c"] \in Attackers
         /\ [atk EXCEPT !.tickets = r] \in Attackers
BY DEF SetupType, Attackers

(* So each option that is about dialing makes an Attacker.                 *)
LEMMA Refitted ==
  ASSUME SetupType
  PROVE  /\ [atk EXCEPT !.laddr = "flag", !.dial = <<"net">>] \in Attackers
         /\ [atk EXCEPT !.keepalive = FALSE, !.dial = <<"net">>] \in Attackers
         /\ [atk EXCEPT !.transport = "h2c"] \in Attackers
         /\ [atk EXCEPT !.dial = <<"unix">>] \in Attackers
         /\ [atk EXCEPT !.tickets = flags.tickets] \in Attackers
         /\ [atk EXCEPT !.dial = <<"dns">> \o atk.dial, !.refresh = (flags.dns = "ttl")]
              \in Attackers
         /\ [atk EXCEPT !.dial = <<"connectTo">> \o atk.dial] \in Attackers
<1>1. PICK d : d = <<"dns">> \o atk.dial
  OBVIOUS
<1>2. PICK e : e = <<"connectTo">> \o atk.dial
  OBVIOUS
<1>3. PICK r \in BOOLEAN : r = (flags.dns = "ttl")
  OBVIOUS
<1>4. d \in Seq(LayerNames) /\ e \in Seq(LayerNames)
  BY <1>1, <1>2, LayerSeqs DEF SetupType, Attackers
<1>5. /\ [atk EXCEPT !.dial = d, !.refresh = r] \in Attackers
      /\ [atk EXCEPT !.dial = e] \in Attackers
  BY <1>4, Redialed
<1>6. /\ [atk EXCEPT !.laddr = "flag", !.dial = <<"net">>] \in Attackers
      /\ [atk EXCEPT !.keepalive = FALSE, !.dial = <<"net">>] \in Attackers
      /\ [atk EXCEPT !.transport = "h2c"] \in Attackers
      /\ [atk EXCEPT !.dial = <<"unix">>] \in Attackers
  BY <1>3, LayerSeqs, Redialed
<1>7. [atk EXCEPT !.tickets = flags.tickets] \in Attackers
  <2>1. PICK b \in BOOLEAN : b = flags.tickets
    BY OptionsAssumption DEF SetupType
  <2>2. [atk EXCEPT !.tickets = b] \in Attackers
    BY <1>4, <2>1, Redialed
  <2>3. QED
    BY <2>1, <2>2
<1>8. QED
  BY <1>1, <1>2, <1>3, <1>5, <1>6, <1>7

(* The layers before and after the options that add one.                   *)
LEMMA LayersAdded ==
  /\ flags.dns # "off" => Layers(26) = <<"dns">> \o Layers(25)
  /\ flags.connectTo => Layers(27) = <<"connectTo">> \o Layers(26)
  /\ flags.dns = "off" => Layers(26) = Layers(25)
  /\ ~flags.connectTo => Layers(27) = Layers(26)
BY DEF Layers

(* Once the transport is that of h2c, only the session tickets assert that *)
(* it is not.                                                              *)
LEMMA LateAsserts ==
  ASSUME SetupInv, NEW k \in 12..18, Asserting(OptionOrder[k])
  PROVE  k = 18 /\ flags.tickets
BY Numbered DEF Asserting, TransportFields

LEMMA OptionStep ==
  ASSUME SetupInv, ApplyOption
  PROVE  SetupInv'
<1> DEFINE k == step - 9
           name == OptionOrder[k]
<1> USE DEF SetupInv
<1>1. /\ status = "setup" /\ step \in 10..27 /\ k \in 1..18
      /\ flags' = flags /\ fault' = fault /\ output' = output
  BY Numbered DEF ApplyOption, SetupType
<1>2. CASE Asserting(name) /\ ~IsHTTP(atk)
  <2>1. status' = "panic" /\ step' = step /\ atk' = atk
    BY <1>2, Numbered DEF ApplyOption
  <2>2. step > 20 /\ flags.h2c
    BY <1>1, <1>2 DEF IsHTTP, OptionInv, SetupType, Attackers
  <2>3. k \in 12..18
    BY <1>1, <2>2
  <2>4. flags.tickets
    BY <1>2, <2>3, LateAsserts
  <2>5. SetupType'
    BY <1>1, <2>1 DEF SetupType
  <2>6. StepInv' /\ OptionInv'
    BY <1>1, <2>1, <2>2, <2>4 DEF StepInv, OptionInv, Layers
  <2>7. QED
    BY <2>5, <2>6
<1>3. CASE ~(Asserting(name) /\ ~IsHTTP(atk))
  <2>1. /\ atk' = Option(name, atk)
        /\ step' = step + 1
        /\ status' = IF k = 18 THEN "running" ELSE "setup"
    BY <1>1, <1>3, Numbered DEF ApplyOption
  <2>2. atk' \in Attackers => SetupType' /\ StepInv'
    <3>1. step' \in 11..28 /\ (status' = "running" <=> step' = 28)
      BY <1>1, <2>1
    <3>2. atk' \in Attackers => SetupType'
      BY <1>1, <2>1, <3>1 DEF SetupType
    <3>3. StepInv'
      BY <1>1, <2>1, <3>1 DEF StepInv
    <3>4. QED
      BY <3>2, <3>3
  <2>3. atk' \in Attackers /\ OptionInv'
    <3> HIDE DEF name
    <3> USE OptionsAssumption, <1>1, <2>1, DialingOptions, Numbered
    <3> DEFINE SameButDial ==
          /\ atk'.transport = atk.transport
          /\ atk'.laddr = atk.laddr
          /\ atk'.keepalive = atk.keepalive
    <3>1. CASE k \notin Dialing
      <4>1. atk' \in Attackers /\ SameDialing(atk', atk)
        BY <3>1, PlainOrder, PlainOptions DEF name
      <4>2. QED
        BY <3>1, <4>1 DEF SameDialing, Dialing, OptionInv, Layers
    <3>2. CASE k = 3
      <4>1. atk' = [atk EXCEPT !.laddr = "flag", !.dial = <<"net">>]
        BY <3>2 DEF name, LocalAddr
      <4>2. atk' \in Attackers
        BY <4>1, Refitted
      <4>3. /\ atk'.laddr = "flag" /\ atk'.dial = <<"net">>
            /\ atk'.transport = atk.transport /\ atk'.keepalive = atk.keepalive
        BY <4>1 DEF SetupType, Attackers
      <4>4. QED
        BY <3>2, <4>2, <4>3 DEF OptionInv, Layers
    <3>3. CASE k = 7
      <4>1. CASE flags.keepalive
        <5>1. atk' = atk
          BY <3>3, <4>1 DEF name, KeepAlive
        <5>2. QED
          BY <3>3, <4>1, <5>1 DEF SetupType, OptionInv, Layers
      <4>2. CASE ~flags.keepalive
        <5>1. atk' = [atk EXCEPT !.keepalive = FALSE, !.dial = <<"net">>]
          BY <3>3, <4>2 DEF name, KeepAlive
        <5>2. atk' \in Attackers
          BY <5>1, Refitted
        <5>3. /\ ~atk'.keepalive /\ atk'.dial = <<"net">>
              /\ atk'.transport = atk.transport /\ atk'.laddr = atk.laddr
          BY <5>1 DEF SetupType, Attackers
        <5>4. QED
          BY <3>3, <4>2, <5>2, <5>3 DEF OptionInv, Layers
      <4>3. QED
        BY <4>1, <4>2
    <3>4. CASE k = 11
      <4>1. CASE flags.h2c
        <5>1. atk' = [atk EXCEPT !.transport = "h2c"]
          BY <3>4, <4>1 DEF name, H2C
        <5>2. atk' \in Attackers
          BY <5>1, Refitted
        <5>3. /\ atk'.transport = "h2c"
              /\ atk'.keepalive = atk.keepalive /\ atk'.laddr = atk.laddr
          BY <5>1 DEF SetupType, Attackers
        <5>4. QED
          BY <3>4, <4>1, <5>2, <5>3 DEF OptionInv
      <4>2. CASE ~flags.h2c
        <5>1. atk' = atk
          BY <3>4, <4>2 DEF name, H2C
        <5>2. QED
          BY <3>4, <4>2, <5>1 DEF SetupType, OptionInv, Layers
      <4>3. QED
        BY <4>1, <4>2
    <3>5. CASE k = 13
      <4>1. CASE flags.unix /\ IsHTTP(atk)
        <5>1. atk' = [atk EXCEPT !.dial = <<"unix">>]
          BY <3>5, <4>1 DEF name, UnixSocket
        <5>2. atk' \in Attackers
          BY <5>1, Refitted
        <5>3. atk'.dial = <<"unix">> /\ SameButDial
          BY <5>1 DEF SetupType, Attackers
        <5>4. QED
          BY <3>5, <4>1, <5>2, <5>3 DEF OptionInv, Layers
      <4>2. CASE ~(flags.unix /\ IsHTTP(atk))
        <5>1. atk' = atk
          BY <3>5, <4>2 DEF name, UnixSocket
        <5>2. ~flags.unix \/ flags.h2c
          BY <4>2 DEF IsHTTP, OptionInv, SetupType, Attackers
        <5>3. QED
          BY <3>5, <5>1, <5>2 DEF SetupType, OptionInv, Layers
      <4>3. QED
        BY <4>1, <4>2
    <3>6. CASE k = 16
      <4>1. CASE flags.dns # "off" /\ IsHTTP(atk)
        <5>1. atk' = [atk EXCEPT !.dial = <<"dns">> \o atk.dial,
                                 !.refresh = (flags.dns = "ttl")]
          BY <3>6, <4>1 DEF name, DNSCaching
        <5>2. SetupType
          OBVIOUS
        <5>3. atk' \in Attackers
          BY <5>1, <5>2, Refitted
        <5>4. atk'.dial = <<"dns">> \o atk.dial /\ SameButDial
          BY <5>1 DEF SetupType, Attackers
        <5>5. step = 25 /\ step' = 26
          BY <3>6
        <5>6. Layers(step)' = Layers(26)
          BY <5>5 DEF Layers
        <5>7. Layers(26) = <<"dns">> \o Layers(25)
          BY <4>1, LayersAdded
        <5>8. ~flags.h2c => atk'.dial = Layers(step)'
          <6> SUFFICES ASSUME ~flags.h2c
                       PROVE  atk'.dial = Layers(26)
            BY <5>6
          <6>1. atk.dial = Layers(25)
            BY <5>5 DEF OptionInv
          <6>2. QED
            BY <5>4, <5>7, <6>1, SMTT(60)
        <5>9. QED
          BY <5>3, <5>4, <5>5, <5>8, SMTT(30) DEF OptionInv
      <4>2. CASE ~(flags.dns # "off" /\ IsHTTP(atk))
        <5>1. atk' = atk
          BY <3>6, <4>2 DEF name, DNSCaching
        <5>2. flags.dns = "off" \/ flags.h2c
          BY <4>2 DEF IsHTTP, OptionInv, SetupType, Attackers
        <5>3. QED
          BY <3>6, <5>1, <5>2 DEF SetupType, OptionInv, Layers
      <4>3. QED
        BY <4>1, <4>2
    <3>7. CASE k = 17
      <4>1. CASE flags.connectTo /\ IsHTTP(atk)
        <5>1. atk' = [atk EXCEPT !.dial = <<"connectTo">> \o atk.dial]
          BY <3>7, <4>1 DEF name, ConnectTo
        <5>2. SetupType
          OBVIOUS
        <5>3. atk' \in Attackers
          BY <5>1, <5>2, Refitted
        <5>4. atk'.dial = <<"connectTo">> \o atk.dial /\ SameButDial
          BY <5>1 DEF SetupType, Attackers
        <5>5. step = 26 /\ step' = 27
          BY <3>7
        <5>6. Layers(step)' = Layers(27)
          BY <5>5 DEF Layers
        <5>7. Layers(27) = <<"connectTo">> \o Layers(26)
          BY <4>1, LayersAdded
        <5>8. ~flags.h2c => atk'.dial = Layers(step)'
          <6> SUFFICES ASSUME ~flags.h2c
                       PROVE  atk'.dial = Layers(27)
            BY <5>6
          <6>1. atk.dial = Layers(26)
            BY <5>5 DEF OptionInv
          <6>2. QED
            BY <5>4, <5>7, <6>1, SMTT(60)
        <5>9. QED
          BY <5>3, <5>4, <5>5, <5>8, SMTT(30) DEF OptionInv
      <4>2. CASE ~(flags.connectTo /\ IsHTTP(atk))
        <5>1. atk' = atk
          BY <3>7, <4>2 DEF name, ConnectTo
        <5>2. ~flags.connectTo \/ flags.h2c
          BY <4>2 DEF IsHTTP, OptionInv, SetupType, Attackers
        <5>3. QED
          BY <3>7, <5>1, <5>2 DEF SetupType, OptionInv, Layers
      <4>3. QED
        BY <4>1, <4>2
    <3>8. CASE k = 18
      <4>1. atk' = [atk EXCEPT !.tickets = flags.tickets]
        BY <3>8 DEF name
      <4>2. flags.tickets \in BOOLEAN
        BY DEF SetupType
      <4>3. atk' \in Attackers
        BY <4>1, Refitted
      <4>4. /\ atk'.tickets = flags.tickets /\ atk'.dial = atk.dial
            /\ atk'.transport = atk.transport /\ atk'.laddr = atk.laddr
            /\ atk'.keepalive = atk.keepalive
        BY <4>1 DEF SetupType, Attackers
      <4>5. QED
        BY <3>8, <4>3, <4>4 DEF OptionInv, Layers
    <3>9. QED
      BY <3>1, <3>2, <3>3, <3>4, <3>5, <3>6, <3>7, <3>8 DEF Dialing
  <2>4. QED
    BY <2>2, <2>3
<1>4. QED
  BY <1>2, <1>3

(***************************************************************************)
(* The choice of addresses.                                                *)
(***************************************************************************)
(* A nonempty set of indices has a smallest element.                       *)
LEMMA MinIsMember ==
  ASSUME NEW I \in SUBSET Nat, I # {}
  PROVE  Min(I) \in I
<1> DEFINE Less == {p \in Nat \X Nat : p[1] < p[2]}
<1>1. IsWellFoundedOn(Less, Nat)
  BY NatLessThanWellFounded, Zenon DEF OpToRel
<1>2. \E x \in I : \A y \in I : <<y, x>> \notin Less
  <2> HIDE DEF Less
  <2> QED
    BY <1>1, WFMin
<1>3. \A x, y \in Nat : <<y, x>> \notin Less => x =< y
  OBVIOUS
<1>4. \E x \in I : \A y \in I : x =< y
  <2> HIDE DEF Less
  <2> QED
    BY <1>2, <1>3
<1>5. QED
  BY <1>4 DEF Min

(* The first of each IP family: at most two addresses of the slice, two    *)
(* only of different families and none only if none of them parses.        *)
LEMMA EachFamily ==
  ASSUME NEW X, NEW s \in Seq(X)
  PROVE  LET each == FirstOfEachIPFamily(s)
         IN \/ each = <<>> /\ \A i \in DOMAIN s : ~Parses(s[i])
            \/ \E i \in DOMAIN s : each = <<s[i]>>
            \/ \E i, j \in DOMAIN s :
                 each = <<s[i], s[j]>> /\ s[i].family # s[j].family
<1> DEFINE I == {i \in 1..Len(s) : Parses(s[i])}
           i == SelectInSeq(s, Parses)
           J == {j \in 1..Len(s) : Parses(s[j]) /\ s[j].family # s[i].family}
           j == SelectInSeq(s, LAMBDA ip : Parses(ip) /\ ip.family # s[i].family)
<1>1. i = IF I # {} THEN Min(I) ELSE 0
  BY DEF SelectInSeq
<1>2. j = IF J # {} THEN Min(J) ELSE 0
  BY DEF SelectInSeq
<1>3. FirstOfEachIPFamily(s) = IF i = 0 THEN <<>>
                               ELSE IF j = 0 THEN <<s[i]>> ELSE <<s[i], s[j]>>
  BY DEF FirstOfEachIPFamily
<1> HIDE DEF i, j
<1>4. (i = 0 /\ \A k \in DOMAIN s : ~Parses(s[k])) \/ i \in DOMAIN s
  <2>1. I \in SUBSET Nat /\ DOMAIN s = 1..Len(s)
    OBVIOUS
  <2>2. I # {} => Min(I) \in I
    BY <2>1, MinIsMember
  <2>3. I # {} => i \in DOMAIN s
    BY <1>1, <2>1, <2>2
  <2>4. I = {} => i = 0 /\ \A k \in DOMAIN s : ~Parses(s[k])
    BY <1>1, <2>1
  <2>5. QED
    BY <2>3, <2>4
<1>5. j = 0 \/ (j \in DOMAIN s /\ s[j].family # s[i].family)
  <2>1. J \in SUBSET Nat
    OBVIOUS
  <2>2. J # {} => Min(J) \in J
    BY <2>1, MinIsMember
  <2>3. J # {} => j \in J
    BY <1>2, <2>2
  <2>4. QED
    BY <1>2, <2>3
<1>6. QED
  BY <1>3, <1>4, <1>5

(* The slice of an answer and its shuffles hold its addresses.             *)
LEMMA SliceOfAnswer ==
  ASSUME NEW all, IsFiniteSet(all)
  PROVE  SetToSeq(all) \in Seq(all)
<1>1. PICK f \in Bijection(1..Cardinality(all), all) : TRUE
  BY FS_CardinalityType DEF ExistsBijection
<1>2. f \in [1..Cardinality(all) -> all] /\ IsInjective(f)
  BY <1>1 DEF Bijection, Injection
<1>3. SetToSeq(all) \in [1..Cardinality(all) -> all]
  BY <1>2 DEF SetToSeq
<1>4. QED
  BY <1>3, FS_CardinalityType

LEMMA ShuffleOfSlice ==
  ASSUME NEW X, NEW t \in Seq(X), NEW s \in Shuffled(t)
  PROVE  s \in Seq(X) /\ Len(s) = Len(t)
<1>1. PICK p \in Bijection(DOMAIN t, DOMAIN t) : s = [k \in DOMAIN t |-> t[p[k]]]
  BY DEF Shuffled
<1>2. p \in [DOMAIN t -> DOMAIN t]
  BY <1>1 DEF Bijection, Injection
<1>3. DOMAIN t = 1..Len(t) /\ Len(t) \in Nat /\ \A k \in DOMAIN t : t[k] \in X
  OBVIOUS
<1>4. s \in [1..Len(t) -> X]
  BY <1>1, <1>2, <1>3
<1>5. QED
  BY <1>3, <1>4

(***************************************************************************)
(* The dials.                                                              *)
(***************************************************************************)
\* Before its address is translated, before it has looked up its addresses,
\* and all the places of a dial; the addresses the name server may give.
Early == {"idle", "mapRead", "mapWrite", "mapPick"}
Before == Early \cup {"lookup", "direct", "shuffle"}
Stages == Before \cup {"collect", "done"}
Attempts == {"dialing", "connected", "sent", "failed"}
Given(a) == UNION HostIPs[a]
IPs == UNION {Given(a) : a \in Addresses}

DialType ==
  /\ n \in [DOMAIN ConnectMap -> Nat]
  /\ stage \in [Dials -> Stages]
  /\ addr \in [Dials -> Addresses]
  /\ seen \in [Dials -> Nat]
  /\ ips \in [Dials -> Seq(IPs)]
  /\ att \in [Dials -> Seq(Attempts)]
  /\ ch \in [Dials -> Seq(Nat)]
  /\ got \in [Dials -> Nat]
  /\ conn \in [Dials -> Nat]
  /\ DOMAIN err = Dials

(* The index of an address is one of its list, whoever wrote it last, and  *)
(* the dials start once the attacker is set up.                            *)
MapInv ==
  /\ \A a \in DOMAIN ConnectMap : n[a] < Len(ConnectMap[a])
  /\ status = "setup" => \A d \in Dials : stage[d] = "idle"
  /\ status = "panic" /\ SetUp =>
       \E d, e \in Dials : d # e /\ stage[d] = "shuffle" /\ stage[e] = "shuffle"

(* Where a dial goes.                                                      *)
AddrInv(d) ==
  /\ stage[d] \in Early => addr[d] = Asked[d]
  /\ stage[d] \in Early \ {"idle"} =>
       Layer("connectTo") /\ addr[d] \in DOMAIN ConnectMap
  /\ stage[d] \notin Early => addr[d] \in Translated(Asked[d])
  /\ stage[d] \in {"lookup", "shuffle", "collect"} => Layer("dns")
  /\ stage[d] = "direct" => ~Layer("dns")

(* The addresses a dial found and those it attempts.                       *)
IpsInv(d) ==
  /\ stage[d] = "shuffle" =>
       ips[d] # <<>> /\ ToSet(ips[d]) \subseteq Given(addr[d])
  /\ stage[d] \in {"collect", "done"} =>
       /\ Len(att[d]) <= Len(ips[d])
       /\ \A k \in DOMAIN att[d] : ips[d][k] \in Given(addr[d])
       /\ Len(att[d]) = 2 =>
            \/ ips[d][1].family # ips[d][2].family
            \/ \E e \in Dials \ {d} : addr[e] = addr[d] /\ stage[e] \notin Early

(* The slices of the cache hold addresses of their hosts, whoever wrote    *)
(* there, and only another dial of its host writes to the slice of a dial. *)
CacheInv ==
  /\ cache \in [Addresses -> Seq(IPs)]
  /\ \A a \in Addresses : ToSet(cache[a]) \subseteq Given(a)
  /\ DOMAIN written = Dials
  /\ \A d \in Dials : written[d] # {} =>
       /\ stage[d] \notin Early
       /\ written[d] \subseteq Given(addr[d])
       /\ \E e \in Dials \ {d} : addr[e] = addr[d] /\ stage[e] \notin Early

(* The attempts that have sent their result.                               *)
Finished(d) == {k \in DOMAIN att[d] : att[d][k] \in {"sent", "failed"}}

(* Each of them is still in the channel or was received, and a connection  *)
(* that was received is not lost.                                          *)
CollectInv(d) ==
  /\ Cardinality(Finished(d)) = got[d] + Len(ch[d])
  /\ \A i \in DOMAIN ch[d] : ch[d][i] \in Finished(d)
  /\ conn[d] # 0 => /\ conn[d] \in DOMAIN att[d]
                    /\ att[d][conn[d]] = "sent"
                    /\ err[d] = "nil"
  /\ conn[d] = 0 => \A k \in DOMAIN att[d] : att[d][k] = "sent" =>
                      \E i \in DOMAIN ch[d] : ch[d][i] = k
  /\ conn[d] = 0 /\ err[d] = "nil" => got[d] = 0

ResultInv(d) ==
  /\ stage[d] \in Before =>
       att[d] = <<>> /\ ch[d] = <<>> /\ got[d] = 0 /\ conn[d] = 0 /\ err[d] = "nil"
  /\ stage[d] = "collect" => CollectInv(d) /\ got[d] < Len(att[d])
  /\ stage[d] = "done" =>
       /\ \A k \in DOMAIN att[d] : att[d][k] \in {"sent", "failed"}
       /\ Layer("dns") =>
            /\ conn[d] # 0 => att[d][conn[d]] = "sent" /\ err[d] = "nil"
            /\ conn[d] = 0 => \A k \in DOMAIN att[d] : att[d][k] = "failed"
            /\ conn[d] = 0 /\ err[d] = "nil" =>
                 att[d] = <<>> /\ \E ip \in Given(addr[d]) : ~Parses(ip)

DialsInv == \A d \in Dials : AddrInv(d) /\ IpsInv(d) /\ ResultInv(d)

DialInv == SetupInv /\ DialType /\ MapInv /\ DialsInv /\ CacheInv

-----------------------------------------------------------------------------
(* A step of dial x leaves the other dials alone, and x never goes back to *)
(* a translation or changes its address after it.                          *)
OnlyDial(x) ==
  /\ UNCHANGED <<flags, fault, step, output, atk>>
  /\ \A d \in Dials \ {x} :
       /\ stage'[d] = stage[d] /\ addr'[d] = addr[d] /\ ips'[d] = ips[d]
       /\ att'[d] = att[d] /\ ch'[d] = ch[d] /\ got'[d] = got[d]
       /\ conn'[d] = conn[d] /\ err'[d] = err[d]
  /\ stage[x] \notin Early => stage'[x] \notin Early /\ addr'[x] = addr[x]

LEMMA OthersKeep ==
  ASSUME DialInv, NEW x \in Dials, OnlyDial(x), NEW d \in Dials \ {x}
  PROVE  AddrInv(d)' /\ IpsInv(d)' /\ ResultInv(d)'
<1> USE DEF DialInv, DialsInv, OnlyDial
<1>1. AddrInv(d)'
  BY DEF AddrInv, Layer, Translated
<1>2. IpsInv(d)'
  <2>1. \A e \in Dials : stage[e] \notin Early =>
          stage'[e] \notin Early /\ addr'[e] = addr[e]
    OBVIOUS
  <2>2. IpsInv(d)
    OBVIOUS
  <2>3. QED
    BY <2>1, <2>2 DEF IpsInv
<1>5. addr'[d] = addr[d]
  OBVIOUS
<1>3. ResultInv(d)'
  <2>1. /\ ResultInv(d) /\ atk' = atk /\ stage'[d] = stage[d]
        /\ att'[d] = att[d] /\ ch'[d] = ch[d] /\ got'[d] = got[d]
        /\ conn'[d] = conn[d] /\ err'[d] = err[d]
    OBVIOUS
  <2> HIDE DEF DialInv, DialsInv, OnlyDial
  <2>2. CollectInv(d) => CollectInv(d)'
    BY <2>1 DEF CollectInv, Finished
  <2>3. QED
    BY <2>1, <2>2, <1>5 DEF ResultInv, Layer
<1>4. QED
  BY <1>1, <1>2, <1>3

(* A step that leaves the cache alone and does not move an address.        *)
LEMMA CacheKeeps ==
  ASSUME CacheInv, UNCHANGED <<cache, written>>,
         \A d \in Dials : stage[d] \notin Early =>
           stage'[d] \notin Early /\ addr'[d] = addr[d]
  PROVE  CacheInv'
<1>1. /\ cache' \in [Addresses -> Seq(IPs)] /\ DOMAIN written' = Dials
      /\ \A a \in Addresses : ToSet(cache'[a]) \subseteq Given(a)
  BY DEF CacheInv
<1>2. ASSUME NEW d \in Dials, written'[d] # {}
      PROVE  /\ stage'[d] \notin Early
             /\ written'[d] \subseteq Given(addr'[d])
             /\ \E e \in Dials \ {d} : addr'[e] = addr'[d] /\ stage'[e] \notin Early
  <2>1. /\ stage[d] \notin Early
        /\ written[d] \subseteq Given(addr[d])
        /\ \E e \in Dials \ {d} : addr[e] = addr[d] /\ stage[e] \notin Early
    BY <1>2 DEF CacheInv
  <2>2. QED
    BY <2>1
<1>3. QED
  BY <1>1, <1>2 DEF CacheInv

(* A step that may write addresses of a host to its slice.                 *)
LEMMA CacheWrites ==
  ASSUME CacheInv, NEW a \in Addresses, NEW s \in Seq(IPs), ToSet(s) \subseteq Given(a),
         cache' \in {cache, [cache EXCEPT ![a] = s]},
         DOMAIN written' = Dials,
         \A d \in Dials : written'[d] # {} =>
           /\ stage[d] \notin Early
           /\ written'[d] \subseteq Given(addr[d])
           /\ \E e \in Dials \ {d} : addr[e] = addr[d] /\ stage[e] \notin Early,
         \A d \in Dials : stage[d] \notin Early =>
           stage'[d] \notin Early /\ addr'[d] = addr[d]
  PROVE  CacheInv'
<1>1. /\ cache' \in [Addresses -> Seq(IPs)]
      /\ \A b \in Addresses : ToSet(cache'[b]) \subseteq Given(b)
  <2>1. CASE cache' = cache
    BY <2>1 DEF CacheInv
  <2>2. CASE cache' = [cache EXCEPT ![a] = s]
    <3>1. \A b \in Addresses : cache'[b] = IF b = a THEN s ELSE cache[b]
      BY <2>2 DEF CacheInv
    <3>2. cache' \in [Addresses -> Seq(IPs)]
      BY <2>2 DEF CacheInv
    <3>3. QED
      BY <3>1, <3>2 DEF CacheInv
  <2>3. QED
    BY <2>1, <2>2
<1>2. ASSUME NEW d \in Dials, written'[d] # {}
      PROVE  /\ stage'[d] \notin Early
             /\ written'[d] \subseteq Given(addr'[d])
             /\ \E e \in Dials \ {d} : addr'[e] = addr'[d] /\ stage'[e] \notin Early
  <2>1. /\ stage[d] \notin Early
        /\ written'[d] \subseteq Given(addr[d])
        /\ \E e \in Dials \ {d} : addr[e] = addr[d] /\ stage[e] \notin Early
    BY <1>2
  <2>2. QED
    BY <2>1
<1>3. QED
  BY <1>1, <1>2 DEF CacheInv

(* The slice of an answer.                                                 *)
LEMMA SliceGiven ==
  ASSUME NEW a \in Addresses, NEW all \in HostIPs[a]
  PROVE  SetToSeq(all) \in Seq(IPs) /\ ToSet(SetToSeq(all)) \subseteq Given(a)
<1>1. SetToSeq(all) \in Seq(all)
  BY DialAssumption, SliceOfAnswer
<1>2. all \subseteq Given(a) /\ Given(a) \subseteq IPs
  BY DEF Given, IPs
<1>3. QED
  BY <1>1, <1>2 DEF ToSet

(* While the dials run, the set-up is over: at most the command panics.    *)
LEMMA SetupOver ==
  ASSUME SetupInv, status = "running", status' \in {"running", "panic"},
         UNCHANGED <<flags, fault, step, output, atk>>
  PROVE  SetupInv'
BY DEF SetupInv, SetupType, StepInv, OptionInv, Layers

(* A step of the dials that leaves what the invariant speaks of.           *)
LEMMA DialsKeep ==
  ASSUME DialType /\ DialsInv, atk' = atk,
         UNCHANGED <<n, seen, stage, addr, ips, att, ch, got, conn, err>>
  PROVE  DialType' /\ DialsInv'
<1>1. DialType'
  BY DEF DialType
<1>2. ASSUME NEW d \in Dials
      PROVE  AddrInv(d)' /\ IpsInv(d)' /\ ResultInv(d)'
  <2>1. AddrInv(d) /\ IpsInv(d) /\ ResultInv(d)
    BY DEF DialsInv
  <2>2. AddrInv(d)'
    BY <2>1 DEF AddrInv, Layer, Translated
  <2>3. IpsInv(d)'
    BY <2>1 DEF IpsInv
  <2>4. ResultInv(d)'
    BY <2>1 DEF ResultInv, CollectInv, Finished, Layer
  <2>5. QED
    BY <2>2, <2>3, <2>4
<1>3. QED
  BY <1>1, <1>2 DEF DialsInv

(* The options may change the layers: no dial has started.                 *)
LEMMA SetupStep ==
  ASSUME DialInv, Setup
  PROVE  DialInv'
<1> USE DEF DialInv
<1>1. SetupInv'
  BY CheckStep, OptionStep DEF Setup, SetupNext
<1>2. /\ \A d \in Dials : stage[d] = "idle"
      /\ status # "running"
      /\ UNCHANGED <<n, seen, stage, addr, ips, att, ch, got, conn, err,
                     cache, written>>
  BY DEF Setup, SetupNext, Check, ApplyOption, MapInv, mapVars, dialVars, cacheVars
<1>3. DialType'
  BY <1>2 DEF DialType
<1>4. MapInv'
  <2>1. status' = "panic" => step' = step /\ step <= 27
    BY Numbered DEF Setup, SetupNext, Check, ApplyOption, SetupInv, SetupType
  <2>2. SetUp' => step' > 27
    BY Numbered DEF SetUp
  <2>3. ~(status' = "panic" /\ SetUp')
    BY <2>1, <2>2 DEF SetupInv, SetupType
  <2>4. QED
    BY <1>2, <2>3 DEF MapInv
<1>5. DialsInv'
  <2> SUFFICES ASSUME NEW d \in Dials
               PROVE  AddrInv(d)' /\ IpsInv(d)' /\ ResultInv(d)'
    BY DEF DialsInv
  <2>1. AddrInv(d) /\ ResultInv(d) /\ stage[d] = "idle"
    BY <1>2 DEF DialsInv
  <2>2. AddrInv(d)' /\ IpsInv(d)' /\ ResultInv(d)'
    BY <1>2, <2>1 DEF AddrInv, IpsInv, ResultInv, Before, Early
  <2>3. QED
    BY <2>2
<1>6. CacheInv'
  BY <1>2, CacheKeeps
<1>7. QED
  BY <1>1, <1>3, <1>4, <1>5, <1>6

(* What a step of dial x has to keep.                                      *)
LEMMA OneDial ==
  ASSUME DialInv, status = "running", status' = status,
         NEW x \in Dials, OnlyDial(x), DialType',
         \A a \in DOMAIN ConnectMap : n'[a] < Len(ConnectMap[a]),
         AddrInv(x)', IpsInv(x)', ResultInv(x)',
         UNCHANGED <<cache, written>> \/ CacheInv'
  PROVE  DialInv'
<1>1. SetupInv'
  BY SetupOver DEF DialInv, OnlyDial
<1>2. MapInv'
  BY DEF MapInv
<1>3. DialsInv'
  BY OthersKeep DEF DialsInv
<1>4. CacheInv'
  BY CacheKeeps DEF OnlyDial, DialInv
<1>5. QED
  BY <1>1, <1>2, <1>3, <1>4 DEF DialInv

(* A dial that has not come to its attempts.                               *)
LEMMA StaysBefore ==
  ASSUME DialInv, NEW x \in Dials, stage[x] \in Before, stage'[x] \in Before,
         att'[x] = att[x], ch'[x] = ch[x], got'[x] = got[x],
         conn'[x] = conn[x], err'[x] = err[x]
  PROVE  ResultInv(x)'
<1>1. ResultInv(x)
  BY DEF DialInv, DialsInv
<1>2. QED
  BY <1>1 DEF ResultInv, Before, Early

LEMMA StartStep ==
  ASSUME DialInv, status = "running", NEW d \in Dials, Start(d)
  PROVE  DialInv'
<1> USE DEF DialInv, Start, GoTo, Stages, Before, Early
<1>1. stage'[d] \in {"mapRead", "lookup", "direct"} /\ stage[d] = "idle"
  BY DEF AfterMap, DialType
<1>2. OnlyDial(d) /\ status' = status
  BY <1>1 DEF OnlyDial, DialType, setupVars
<1>3. DialType'
  BY <1>1 DEF DialType, mapVars
<1>4. AddrInv(d)'
  <2>1. addr[d] = Asked[d]
    BY <1>1 DEF DialsInv, AddrInv
  <2>2. stage'[d] = IF Layer("connectTo") /\ addr[d] \in DOMAIN ConnectMap
                    THEN "mapRead" ELSE AfterMap
    BY DEF DialType
  <2>3. ~(Layer("connectTo") /\ addr[d] \in DOMAIN ConnectMap) =>
          addr[d] \in Translated(addr[d])
    BY DEF Translated
  <2>4. Layer("connectTo")' = Layer("connectTo") /\ Layer("dns")' = Layer("dns")
    BY DEF Layer, setupVars
  <2>5. Translated(Asked[d])' = Translated(Asked[d])
    BY DEF Translated, Layer, setupVars
  <2>6. QED
    BY <2>1, <2>2, <2>3, <2>4, <2>5 DEF AddrInv, AfterMap
<1>5. IpsInv(d)'
  BY <1>1 DEF IpsInv
<1>6. ResultInv(d)'
  BY <1>1, StaysBefore
<1>7. QED
  BY <1>2, <1>3, <1>4, <1>5, <1>6, OneDial DEF MapInv, mapVars, cacheVars

LEMMA MapReadStep ==
  ASSUME DialInv, status = "running", NEW d \in Dials, MapRead(d)
  PROVE  DialInv'
<1> USE DEF DialInv, MapRead, GoTo, Stages, Before, Early
<1>1. stage'[d] = "mapWrite" /\ stage[d] = "mapRead"
  BY DEF DialType
<1>2. OnlyDial(d) /\ status' = status
  BY <1>1 DEF OnlyDial, DialType, setupVars
<1>3. addr[d] \in DOMAIN ConnectMap
  BY <1>1 DEF DialsInv, AddrInv
<1>4. DialType'
  BY <1>1, <1>3 DEF DialType
<1>5. AddrInv(d)'
  BY <1>1 DEF DialsInv, AddrInv, Layer, setupVars
<1>6. IpsInv(d)'
  BY <1>1 DEF IpsInv
<1>7. ResultInv(d)'
  BY <1>1, StaysBefore
<1>8. QED
  BY <1>2, <1>4, <1>5, <1>6, <1>7, OneDial DEF MapInv, cacheVars

(* The index that is stored is in range, stale or not.                     *)
LEMMA MapWriteStep ==
  ASSUME DialInv, status = "running", NEW d \in Dials, MapWrite(d)
  PROVE  DialInv'
<1> USE DEF DialInv, MapWrite, GoTo, Stages, Before, Early
<1>1. stage'[d] = "mapPick" /\ stage[d] = "mapWrite"
  BY DEF DialType
<1>2. OnlyDial(d) /\ status' = status
  BY <1>1 DEF OnlyDial, DialType, setupVars
<1>3. addr[d] \in DOMAIN ConnectMap
  BY <1>1 DEF DialsInv, AddrInv
<1>4. LET k == (seen[d] + 1) % Len(ConnectMap[addr[d]])
      IN k \in Nat /\ k < Len(ConnectMap[addr[d]])
  <2>1. Len(ConnectMap[addr[d]]) \in Nat /\ Len(ConnectMap[addr[d]]) > 0
    BY <1>3, DialAssumption
  <2>2. seen[d] \in Nat
    BY DEF DialType
  <2>3. QED
    BY <2>1, <2>2
<1>5. DialType' /\ \A a \in DOMAIN ConnectMap : n'[a] < Len(ConnectMap[a])
  BY <1>1, <1>3, <1>4 DEF DialType, MapInv
<1>6. AddrInv(d)'
  BY <1>1 DEF DialsInv, AddrInv, Layer, setupVars
<1>7. IpsInv(d)'
  BY <1>1 DEF IpsInv
<1>8. ResultInv(d)'
  BY <1>1, StaysBefore
<1>9. QED
  BY <1>2, <1>5, <1>6, <1>7, <1>8, OneDial DEF cacheVars

(* So the one that is read later does not panic.                           *)
LEMMA MapPickStep ==
  ASSUME DialInv, status = "running", NEW d \in Dials, MapPick(d)
  PROVE  DialInv'
<1> DEFINE to == ConnectMap[addr[d]]
           k == n[addr[d]] + 1
<1> USE DEF DialInv, GoTo, Stages, Before, Early
<1>1. /\ stage[d] = "mapPick" /\ addr[d] \in DOMAIN ConnectMap
      /\ addr[d] = Asked[d] /\ Layer("connectTo")
  BY DEF DialsInv, AddrInv, MapPick
<1>2. to \in Seq(Addresses) /\ k \in DOMAIN to
  BY <1>1, DialAssumption DEF MapInv, DialType
<1>3. /\ addr' = [addr EXCEPT ![d] = to[k]]
      /\ stage' = [stage EXCEPT ![d] = AfterMap]
      /\ seen' = [seen EXCEPT ![d] = 0]
      /\ status' = status
  BY <1>2 DEF MapPick
<1>4. /\ UNCHANGED <<flags, fault, step, output, atk, n, ips, att, ch, got,
                     conn, err, cache, written>>
      /\ stage'[d] \in {"lookup", "direct"}
  BY <1>3 DEF MapPick, cacheVars, DialType, AfterMap
<1>5. OnlyDial(d)
  BY <1>1, <1>3, <1>4 DEF OnlyDial, DialType
<1>6. DialType'
  BY <1>2, <1>3, <1>4, SMTT(60) DEF DialType
<1>7. AddrInv(d)'
  <2>1. addr'[d] = to[k] /\ stage'[d] = AfterMap
    BY <1>3 DEF DialType
  <2>2. to[k] \in Translated(addr[d])
    BY <1>1, <1>2 DEF Translated, ToSet
  <2>3. Layer("connectTo")' = Layer("connectTo") /\ Layer("dns")' = Layer("dns")
    BY <1>4 DEF Layer
  <2>4. Translated(Asked[d])' = Translated(Asked[d])
    BY <1>4 DEF Translated, Layer
  <2>5. QED
    BY <1>1, <2>1, <2>2, <2>3, <2>4 DEF AddrInv, AfterMap
<1>8. IpsInv(d)'
  BY <1>4 DEF IpsInv
<1>9. ResultInv(d)'
  BY <1>1, <1>4, StaysBefore
<1>10. QED
  BY <1>3, <1>4, <1>5, <1>6, <1>7, <1>8, <1>9, OneDial DEF MapInv

(* A dial that returns without attempts.                                   *)
LEMMA ReturnStep ==
  ASSUME DialInv, status = "running", NEW d \in Dials,
         stage[d] \in {"lookup", "direct"},
         NEW c \in Nat, NEW e, Return(d, c, e),
         stage[d] = "lookup" => c = 0 /\ e # "nil",
         UNCHANGED <<setupVars, mapVars, addr, ips, att, ch, got>>,
         UNCHANGED <<cache, written>> \/ CacheInv'
  PROVE  DialInv'
<1> USE DEF DialInv, Return, GoTo, Stages, Before, Early
<1>1. stage'[d] = "done" /\ conn'[d] = c /\ err'[d] = e
  BY DEF DialType
<1>2. OnlyDial(d) /\ status' = status
  BY <1>1 DEF OnlyDial, DialType, setupVars
<1>3. DialType'
  BY <1>1 DEF DialType, mapVars
<1>4. AddrInv(d)'
  <2>1. AddrInv(d)
    BY DEF DialsInv
  <2>2. QED
    BY <1>1, <2>1 DEF AddrInv, Layer, Translated, setupVars
<1>5. att'[d] = <<>> /\ got'[d] = 0
  BY DEF DialsInv, ResultInv
<1>6. IpsInv(d)'
  <2>1. DOMAIN att'[d] = {} /\ Len(att'[d]) = 0
    BY <1>5
  <2>2. ips'[d] \in Seq(IPs)
    BY <1>3 DEF DialType
  <2>3. Len(att'[d]) <= Len(ips'[d])
    BY <2>1, <2>2
  <2>4. QED
    BY <1>1, <2>1, <2>3 DEF IpsInv
<1>7. ResultInv(d)'
  <2>1. Layer("dns")' => stage[d] = "lookup"
    <3>1. AddrInv(d)
      BY DEF DialsInv
    <3>2. QED
      BY <3>1 DEF AddrInv, Layer, setupVars
  <2>2. DOMAIN att'[d] = {}
    BY <1>5
  <2>3. QED
    BY <1>1, <1>5, <2>1, <2>2 DEF ResultInv
<1>8. QED
  BY <1>2, <1>3, <1>4, <1>6, <1>7, OneDial DEF MapInv, mapVars

LEMMA DirectStep ==
  ASSUME DialInv, status = "running", NEW d \in Dials, Direct(d)
  PROVE  DialInv'
BY ReturnStep DEF Direct, cacheVars

(* The slice of the lookup holds addresses of the host.                    *)
LEMMA LookupStep ==
  ASSUME DialInv, status = "running", NEW d \in Dials, LookupHost(d)
  PROVE  DialInv'
<1> DEFINE a == addr[d]
<1>1. /\ stage[d] = "lookup" /\ a \in Addresses
      /\ UNCHANGED <<setupVars, mapVars, addr, att, ch, got, written>>
  BY DEF LookupHost, DialInv, DialType
<1>2. CASE Return(d, 0, "lookup") /\ UNCHANGED <<ips, cache>>
  BY <1>1, <1>2, ReturnStep
<1>3. ASSUME NEW s \in Slices(a), cache' = [cache EXCEPT ![a] = s],
             IF s = <<>>
             THEN Return(d, 0, "noSuchHost") /\ UNCHANGED ips
             ELSE /\ ips' = [ips EXCEPT ![d] = s]
                  /\ GoTo(d, "shuffle")
                  /\ UNCHANGED <<conn, err>>
      PROVE  DialInv'
  <2>1. s \in Seq(IPs) /\ ToSet(s) \subseteq Given(a)
    <3>1. CASE s = cache[a]
      BY <1>1, <3>1 DEF DialInv, CacheInv
    <3>2. CASE \E all \in HostIPs[a] : s = SetToSeq(all)
      BY <1>1, <3>2, SliceGiven
    <3>3. QED
      BY <1>3, <3>1, <3>2 DEF Slices
  <2>2. stage'[d] \in {"done", "shuffle"} /\ \A e \in Dials \ {d} : stage'[e] = stage[e]
    BY <1>3 DEF Return, GoTo, DialInv, DialType
  <2>3. CacheInv'
    <3>1. \A e \in Dials : stage[e] \notin Early =>
            stage'[e] \notin Early /\ addr'[e] = addr[e]
      BY <1>1, <2>2 DEF Early
    <3>2. CacheInv /\ written' = written
      BY <1>1 DEF DialInv
    <3>3. /\ DOMAIN written' = Dials
          /\ \A e \in Dials : written'[e] # {} =>
               /\ stage[e] \notin Early
               /\ written'[e] \subseteq Given(addr[e])
               /\ \E f \in Dials \ {e} : addr[f] = addr[e] /\ stage[f] \notin Early
      BY <3>2 DEF CacheInv
    <3>4. cache' \in {cache, [cache EXCEPT ![a] = s]}
      BY <1>3
    <3> HIDE DEF a
    <3>5. QED
      BY <1>1, <2>1, <3>1, <3>2, <3>3, <3>4, CacheWrites
  <2>4. CASE s = <<>>
    BY <1>1, <1>3, <2>3, <2>4, ReturnStep
  <2>5. CASE s # <<>>
    <3> USE DEF DialInv, GoTo, Stages, Before, Early
    <3>1. /\ ips' = [ips EXCEPT ![d] = s]
          /\ stage' = [stage EXCEPT ![d] = "shuffle"]
          /\ UNCHANGED <<conn, err>>
      BY <1>3, <2>5
    <3>2. stage'[d] = "shuffle" /\ ips'[d] = s
      BY <3>1 DEF DialType
    <3>3. OnlyDial(d) /\ status' = status
      BY <1>1, <3>1, <3>2 DEF OnlyDial, DialType, setupVars
    <3>4. DialType'
      BY <1>1, <2>1, <3>1 DEF DialType, mapVars
    <3>5. AddrInv(d)'
      <4>1. AddrInv(d)
        BY DEF DialsInv
      <4>2. QED
        BY <1>1, <3>2, <4>1 DEF AddrInv, Layer, Translated, setupVars
    <3>6. IpsInv(d)'
      BY <1>1, <2>1, <2>5, <3>2 DEF IpsInv
    <3>7. ResultInv(d)'
      BY <1>1, <3>1, <3>2, StaysBefore
    <3>8. QED
      BY <1>1, <2>3, <3>3, <3>4, <3>5, <3>6, <3>7, OneDial DEF MapInv, mapVars
  <2>6. QED
    BY <2>4, <2>5
<1>4. QED
  BY <1>2, <1>3 DEF LookupHost

(* firstOfEachIPFamily writes no more than it takes.                       *)
LEMMA OverwrittenSlice ==
  ASSUME NEW X, NEW s \in Seq(X), NEW each \in Seq(X)
  PROVE  Overwritten(s, each) \in Seq(X)
<1> DEFINE m == Len(each) + 1
           rest == SubSeq(s, m, Len(s))
<1>1. m \in Nat /\ m >= 1 /\ Len(s) \in Nat
  OBVIOUS
<1>2. rest \in Seq(X)
  <2> HIDE DEF m
  <2>1. CASE m <= Len(s)
    BY <1>1, <2>1
  <2>2. CASE m > Len(s)
    <3>1. rest = <<>>
      BY <1>1, <2>2
    <3>2. QED
      BY <3>1
  <2>3. QED
    BY <1>1, <2>1, <2>2
<1>3. QED
  BY <1>2 DEF Overwritten

(* What a dial chooses from its slice and leaves of it: at most two        *)
(* addresses, of different families unless another dial may have written   *)
(* to the slice, and none only if some address does not parse.             *)
LEMMA ChosenOnes ==
  ASSUME NEW d \in Dials, NEW X, ips[d] \in Seq(X), ips[d] # <<>>,
         written[d] \subseteq X,
         \A e \in Dials : Share(d, e) =>
           ToSet(ips[e]) \subseteq X /\ written[e] \subseteq X,
         NEW c \in IF written[d] = {} /\ ~\E e \in Dials : Share(d, e)
                  THEN Undisturbed(d) ELSE Raced(d)
  PROVE  /\ c.each \in Seq(X) /\ c.left \in Seq(X)
         /\ Len(c.each) = 2 => \/ c.each[1].family # c.each[2].family
                               \/ written[d] # {}
                               \/ \E e \in Dials : Share(d, e)
         /\ c.each = <<>> => \E ip \in X : ~Parses(ip)
<1>1. ToSet(ips[d]) \subseteq X /\ Len(ips[d]) > 0 /\ Len(ips[d]) \in Nat
      /\ DOMAIN ips[d] = 1..Len(ips[d])
  BY DEF ToSet
<1>2. CASE written[d] = {} /\ ~\E e \in Dials : Share(d, e)
  <2>1. PICK s \in Shuffled(ips[d]) :
          c = [each |-> FirstOfEachIPFamily(s),
               left |-> Overwritten(s, FirstOfEachIPFamily(s))]
    BY <1>2 DEF Undisturbed
  <2> DEFINE first == FirstOfEachIPFamily(s)
  <2>2. s \in Seq(X) /\ Len(s) = Len(ips[d])
    BY ShuffleOfSlice
  <2>3. \/ first = <<>> /\ \A i \in DOMAIN s : ~Parses(s[i])
        \/ \E i \in DOMAIN s : first = <<s[i]>>
        \/ \E i, j \in DOMAIN s :
             first = <<s[i], s[j]>> /\ s[i].family # s[j].family
    BY <2>2, EachFamily
  <2> HIDE DEF first
  <2>4. c.each = first /\ c.left = Overwritten(s, first)
    BY <2>1 DEF first
  <2>5. /\ first \in Seq(X)
        /\ Len(first) = 2 => first[1].family # first[2].family
        /\ first = <<>> => \E ip \in X : ~Parses(ip)
    <3>1. CASE first = <<>> /\ \A i \in DOMAIN s : ~Parses(s[i])
      <4>1. 1 \in DOMAIN s /\ s[1] \in X
        BY <1>1, <2>2
      <4>2. QED
        BY <3>1, <4>1
    <3>2. CASE \E i \in DOMAIN s : first = <<s[i]>>
      BY <2>2, <3>2
    <3>3. ASSUME NEW i \in DOMAIN s, NEW j \in DOMAIN s,
                 first = <<s[i], s[j]>>, s[i].family # s[j].family
          PROVE  /\ first \in Seq(X)
                 /\ first[1].family # first[2].family
                 /\ first # <<>>
      BY <2>2, <3>3
    <3>4. QED
      BY <2>3, <3>1, <3>2, <3>3
  <2>6. Overwritten(s, first) \in Seq(X)
    BY <2>2, <2>5, OverwrittenSlice
  <2>7. QED
    BY <2>4, <2>5, <2>6
<1>3. CASE ~(written[d] = {} /\ ~\E e \in Dials : Share(d, e))
  <2> DEFINE wrote(e) == ToSet(ips[e]) \cup written[e]
             pool == wrote(d) \cup UNION {wrote(e) : e \in {e \in Dials : Share(d, e)}}
             seqs == [DOMAIN ips[d] -> pool]
  <2>1. c \in UNION {[each : [DOMAIN FirstOfEachIPFamily(s) -> pool], left : seqs] :
                      s \in seqs}
    BY <1>3, Zenon DEF Raced
  <2>2. pool \subseteq X
    BY <1>1
  <2> HIDE DEF pool
  <2>3. PICK s \in seqs : c \in [each : [DOMAIN FirstOfEachIPFamily(s) -> pool], left : seqs]
    BY <2>1
  <2> DEFINE first == FirstOfEachIPFamily(s)
  <2>4. s \in Seq(X) /\ Len(s) = Len(ips[d]) /\ c.left \in Seq(X)
    <3>1. s \in [1..Len(ips[d]) -> X] /\ c.left \in [1..Len(ips[d]) -> X]
      BY <1>1, <2>2, <2>3
    <3>2. QED
      BY <1>1, <3>1
  <2>5. \/ first = <<>> /\ \A i \in DOMAIN s : ~Parses(s[i])
        \/ \E i \in DOMAIN s : first = <<s[i]>>
        \/ \E i, j \in DOMAIN s :
             first = <<s[i], s[j]>> /\ s[i].family # s[j].family
    BY <2>4, EachFamily
  <2>6. c.each \in [DOMAIN first -> pool]
    BY <2>3
  <2> HIDE DEF first
  <2>7. PICK m \in Nat : DOMAIN first = 1..m /\ (m = 0 => \A i \in DOMAIN s : ~Parses(s[i]))
    <3>1. CASE first = <<>> /\ \A i \in DOMAIN s : ~Parses(s[i])
      <4>1. DOMAIN first = 1..0
        BY <3>1
      <4>2. QED
        BY <3>1, <4>1
    <3>2. CASE \E i \in DOMAIN s : first = <<s[i]>>
      <4>1. DOMAIN first = 1..1
        BY <3>2
      <4>2. QED
        BY <4>1
    <3>3. CASE \E i, j \in DOMAIN s : first = <<s[i], s[j]>>
      <4>1. DOMAIN first = 1..2
        BY <3>3
      <4>2. QED
        BY <4>1
    <3>4. QED
      BY <2>5, <3>1, <3>2, <3>3
  <2>8. c.each \in Seq(X) /\ Len(c.each) = m
    <3>1. c.each \in [1..m -> X]
      BY <2>2, <2>6, <2>7
    <3>2. QED
      BY <3>1
  <2>9. c.each = <<>> => \E ip \in X : ~Parses(ip)
    <3> SUFFICES ASSUME c.each = <<>>
                 PROVE  \E ip \in X : ~Parses(ip)
      OBVIOUS
    <3>1. m = 0
      BY <2>8
    <3>2. 1 \in DOMAIN s /\ s[1] \in X
      BY <1>1, <2>4
    <3>3. QED
      BY <2>7, <3>1, <3>2
  <2>10. QED
    BY <1>3, <2>4, <2>8, <2>9
<1>4. QED
  BY <1>2, <1>3

LEMMA ShuffleStep ==
  ASSUME DialInv, status = "running", NEW d \in Dials, Shuffle(d)
  PROVE  DialInv'
<1> USE DEF DialInv, GoTo, Stages, Before, Early
<1> DEFINE X == Given(addr[d])
           Outcomes == IF written[d] = {} /\ ~\E e \in Dials : Share(d, e)
                      THEN Undisturbed(d) ELSE Raced(d)
           Chooses(c) ==
             /\ ips' = [ips EXCEPT ![d] = c.each]
             /\ att' = [att EXCEPT ![d] = [k \in DOMAIN c.each |-> "dialing"]]
             /\ cache' = IF d \in stale THEN cache
                         ELSE [cache EXCEPT ![addr[d]] = c.left]
             /\ stage' = [stage EXCEPT ![d] = IF c.each = <<>> THEN "done" ELSE "collect"]
<1>1. PICK c \in Outcomes : Chooses(c)
  BY Zenon DEF Shuffle
<1>2. /\ stage[d] = "shuffle"
      /\ UNCHANGED <<flags, fault, step, status, output, atk, n, seen, addr,
                     ch, got, conn, err>>
      /\ written' = [e \in Dials |->
                        IF e = d THEN {}
                        ELSE IF Share(d, e)
                             THEN written[e] \cup written[d] \cup ToSet(ips[d])
                             ELSE written[e]]
  BY DEF Shuffle, setupVars, mapVars
<1>3. /\ addr[d] \in Addresses
      /\ ips[d] # <<>> /\ ToSet(ips[d]) \subseteq X /\ ips[d] \in Seq(X)
      /\ X \subseteq IPs
  <2>1. addr[d] \in Addresses /\ ips[d] \in Seq(IPs)
    BY DEF DialType
  <2>2. ips[d] # <<>> /\ ToSet(ips[d]) \subseteq X
    BY <1>2 DEF DialsInv, IpsInv
  <2>3. ips[d] \in Seq(X)
    BY <2>1, <2>2 DEF ToSet
  <2>4. QED
    BY <2>1, <2>2, <2>3 DEF IPs
<1>4. /\ written[d] \subseteq X
      /\ \A e \in Dials : Share(d, e) =>
           ToSet(ips[e]) \subseteq X /\ written[e] \subseteq X
  BY DEF CacheInv, DialsInv, IpsInv, Share
<1>5. written[d] # {} \/ (\E e \in Dials : Share(d, e)) =>
        \E e \in Dials \ {d} : addr[e] = addr[d] /\ stage[e] \notin Early
  BY DEF CacheInv, Share
<1> DEFINE each == c.each
           left == c.left
<1>6. /\ each \in Seq(X) /\ left \in Seq(X)
      /\ Len(each) = 2 => each[1].family # each[2].family \/ written[d] # {}
                           \/ \E e \in Dials : Share(d, e)
      /\ each = <<>> => \E ip \in X : ~Parses(ip)
  <2> HIDE DEF X
  <2>1. QED
    BY <1>1, <1>3, <1>4, ChosenOnes
<1>7. each \in Seq(IPs) /\ left \in Seq(IPs)
      /\ (\A k \in DOMAIN each : each[k] \in X) /\ ToSet(left) \subseteq X
  <2> HIDE DEF X, each, left
  <2>1. QED
    BY <1>3, <1>6 DEF ToSet
<1> DEFINE new == [k \in DOMAIN each |-> "dialing"]
<1>8. /\ ips' = [ips EXCEPT ![d] = each]
      /\ att' = [att EXCEPT ![d] = new]
      /\ stage' = [stage EXCEPT ![d] = IF each = <<>> THEN "done" ELSE "collect"]
      /\ cache' \in {cache, [cache EXCEPT ![addr[d]] = left]}
  BY <1>1
<1> HIDE DEF each, left, X, Outcomes, Chooses
<1>9. /\ new \in Seq(Attempts) /\ Len(new) = Len(each) /\ DOMAIN new = DOMAIN each
      /\ \A k \in DOMAIN new : new[k] = "dialing"
  BY <1>7 DEF Attempts
<1> HIDE DEF new
<1>10. /\ ips'[d] = each /\ att'[d] = new
       /\ stage'[d] = IF each = <<>> THEN "done" ELSE "collect"
  BY <1>8 DEF DialType
<1>11. OnlyDial(d) /\ status' = status
  BY <1>2, <1>8, <1>10 DEF OnlyDial, DialType
<1>12. DialType'
  BY <1>2, <1>7, <1>8, <1>9 DEF DialType
<1>13. AddrInv(d)'
  <2>1. AddrInv(d)
    BY DEF DialsInv
  <2>2. QED
    BY <1>2, <1>10, <2>1 DEF AddrInv, Layer, Translated
<1>14. IpsInv(d)'
  <2>1. written[d] # {} \/ (\E e \in Dials : Share(d, e)) =>
          \E e \in Dials \ {d} : addr'[e] = addr'[d] /\ stage'[e] \notin Early
    BY <1>2, <1>5, <1>11 DEF OnlyDial
  <2>2. Len(each) \in Nat /\ addr'[d] = addr[d]
    BY <1>2, <1>7
  <2>3. QED
    BY <1>6, <1>7, <1>9, <1>10, <2>1, <2>2 DEF IpsInv, X
<1>15. ResultInv(d)'
  <2>1. ch'[d] = <<>> /\ got'[d] = 0 /\ conn'[d] = 0 /\ err'[d] = "nil"
    BY <1>2 DEF DialsInv, ResultInv
  <2>2. CASE each = <<>>
    <3>1. att'[d] = <<>>
      BY <1>7, <1>9, <1>10, <2>2
    <3>2. \E ip \in Given(addr'[d]) : ~Parses(ip)
      BY <1>2, <1>6, <2>2 DEF X
    <3>3. QED
      BY <1>10, <2>1, <2>2, <3>1, <3>2 DEF ResultInv
  <2>3. CASE each # <<>>
    <3>1. Finished(d)' = {}
      BY <1>9, <1>10 DEF Finished
    <3>2. CollectInv(d)'
      <4>1. Cardinality(Finished(d)') = 0
        BY <3>1, FS_EmptySet
      <4>2. QED
        BY <1>9, <1>10, <2>1, <4>1 DEF CollectInv
    <3>3. 0 < Len(new)
      BY <1>7, <1>9, <2>3
    <3>4. QED
      BY <1>10, <2>1, <2>3, <3>2, <3>3 DEF ResultInv
  <2>4. QED
    BY <2>2, <2>3
<1>16. CacheInv'
  <2>1. \A e \in Dials : stage[e] \notin Early =>
          stage'[e] \notin Early /\ addr'[e] = addr[e]
    BY <1>11 DEF OnlyDial
  <2>2. DOMAIN written' = Dials
    BY <1>2
  <2>3. ASSUME NEW e \in Dials, written'[e] # {}
        PROVE  /\ stage[e] \notin Early
               /\ written'[e] \subseteq Given(addr[e])
               /\ \E f \in Dials \ {e} : addr[f] = addr[e] /\ stage[f] \notin Early
    <3>1. e # d
      BY <1>2, <2>3
    <3>2. CASE Share(d, e)
      <4>1. written'[e] = written[e] \cup written[d] \cup ToSet(ips[d])
        BY <1>2, <3>1, <3>2
      <4>2. addr[e] = addr[d] /\ stage[e] \notin Early
        BY <3>2 DEF Share
      <4>3. written[e] \subseteq X
        BY <1>4, <3>2
      <4>4. QED
        BY <1>2, <1>3, <1>4, <3>1, <4>1, <4>2, <4>3 DEF X
    <3>3. CASE ~Share(d, e)
      <4>1. written'[e] = written[e]
        BY <1>2, <3>1, <3>3
      <4>2. QED
        BY <2>3, <4>1 DEF CacheInv
    <3>4. QED
      BY <3>2, <3>3
  <2>4. CacheInv
    OBVIOUS
  <2> HIDE DEF DialInv, GoTo, Stages, Before, Early
  <2>5. QED
    BY <1>3, <1>7, <1>8, <2>1, <2>2, <2>3, <2>4, CacheWrites DEF X
<1>17. QED
  BY <1>2, <1>11, <1>12, <1>13, <1>14, <1>15, <1>16, OneDial DEF MapInv

(* The attempts of a dial that has not collected them all: the choice of   *)
(* addresses stays.                                                        *)
LEMMA ChoiceStays ==
  ASSUME DialInv, NEW d \in Dials, stage[d] = "collect",
         stage'[d] \in {"collect", "done"}, OnlyDial(d), ips'[d] = ips[d],
         DOMAIN att'[d] = DOMAIN att[d], Len(att'[d]) = Len(att[d])
  PROVE  AddrInv(d)' /\ IpsInv(d)'
<1>1. AddrInv(d) /\ IpsInv(d)
  BY DEF DialInv, DialsInv
<1>2. addr'[d] = addr[d] /\ atk' = atk
  BY DEF OnlyDial, Early
<1>3. AddrInv(d)'
  BY <1>1, <1>2 DEF AddrInv, Layer, Translated, Early
<1>4. IpsInv(d)'
  BY <1>1, <1>2 DEF IpsInv, OnlyDial
<1>5. QED
  BY <1>3, <1>4

(* The finished attempts are at most all of them.                          *)
LEMMA FinishedIsFinite ==
  ASSUME DialType, NEW d \in Dials
  PROVE  /\ DOMAIN att[d] = 1..Len(att[d]) /\ Len(att[d]) \in Nat
         /\ IsFiniteSet(Finished(d))
         /\ Cardinality(Finished(d)) <= Len(att[d])
         /\ Cardinality(Finished(d)) = Len(att[d]) => Finished(d) = DOMAIN att[d]
<1>1. att[d] \in Seq(Attempts)
  BY DEF DialType
<1>2. DOMAIN att[d] = 1..Len(att[d]) /\ Len(att[d]) \in Nat
  BY <1>1
<1>3. IsFiniteSet(1..Len(att[d])) /\ Cardinality(1..Len(att[d])) = Len(att[d])
  <2>1. \A m \in Nat : IsFiniteSet(1..m) /\ Cardinality(1..m) = m
    <3> SUFFICES ASSUME NEW m \in Nat
                 PROVE  IsFiniteSet(1..m) /\ Cardinality(1..m) = m
      OBVIOUS
    <3>1. m \in Int /\ 1 \in Int
      OBVIOUS
    <3>2. IsFiniteSet(1..m) /\ Cardinality(1..m) = IF 1 > m THEN 0 ELSE m - 1 + 1
      BY <3>1, FS_Interval
    <3>3. QED
      BY <3>2
  <2>2. QED
    BY <1>2, <2>1
<1>4. Finished(d) \in SUBSET (1..Len(att[d]))
  BY <1>2 DEF Finished
<1>5. QED
  BY <1>2, <1>3, <1>4, FS_Subset

LEMMA ConnectsStep ==
  ASSUME DialInv, status = "running", NEW d \in Dials,
         NEW k \in DOMAIN att[d], Connects(d, k)
  PROVE  DialInv'
<1> USE DEF DialInv
<1>1. /\ stage[d] = "collect" /\ att[d][k] = "dialing"
      /\ UNCHANGED <<flags, fault, step, status, output, atk, n, seen, stage,
                     addr, ips, ch, got, conn, err, cache, written>>
      /\ att' = [att EXCEPT ![d][k] = "connected"]
  BY DEF Connects, setupVars, mapVars, cacheVars
<1>2. att[d] \in Seq(Attempts)
  BY DEF DialType
<1>3. /\ att'[d] = [att[d] EXCEPT ![k] = "connected"]
      /\ att'[d] \in Seq(Attempts)
      /\ DOMAIN att'[d] = DOMAIN att[d] /\ Len(att'[d]) = Len(att[d])
  BY <1>1, <1>2 DEF DialType, Attempts
<1>4. OnlyDial(d)
  BY <1>1 DEF OnlyDial, DialType
<1>5. DialType'
  BY <1>1, <1>3 DEF DialType
<1>6. AddrInv(d)' /\ IpsInv(d)'
  BY <1>1, <1>3, <1>4, ChoiceStays
<1>7. ResultInv(d)'
  <2>1. CollectInv(d) /\ got[d] < Len(att[d])
    BY <1>1 DEF DialsInv, ResultInv
  <2>2. Finished(d)' = Finished(d)
    BY <1>1, <1>3 DEF Finished
  <2>3. CollectInv(d)'
    BY <1>1, <1>3, <2>1, <2>2 DEF CollectInv
  <2>4. QED
    BY <1>1, <1>3, <2>1, <2>3 DEF ResultInv, Before, Early
<1>8. QED
  BY <1>1, <1>4, <1>5, <1>6, <1>7, OneDial DEF MapInv

(* A result that is sent is in the channel before it is received.          *)
LEMMA SendStep ==
  ASSUME DialInv, status = "running", NEW d \in Dials,
         NEW k \in DOMAIN att[d], att[d][k] \in {"dialing", "connected"},
         NEW outcome \in {"sent", "failed"}, Send(d, k, outcome)
  PROVE  DialInv'
<1> USE DEF DialInv
<1>1. /\ UNCHANGED <<flags, fault, step, status, output, atk, n, seen, stage,
                     addr, ips, got, conn, err, cache, written>>
      /\ att' = [att EXCEPT ![d][k] = outcome]
      /\ ch' = [ch EXCEPT ![d] = Append(ch[d], k)]
  BY DEF Send, setupVars, mapVars, cacheVars
<1>2. /\ att[d] \in Seq(Attempts) /\ ch[d] \in Seq(Nat) /\ got[d] \in Nat
      /\ k \in Nat
  BY DEF DialType
<1>3. stage[d] = "collect"
  <2>1. stage[d] \in Stages /\ ResultInv(d)
    BY DEF DialType, DialsInv
  <2>2. stage[d] \notin Before
    BY <2>1 DEF ResultInv
  <2>3. stage[d] # "done"
    BY <2>1 DEF ResultInv
  <2>4. QED
    BY <2>1, <2>2, <2>3 DEF Stages
<1>4. /\ att'[d] = [att[d] EXCEPT ![k] = outcome]
      /\ att'[d] \in Seq(Attempts)
      /\ DOMAIN att'[d] = DOMAIN att[d] /\ Len(att'[d]) = Len(att[d])
  BY <1>1, <1>2 DEF DialType, Attempts
<1>5. /\ ch'[d] = Append(ch[d], k) /\ ch'[d] \in Seq(Nat)
      /\ Len(ch'[d]) = Len(ch[d]) + 1
  BY <1>1, <1>2 DEF DialType
<1>6. OnlyDial(d)
  BY <1>1 DEF OnlyDial, DialType
<1>7. DialType'
  BY <1>1, <1>4, <1>5 DEF DialType
<1>8. AddrInv(d)' /\ IpsInv(d)'
  BY <1>1, <1>3, <1>4, <1>6, ChoiceStays
<1>9. ResultInv(d)'
  <2>1. CollectInv(d) /\ got[d] < Len(att[d])
    BY <1>3 DEF DialsInv, ResultInv
  <2>2. Finished(d)' = Finished(d) \cup {k} /\ k \notin Finished(d)
    BY <1>4 DEF Finished
  <2>3. Cardinality(Finished(d)') = Cardinality(Finished(d)) + 1
    BY <2>2, FinishedIsFinite, FS_AddElement
  <2>4. Cardinality(Finished(d)') = got'[d] + Len(ch'[d])
    <3>1. Cardinality(Finished(d)) = got[d] + Len(ch[d])
      BY <2>1 DEF CollectInv
    <3>2. got'[d] = got[d] /\ Len(ch[d]) \in Nat
      BY <1>1, <1>2
    <3>3. QED
      BY <1>2, <1>5, <2>3, <3>1, <3>2
  <2>5. \A i \in DOMAIN ch'[d] : ch'[d][i] \in Finished(d)'
    BY <1>2, <1>5, <2>1, <2>2 DEF CollectInv
  <2>6. conn'[d] # 0 => /\ conn'[d] \in DOMAIN att'[d]
                        /\ att'[d][conn'[d]] = "sent"
                        /\ err'[d] = "nil"
    BY <1>1, <1>2, <1>4, <2>1 DEF CollectInv
  <2>7. conn'[d] = 0 => \A m \in DOMAIN att'[d] : att'[d][m] = "sent" =>
                          \E i \in DOMAIN ch'[d] : ch'[d][i] = m
    <3> SUFFICES ASSUME conn'[d] = 0, NEW m \in DOMAIN att'[d], att'[d][m] = "sent"
                 PROVE  \E i \in DOMAIN ch'[d] : ch'[d][i] = m
      OBVIOUS
    <3>1. CASE m = k
      BY <1>2, <1>5, <3>1, SMTT(60)
    <3>2. CASE m # k
      <4>1. PICK i \in DOMAIN ch[d] : ch[d][i] = m
        BY <1>1, <1>2, <1>4, <2>1, <3>2 DEF CollectInv
      <4>2. i \in DOMAIN ch'[d] /\ ch'[d][i] = m
        BY <1>2, <1>5, <4>1
      <4>3. QED
        BY <4>2
    <3>3. QED
      BY <3>1, <3>2
  <2>8. conn'[d] = 0 /\ err'[d] = "nil" => got'[d] = 0
    BY <1>1, <2>1 DEF CollectInv
  <2>9. CollectInv(d)'
    BY <2>4, <2>5, <2>6, <2>7, <2>8 DEF CollectInv
  <2>10. QED
    BY <1>1, <1>3, <1>4, <2>1, <2>9 DEF ResultInv, Before, Early
<1>10. QED
  BY <1>1, <1>6, <1>7, <1>8, <1>9, OneDial DEF MapInv

(* A result is received and the first connection kept; the last one ends   *)
(* the dial.                                                               *)
LEMMA CollectStep ==
  ASSUME DialInv, status = "running", NEW d \in Dials, Collect(d)
  PROVE  DialInv'
<1> DEFINE k == Head(ch[d])
           c == IF att[d][k] = "sent" THEN k ELSE 0
           e == IF att[d][k] = "sent" THEN "nil" ELSE "dial"
<1> USE DEF DialInv
<1>1. /\ stage[d] = "collect" /\ ch[d] # <<>>
      /\ ch' = [ch EXCEPT ![d] = Tail(ch[d])]
      /\ got' = [got EXCEPT ![d] = got[d] + 1]
      /\ UNCHANGED <<flags, fault, step, status, output, atk, n, seen, addr,
                     ips, att, cache, written>>
  BY DEF Collect, setupVars, mapVars, cacheVars
<1>2. /\ att[d] \in Seq(Attempts) /\ ch[d] \in Seq(Nat) /\ got[d] \in Nat
      /\ conn[d] \in Nat
  BY DEF DialType
<1>3. /\ k \in Nat /\ Len(ch[d]) > 0 /\ 1 \in DOMAIN ch[d] /\ k = ch[d][1]
      /\ Tail(ch[d]) \in Seq(Nat) /\ Len(Tail(ch[d])) = Len(ch[d]) - 1
      /\ \A i \in DOMAIN Tail(ch[d]) :
           i + 1 \in DOMAIN ch[d] /\ Tail(ch[d])[i] = ch[d][i + 1]
      /\ \A i \in DOMAIN ch[d] \ {1} :
           i - 1 \in DOMAIN Tail(ch[d]) /\ Tail(ch[d])[i - 1] = ch[d][i]
  <2> DEFINE q == ch[d]
  <2>1. q \in Seq(Nat) /\ q # <<>>
    BY <1>1, <1>2
  <2> HIDE DEF q
  <2>2. /\ Len(q) \in Nat /\ Len(q) > 0 /\ DOMAIN q = 1..Len(q)
        /\ Head(q) = q[1] /\ q[1] \in Nat
    BY <2>1
  <2>3. /\ Tail(q) \in Seq(Nat) /\ Len(Tail(q)) = Len(q) - 1
        /\ DOMAIN Tail(q) = 1..(Len(q) - 1)
        /\ \A i \in 1..(Len(q) - 1) : Tail(q)[i] = q[i + 1]
    BY <2>1, <2>2
  <2>4. \A i \in DOMAIN q \ {1} : i - 1 \in DOMAIN Tail(q) /\ Tail(q)[i - 1] = q[i]
    <3> SUFFICES ASSUME NEW i \in DOMAIN q \ {1}
                 PROVE  i - 1 \in DOMAIN Tail(q) /\ Tail(q)[i - 1] = q[i]
      OBVIOUS
    <3>1. i - 1 \in 1..(Len(q) - 1) /\ (i - 1) + 1 = i
      BY <2>2
    <3>2. QED
      BY <2>3, <3>1
  <2>5. \A i \in DOMAIN Tail(q) : i + 1 \in DOMAIN q /\ Tail(q)[i] = q[i + 1]
    BY <2>2, <2>3
  <2>6. QED
    BY <2>2, <2>3, <2>4, <2>5 DEF q
<1>4. CollectInv(d) /\ got[d] < Len(att[d])
  BY <1>1 DEF DialsInv, ResultInv
<1>5. k \in DOMAIN att[d] /\ att[d][k] \in {"sent", "failed"}
  BY <1>3, <1>4 DEF CollectInv, Finished
<1>6. ch'[d] = Tail(ch[d]) /\ got'[d] = got[d] + 1 /\ att'[d] = att[d]
  BY <1>1 DEF DialType
<1>7. /\ conn[d] = 0 => conn' = [conn EXCEPT ![d] = c] /\ err' = [err EXCEPT ![d] = e]
      /\ conn[d] # 0 => conn' = conn /\ err' = err
  BY DEF Collect, Keeps
<1>8. /\ got'[d] = Len(att[d]) => stage' = [stage EXCEPT ![d] = "done"]
      /\ got'[d] # Len(att[d]) => stage' = stage
  BY DEF Collect, GoTo
<1>9. stage'[d] = IF got'[d] = Len(att[d]) THEN "done" ELSE "collect"
  BY <1>1, <1>8 DEF DialType
<1>10. c \in Nat
  BY <1>3
<1> HIDE DEF k, c, e
<1>11. DialType'
  <2>1. ch' \in [Dials -> Seq(Nat)] /\ got' \in [Dials -> Nat]
    BY <1>1, <1>2, <1>3 DEF DialType
  <2>2. conn' \in [Dials -> Nat] /\ DOMAIN err' = Dials
    BY <1>7, <1>10 DEF DialType
  <2>3. stage' \in [Dials -> Stages]
    BY <1>8 DEF DialType, Stages
  <2>4. QED
    BY <1>1, <2>1, <2>2, <2>3 DEF DialType
<1>12. OnlyDial(d)
  BY <1>1, <1>7, <1>8, <1>9 DEF OnlyDial, DialType, Early
<1>13. AddrInv(d)' /\ IpsInv(d)'
  BY <1>1, <1>6, <1>9, <1>12, ChoiceStays
<1>14. CollectInv(d)'
  <2>1. Finished(d)' = Finished(d)
    BY <1>6 DEF Finished
  <2>2. Cardinality(Finished(d)') = got'[d] + Len(ch'[d])
    BY <1>2, <1>3, <1>4, <1>6, <2>1 DEF CollectInv
  <2>3. \A i \in DOMAIN ch'[d] : ch'[d][i] \in Finished(d)'
    BY <1>3, <1>4, <1>6, <2>1 DEF CollectInv
  <2>4. CASE conn[d] # 0
    BY <1>4, <1>6, <1>7, <2>2, <2>3, <2>4 DEF CollectInv
  <2>5. CASE conn[d] = 0 /\ att[d][k] = "sent"
    <3>1. conn'[d] = k /\ err'[d] = "nil"
      BY <1>7, <2>5 DEF DialType, c, e
    <3>2. k # 0
      BY <1>2, <1>5
    <3>3. QED
      BY <1>5, <1>6, <2>2, <2>3, <2>5, <3>1, <3>2 DEF CollectInv
  <2>6. CASE conn[d] = 0 /\ att[d][k] # "sent"
    <3>1. conn'[d] = 0 /\ err'[d] = "dial"
      BY <1>7, <2>6 DEF DialType, c, e
    <3>2. ASSUME NEW m \in DOMAIN att[d], att[d][m] = "sent"
          PROVE  \E i \in DOMAIN ch'[d] : ch'[d][i] = m
      <4>1. PICK i \in DOMAIN ch[d] : ch[d][i] = m
        BY <1>4, <2>6, <3>2 DEF CollectInv
      <4>2. i # 1
        BY <1>3, <2>6, <3>2, <4>1
      <4>3. i - 1 \in DOMAIN ch'[d] /\ ch'[d][i - 1] = m
        BY <1>3, <1>6, <4>1, <4>2
      <4>4. QED
        BY <4>3
    <3>3. QED
      BY <1>6, <2>2, <2>3, <3>1, <3>2 DEF CollectInv
  <2>7. QED
    BY <2>4, <2>5, <2>6
<1>15. ResultInv(d)'
  <2>1. CASE got'[d] # Len(att[d])
    BY <1>2, <1>4, <1>6, <1>9, <1>14, <2>1 DEF ResultInv, Before, Early
  <2>2. CASE got'[d] = Len(att[d])
    <3>1. /\ Len(ch'[d]) \in Nat
          /\ Cardinality(Finished(d))' = got'[d] + Len(ch'[d])
      BY <1>11, <1>14 DEF DialType, CollectInv
    <3>2. /\ Cardinality(Finished(d)) <= Len(att[d]) /\ Len(att[d]) \in Nat
          /\ Cardinality(Finished(d)) = Len(att[d]) => Finished(d) = DOMAIN att[d]
      BY FinishedIsFinite
    <3>3. Finished(d)' = Finished(d)
      BY <1>6 DEF Finished
    <3>4. Len(ch'[d]) = 0 /\ Finished(d) = DOMAIN att[d]
      BY <2>2, <3>1, <3>2, <3>3
    <3>5. \A m \in DOMAIN att'[d] : att'[d][m] \in {"sent", "failed"}
      BY <1>6, <3>4 DEF Finished
    <3>6. DOMAIN ch'[d] = {}
      BY <1>11, <3>4 DEF DialType
    <3>7. conn'[d] = 0 => \A m \in DOMAIN att'[d] : att'[d][m] = "failed"
      BY <1>14, <3>5, <3>6 DEF CollectInv
    <3>8. ~(conn'[d] = 0 /\ err'[d] = "nil")
      BY <1>2, <1>6, <1>14 DEF CollectInv
    <3>9. conn'[d] # 0 => att'[d][conn'[d]] = "sent" /\ err'[d] = "nil"
      BY <1>14 DEF CollectInv
    <3>10. stage'[d] = "done"
      BY <1>9, <2>2
    <3>11. QED
      BY <3>5, <3>7, <3>8, <3>9, <3>10 DEF ResultInv, Before, Early
  <2>3. QED
    BY <2>1, <2>2
<1>16. QED
  BY <1>1, <1>11, <1>12, <1>13, <1>15, OneDial DEF MapInv

(* Two dials that shuffle at once make the command panic.                  *)
LEMMA PanicStep ==
  ASSUME DialInv, NEW d \in Dials, NEW e \in Dials, ShufflePanics(d, e)
  PROVE  DialInv'
<1>1. /\ status = "running" /\ status' = "panic" /\ d # e
      /\ stage[d] = "shuffle" /\ stage[e] = "shuffle"
      /\ UNCHANGED <<flags, fault, step, output, atk, n, seen, stage, addr,
                     ips, att, ch, got, conn, err, cache, written>>
  BY DEF ShufflePanics, mapVars, dialVars, cacheVars
<1>2. SetupInv'
  BY <1>1, SetupOver DEF DialInv
<1>3. DialType' /\ DialsInv'
  BY <1>1, DialsKeep DEF DialInv
<1>4. MapInv'
  BY <1>1 DEF DialInv, MapInv
<1>5. CacheInv'
  BY <1>1, CacheKeeps DEF DialInv
<1>6. QED
  BY <1>2, <1>3, <1>4, <1>5 DEF DialInv

(* The timeout, the goroutine that refreshes the cache and the stop of the *)
(* attack change nothing a dial depends on.                                *)
LEMMA QuietStep ==
  ASSUME DialInv, UNCHANGED <<setupVars, mapVars, stage, addr, ips, att, ch,
                              got, conn, err>>,
         UNCHANGED <<cache, written>> \/ CacheInv'
  PROVE  DialInv'
<1> USE DEF setupVars, mapVars
<1>1. SetupInv'
  BY DEF DialInv, SetupInv, SetupType, StepInv, OptionInv, Layers
<1>2. DialType' /\ DialsInv'
  BY DialsKeep DEF DialInv
<1>3. MapInv'
  BY DEF DialInv, MapInv, SetUp
<1>4. CacheInv'
  BY CacheKeeps DEF DialInv
<1>5. QED
  BY <1>1, <1>2, <1>3, <1>4 DEF DialInv

(* The slices of new answers hold addresses of their hosts too.            *)
LEMMA RefreshStep ==
  ASSUME DialInv, RefreshDone
  PROVE  DialInv'
<1>1. /\ UNCHANGED <<setupVars, mapVars, stage, addr, ips, att, ch, got, conn, err>>
      /\ written' = written
      /\ DOMAIN cache' = Addresses
      /\ \A a \in Addresses : cache'[a] \in Renewed(a)
  BY DEF RefreshDone, dialVars
<1>2. ASSUME NEW a \in Addresses
      PROVE  cache'[a] \in Seq(IPs) /\ ToSet(cache'[a]) \subseteq Given(a)
  <2>1. cache'[a] = <<>> \/ \E all \in HostIPs[a] : cache'[a] = SetToSeq(all)
    BY <1>1 DEF Renewed
  <2>2. CASE cache'[a] = <<>>
    BY <2>2 DEF ToSet
  <2>3. CASE \E all \in HostIPs[a] : cache'[a] = SetToSeq(all)
    BY <2>3, SliceGiven
  <2>4. QED
    BY <2>1, <2>2, <2>3
<1>3. cache' \in [Addresses -> Seq(IPs)]
  <2>1. cache' = [a \in Addresses |-> cache'[a]]
    BY DEF RefreshDone
  <2>2. QED
    BY <1>2, <2>1
<1>4. CacheInv'
  BY <1>1, <1>2, <1>3 DEF DialInv, CacheInv
<1>5. QED
  BY <1>1, <1>4, QuietStep

LEMMA DialStarts ==
  ASSUME DialInit
  PROVE  DialInv
<1> USE DEF DialInit
<1>1. SetupInv
  BY SetupStarts
<1>2. DialType
  BY DialAssumption DEF DialType, Stages, Before, Early
<1>3. MapInv
  BY DialAssumption DEF MapInv, SetupInit
<1>4. ASSUME NEW d \in Dials
      PROVE  AddrInv(d) /\ IpsInv(d) /\ ResultInv(d)
  <2>1. stage[d] = "idle" /\ addr[d] = Asked[d]
    OBVIOUS
  <2>2. att[d] = <<>> /\ ch[d] = <<>> /\ got[d] = 0 /\ conn[d] = 0 /\ err[d] = "nil"
    OBVIOUS
  <2>3. QED
    BY <2>1, <2>2 DEF AddrInv, IpsInv, ResultInv, Before, Early
<1>5. CacheInv
  BY DEF CacheInv, ToSet
<1>6. QED
  BY <1>1, <1>2, <1>3, <1>4, <1>5 DEF DialInv, DialsInv

(* The steps of one dial.                                                  *)
LEMMA DialStepKeeps ==
  ASSUME DialInv, status = "running", NEW d \in Dials, DialStep(d)
  PROVE  DialInv'
<1>1. CASE Start(d) \/ MapRead(d) \/ MapWrite(d) \/ MapPick(d)
  BY <1>1, StartStep, MapReadStep, MapWriteStep, MapPickStep
<1>2. CASE LookupHost(d) \/ Shuffle(d) \/ Collect(d) \/ Direct(d)
  BY <1>2, LookupStep, ShuffleStep, CollectStep, DirectStep
<1>3. CASE \E k \in DOMAIN att[d] : Connects(d, k)
  BY <1>3, ConnectsStep
<1>4. CASE \E k \in DOMAIN att[d] : SendsConn(d, k) \/ Fails(d, k)
  BY <1>4, SendStep DEF SendsConn, Fails
<1>5. CASE Timeout(d)
  BY <1>5, QuietStep DEF Timeout, cacheVars
<1>6. CASE \E e \in Dials : ShufflePanics(d, e)
  BY <1>6, PanicStep
<1>7. QED
  BY <1>1, <1>2, <1>3, <1>4, <1>5, <1>6 DEF DialStep, Proceed

LEMMA DialInductive ==
  ASSUME DialInv, [DialNext]_vars
  PROVE  DialInv'
<1>1. CASE Setup
  BY <1>1, SetupStep
<1>2. CASE status = "running" /\ \E d \in Dials : DialStep(d)
  BY <1>2, DialStepKeeps
<1>3. CASE StopAttack \/ RefreshTick \/ RefreshStop
  BY <1>3, QuietStep DEF StopAttack, RefreshTick, RefreshStop, dialVars, cacheVars
<1>4. CASE RefreshDone
  BY <1>4, RefreshStep
<1>5. CASE Ended \/ UNCHANGED vars
  BY <1>5, QuietStep DEF Ended, vars, dialVars, cacheVars
<1>6. QED
  BY <1>1, <1>2, <1>3, <1>4, <1>5 DEF DialNext

(* The state that makes the set-up and the dials sound holds throughout.   *)
THEOREM DialInvariant == DialSpec => []DialInv
BY DialStarts, DialInductive, PTL DEF DialSpec

(* NewAttacker's options do what their flags ask for in whatever           *)
(* combination, only -h2c with -session-tickets panics, and only a late    *)
(* refusal truncates -output.                                              *)
THEOREM SetsUp == DialSpec => []SetUpSound
<1>1. DialInv => SetUpSound
  <2> SUFFICES ASSUME SetupInv
               PROVE  SetUpSound
    BY DEF DialInv
  <2> USE DEF SetupInv
  <2>1. ASSUME status = "running"
        PROVE  /\ atk.laddr = "flag"
               /\ atk.keepalive = flags.keepalive
               /\ atk.tickets = flags.tickets
               /\ ~flags.h2c => atk.dial = Wanted
    <3>1. step = 28
      BY <2>1 DEF StepInv
    <3>2. atk.keepalive = flags.keepalive
      <4>1. atk.keepalive \in BOOLEAN /\ flags.keepalive \in BOOLEAN
        BY OptionsAssumption DEF SetupType, Attackers
      <4>2. atk.keepalive <=> flags.keepalive
        BY <3>1 DEF OptionInv
      <4>3. QED
        BY <4>1, <4>2
    <3>3. Layers(28) = Wanted
      <4> DEFINE base == IF flags.unix THEN <<"unix">> ELSE <<"net">>
                 names == IF flags.dns # "off" THEN <<"dns">> ELSE <<>>
                 map == IF flags.connectTo THEN <<"connectTo">> ELSE <<>>
      <4>1. /\ base \in Seq(LayerNames)
            /\ names \in Seq(LayerNames)
            /\ map \in Seq(LayerNames)
        BY LayerSeqs
      <4>2. Layers(28) = LET b == IF flags.dns # "off" THEN <<"dns">> \o base ELSE base
                         IN IF flags.connectTo THEN <<"connectTo">> \o b ELSE b
        BY DEF Layers
      <4>3. Wanted = (map \o names) \o base
        BY Zenon DEF Wanted
      <4> HIDE DEF base
      <4>4. names \o base = IF flags.dns # "off" THEN <<"dns">> \o base ELSE base
        BY <4>1, ConcatEmptySeq
      <4>5. names \o base \in Seq(LayerNames)
        BY <4>1
      <4>6. map \o (names \o base) = IF flags.connectTo
                                    THEN <<"connectTo">> \o (names \o base)
                                    ELSE names \o base
        BY <4>5, ConcatEmptySeq
      <4> HIDE DEF map, names
      <4>7. (map \o names) \o base = map \o (names \o base)
        BY <4>1, ConcatAssociative
      <4>8. QED
        BY <4>2, <4>3, <4>4, <4>6, <4>7, Zenon
    <3>4. QED
      BY <3>1, <3>2, <3>3 DEF OptionInv
  <2>2. status = "panic" /\ ~SetUp => flags.h2c /\ flags.tickets
    BY Numbered DEF StepInv, SetUp, SetupType
  <2>3. status = "refused" /\ output => fault \in {"tls", "exporter"}
    BY Numbered DEF StepInv, SetupType
  <2>4. QED
    BY <2>1, <2>2, <2>3 DEF SetUpSound
<1>2. QED
  BY <1>1, DialInvariant, PTL

(* ConnectTo and DNSCaching send every dial to a host its request may go   *)
(* to, whatever the dials that race with it do to cm.n and to the slice of *)
(* the cache.                                                              *)
THEOREM DialsRightAddress == DialSpec => []RightAddress
<1>1. DialInv => RightAddress
  <2> SUFFICES ASSUME DialInv
               PROVE  RightAddress
    OBVIOUS
  <2>1. ASSUME NEW d \in Dials, stage[d] \notin Early
        PROVE  /\ addr[d] \in Translated(Asked[d])
               /\ \A k \in DOMAIN att[d] : \E all \in HostIPs[addr[d]] : ips[d][k] \in all
               /\ Len(att[d]) = 2 =>
                    \/ ips[d][1].family # ips[d][2].family
                    \/ \E e \in Dials \ {d} : addr[e] = addr[d]
    <3>1. AddrInv(d) /\ IpsInv(d) /\ ResultInv(d) /\ stage[d] \in Stages
      BY DEF DialInv, DialsInv, DialType
    <3>2. CASE stage[d] \in {"collect", "done"}
      BY <2>1, <3>1, <3>2 DEF AddrInv, IpsInv, Given
    <3>3. CASE stage[d] \in Before
      <4>1. att[d] = <<>>
        BY <3>1, <3>3 DEF ResultInv
      <4>2. QED
        BY <2>1, <3>1, <4>1 DEF AddrInv
    <3>4. QED
      BY <3>1, <3>2, <3>3 DEF Stages
  <2>2. QED
    BY <2>1 DEF RightAddress, DialInv, MapInv, Early
<1>2. QED
  BY <1>1, DialInvariant, PTL

(* DNSCaching returns a connection exactly if an attempt connected, and    *)
(* the error of an attempt otherwise.                                      *)
THEOREM DialsReturn == DialSpec => []DialResult
<1>1. DialInv => DialResult
  BY DEF DialInv, DialsInv, ResultInv, DialResult, Given
<1>2. QED
  BY <1>1, DialInvariant, PTL

(* A dial that has returned, and the address of one that was translated.   *)
DialIsFinal ==
  \A d \in Dials :
    /\ stage[d] = "done" =>
         /\ stage'[d] = "done" /\ conn'[d] = conn[d] /\ err'[d] = err[d]
         /\ att'[d] = att[d] /\ ips'[d] = ips[d]
    /\ stage[d] \notin Early => stage'[d] \notin Early /\ addr'[d] = addr[d]

(* Nothing reaches a dial that has returned: no attempt of it is left to   *)
(* send, no other dial writes its choice; and its address, once ConnectTo  *)
(* has translated it, is not translated again.                             *)
THEOREM DialFinal == DialSpec => [][DialIsFinal]_vars
<1>1. ASSUME DialInv, DialNext
      PROVE  DialIsFinal
  <2> SUFFICES ASSUME NEW d \in Dials
               PROVE  /\ stage[d] = "done" =>
                           /\ stage'[d] = "done" /\ conn'[d] = conn[d]
                           /\ err'[d] = err[d] /\ att'[d] = att[d]
                           /\ ips'[d] = ips[d]
                      /\ stage[d] \notin Early =>
                           stage'[d] \notin Early /\ addr'[d] = addr[d]
    BY DEF DialIsFinal
  <2>1. CASE UNCHANGED <<stage, addr, ips, att, conn, err>>
    BY <2>1
  <2>2. ASSUME NEW x \in Dials, DialStep(x)
        PROVE  /\ stage[d] = "done" =>
                    /\ stage'[d] = "done" /\ conn'[d] = conn[d]
                    /\ err'[d] = err[d] /\ att'[d] = att[d]
                    /\ ips'[d] = ips[d]
               /\ stage[d] \notin Early =>
                    stage'[d] \notin Early /\ addr'[d] = addr[d]
    <3> USE <1>1 DEF DialInv, DialType, GoTo, Early
    <3>1. CASE Start(x) \/ MapRead(x) \/ MapWrite(x) \/ MapPick(x)
      BY <3>1 DEF Start, MapRead, MapWrite, MapPick, AfterMap
    <3>2. CASE LookupHost(x) \/ Direct(x)
      BY <3>2 DEF LookupHost, Direct, Return
    <3>3. CASE Shuffle(x)
      BY <3>3 DEF Shuffle
    <3>4. CASE Collect(x)
      BY <3>4 DEF Collect
    <3>5. ASSUME NEW k \in DOMAIN att[x],
                 Connects(x, k) \/ SendsConn(x, k) \/ Fails(x, k)
          PROVE  /\ att[x][k] \in {"dialing", "connected"}
                 /\ att' = [att EXCEPT ![x] = att'[x]]
                 /\ UNCHANGED <<stage, addr, ips, conn, err>>
      BY <3>5 DEF Connects, SendsConn, Fails, Send
    <3>6. CASE \E k \in DOMAIN att[x] : Connects(x, k) \/ SendsConn(x, k) \/ Fails(x, k)
      <4>1. stage[x] # "done"
        BY <3>5, <3>6 DEF DialsInv, ResultInv
      <4>2. QED
        BY <3>5, <3>6, <4>1
    <3>7. CASE Timeout(x) \/ \E e \in Dials : ShufflePanics(x, e)
      BY <3>7 DEF Timeout, ShufflePanics, dialVars
    <3>8. QED
      BY <2>2, <3>1, <3>2, <3>3, <3>4, <3>6, <3>7 DEF DialStep, Proceed
  <2>3. QED
    BY <1>1, <2>1, <2>2 DEF DialNext, Setup, StopAttack, RefreshTick,
                            RefreshDone, RefreshStop, Ended, vars, dialVars
<1>2. QED
  BY <1>1, DialInvariant, PTL DEF DialSpec
=============================================================================
