----------------------------- MODULE MCParsing -----------------------------
(***************************************************************************)
(* The parsers, each for all of a set of inputs: command lines and files   *)
(* are read step by step; every other input is a sample of its own.        *)
(***************************************************************************)
EXTENDS Args, MagicPacket, NeighborRule

VARIABLE
    sample    \* an input for one of the other parsers, or None

mcvars == <<vars, sample>>

None == [of |-> "none"]

----------------------------------------------------------------------------
(* Words.  ULLONG_MAX and UINT_MAX are scaled to 999999 and 99999, within  *)
(* TLC's integers; uint8_t and uint16_t are not.                           *)

Zero == <<0>>   \* glibc: no digits read are a 0

Pton ==
    "10.0.0.1" :> [family |-> 4, address |-> "A"] @@ "::1" :> [family |-> 6, address |-> "L"]
    @@ "0:0:0:0:0:0:0:1" :> [family |-> 6, address |-> "L"]
    @@ "fe80::123" :> [family |-> 6, address |-> "B"]

\* The digits of a number below 1000.
Numeral(n) ==
    (IF n >= 100 THEN <<digits[1 + (n \div 100)]>> ELSE <<>>)
        \o (IF n >= 10 THEN <<digits[1 + ((n \div 10) % 10)]>> ELSE <<>>) \o <<digits[1 + (n % 10)]>>

\* The ten words from 10 * tens on, and all words up to 129.
Decade(tens) ==
    FoldSet(LAMBDA n, f : (ToString(n) :> Numeral(n)) @@ f, <<>>, 10 * tens .. 10 * tens + 9)

Characters ==
    FoldSet(LAMBDA tens, f : Decade(tens) @@ f, <<>>, 0 .. 12 \cup {25})
    @@ "12345" :> <<"1", "2", "3", "4", "5">>
    @@ "23456" :> <<"2", "3", "4", "5", "6">> @@ "65536" :> <<"6", "5", "5", "3", "6">>
    @@ "100000" :> <<"1", "0", "0", "0", "0", "0">> @@ "eth0" :> <<"e", "t", "h", "0">>
    @@ [address \in DOMAIN Pton |-> <<"1", ".">>]   \* no number: "." or ":" in it

Ntop == "A" :> "10.0.0.1" @@ "L" :> "::1" @@ "B" :> "fe80::123"

Tokens ==
    "10.0.0.1/16" :> <<"10.0.0.1", "/", "16">> @@ "fe80::123/64" :> <<"fe80::123", "/", "64">>
    @@ "::1" :> <<"::1">> @@ "10.0.0.1/33" :> <<"10.0.0.1", "/", "33">>

AddressTexts ==
    LET Words == DOMAIN Pton \cup {"24", "33", "128", "129", "256", "eth0"}
    IN  {t \in UNION {[1 .. n -> Words \cup Separators] : n \in 0 .. 3} :
             \A i \in 1 .. Len(t) - 1 : t[i] \in Separators \/ t[i + 1] \in Separators}
        \cup {<<w, sep1, v, sep2, "eth0">> : w \in DOMAIN Pton, v \in Words,
                                             sep1 \in {"/", "%"}, sep2 \in {"/", "%"}}

NumberTexts ==
    UNION {[1 .. n -> {"0", "2", "5", "6", "-", "a", "z"}] : n \in 0 .. 3}
    \cup {<<"6", "5", "5", "3", x>> : x \in {"4", "5", "6"}}
    \cup {<<x, "9", "9", "9", "9", "9">> : x \in {"0", "1", "9"}} \cup {[i \in 1 .. 7 |-> "9"]}

----------------------------------------------------------------------------
(* Packets: addresses and payloads differ in every byte.                   *)

Client == <<2, 17, 34, 51, 68, 85>>
Target == <<1, 18, 52, 69, 103, 137>>
Broken == <<255, 255, 255, 255, 255, 254>>
AllOnes == [i \in 1 .. 6 |-> 255]

IpV4(ihl) == <<64 + ihl, 0, 0, 40, 1, 2, 0, 0, 64, 6, 0, 0, 10, 0, 0, 7, 10, 0, 0, 1>>
                 \o [i \in 1 .. 4 * (ihl - 5) |-> 1] \o <<200, 1, 0, 80>>
IpV6 == <<96, 0, 0, 0, 0, 20, 6, 64>> \o [i \in 1 .. 32 |-> 127 + i] \o <<200, 1, 0, 80>>

Ips == {[bytes |-> IpV4(ihl),
         meant |-> ip(ETHERTYPE_IP, 4 * ihl, <<10, 0, 0, 7>>, <<10, 0, 0, 1>>, 6)] : ihl \in {5, 6}}
       \cup {[bytes |-> IpV6,
              meant |-> ip(ETHERTYPE_IPV6, 40, [i \in 1 .. 16 |-> 127 + i], [i \in 1 .. 16 |-> 143 + i], 6)]}

Bytes(n) == <<n \div 256, n % 256>>

LinkHeader(type, proto) ==
    (IF type = DLT_LINUX_SLL THEN <<0, 0, 0, 1, 0, 6>> \o Client \o <<0, 0>> ELSE Target \o Client)
        \o Bytes(proto)

Link(type, tagged, proto) ==
    IF tagged THEN LinkHeader(type, ETHERTYPE_VLAN) \o <<0, 5>> \o Bytes(proto)
    ELSE LinkHeader(type, proto)

V6Addresses == {[i \in 1 .. 16 |-> IF i = k THEN 1 ELSE IF i = 1 THEN 254 ELSE 0] : k \in 2 .. 16}

----------------------------------------------------------------------------
Samples ==
    [of : {"number"}, max : {255, 65535, UINT_MAX}, text : NumberTexts]
    \cup [of : {"address"}, text : AddressTexts]
    \cup {[of |-> "packet", type |-> type, link |-> Link(type, tagged, i.meant.version),
           source |-> Client, ip |-> i, target |-> Target]
          : type \in {DLT_LINUX_SLL, DLT_EN10MB}, tagged \in BOOLEAN, i \in Ips}
    \cup [of : {"magic"}, sent : {Target, Client, Broken, AllOnes}, hw_addr : {Client},
          mac : {Target, Client, Broken, AllOnes}, before : {<<>>, <<255>>, IpV4(5)}]
    \cup [of : {"rule"}, address : V6Addresses, target : V6Addresses]

FileLines == {<<"host">>, <<"port", "22">>, <<"port", "65536">>, <<"address", "::1">>}
OddLines  == {<<"hostname", "x">>, <<"name", "x">>, <<"address", "10.0.0.1/33">>,
              <<"ping_tries", "5", "6">>, <<>>}

ShortFiles == UNION {[1 .. n -> FileLines \cup OddLines] : n \in 0 .. 2}
LongFiles  == UNION {[1 .. n -> FileLines] : n \in 3 .. 4}

SecondFile == <<<<"host">>, <<"mac", "02:11:22:33:44:55">>, <<"junk", "x">>, <<"host">>,
                <<"wol_method", "udp">>, <<"interface", "eth0">>, <<"ping_tries", "100000">>>>
ThirdFile  == <<<<"host">>, <<"mac", "02:11:22:33:44:55">>, <<"wol_method", "udp">>>>

CommandLines ==
    {<<"c1">>, <<"s", "c1">>, <<"c1", "s", "c3">>, <<"c2", "c1">>, <<"?", "c1", "h">>, <<"c4">>, <<>>}

AllInputs ==
    {[given |-> line, files |-> "c1" :> content @@ "c2" :> SecondFile @@ "c3" :> ThirdFile @@ "c4" :> <<>>]
     : line \in CommandLines, content \in ShortFiles}
    \cup {[given |-> <<"c1">>, files |-> "c1" :> content] : content \in LongFiles}

MCInit == \/ Init /\ sample = None
          \/ Starts(<<>>, <<>>) /\ sample \in Samples

MCNext ==
    \/ Option     /\ UNCHANGED sample
    \/ NoOption   /\ UNCHANGED sample
    \/ SkipLine   /\ UNCHANGED sample
    \/ ReadLine   /\ UNCHANGED sample
    \/ EndSection /\ UNCHANGED sample
    \/ Ended      /\ UNCHANGED sample

MCSpec == MCInit /\ [][MCNext]_mcvars

----------------------------------------------------------------------------
\* Numbers (ports, subnets, ping_tries): str_to_integral never wraps around,
\* for texts of up to three characters and at the limits of each type.
NumbersExact == sample.of = "number" => NumberExact(sample.max, sample.text)

\* Addresses: what is added to the interface is the address that was
\* configured, with a subnet that exists.
AddressesExact == sample.of = "address" => AddressExact(sample.text)

\* Packets with and without VLAN tag and IPv4 options, from cooked and Ethernet
\* captures, give their own addresses and protocol, however few bytes behind the
\* fixed part of the IP header were captured; one cut before that gives no
\* connection.
PacketsUnderstood ==
    sample.of = "packet" =>
        PacketUnderstood(sample.type, sample.link, sample.source, sample.ip.bytes, sample.ip.meant)

\* The SYN that woke the host reaches it: replay_data injects the same IP
\* packet, from the client to the host.
ReplaysFaithful ==
    sample.of = "packet" /\ sample.type = DLT_LINUX_SLL /\ Len(sample.link) = 16 =>
        ReplayFaithful(sample.link, sample.source, sample.ip.bytes, sample.ip.meant, sample.target)

\* A magic packet of either method ends the emulation of the host it is for,
\* and of no other, also where the MAC looks like the six bytes before it.
MagicPacketsForUs ==
    sample.of = "magic" => MagicForUs(sample.sent, sample.mac, sample.hw_addr, sample.before)

\* Neighbour solicitations are dropped for the address of the rule only.
SolicitationsForUs ==
    sample.of = "rule" => OnlySolicitationsFor(sample.address, sample.target)
=============================================================================
