---------------------------- MODULE PacketParser ----------------------------
(***************************************************************************)
(* Captured packets: link layer, VLAN and IP headers, and the frame that   *)
(* replays a packet.  A packet is a sequence of bytes.  A parser returns a *)
(* header, Null for nullptr or Exception; reading a byte that is not there *)
(* may give any value, so there may be several outcomes.                   *)
(***************************************************************************)
EXTENDS Integers, Sequences

Exception == [is |-> "exception"]

Null == [is |-> "nullptr"]

DLT_EN10MB     == 1
DLT_LINUX_SLL  == 113
ETHERTYPE_IP   == 2048
ETHERTYPE_IPV6 == 34525
ETHERTYPE_VLAN == 33024

\* ntohs of the two bytes at an offset.
U16(data, offset) == 256 * data[offset + 1] + data[offset + 2]

Drop(data, n) == SubSeq(data, n + 1, Len(data))

Link_layer(header_length, source, payload_protocol) ==
    [is |-> "header", header_length |-> header_length, source |-> source,
     payload_protocol |-> payload_protocol]

\* Ethernet (1) and loopback (772) with six bytes of address.
parse_linux_cooked_capture(data) ==
    IF Len(data) < 16 \/ U16(data, 2) \notin {1, 772} \/ U16(data, 4) # 6 THEN Exception
    ELSE Link_layer(16, SubSeq(data, 7, 12), U16(data, 14))

parse_ethernet(data) ==
    IF Len(data) < 14 THEN Exception ELSE Link_layer(14, SubSeq(data, 7, 12), U16(data, 12))

parse_VLAN_Header(data) ==
    IF Len(data) < 4 THEN Exception ELSE Link_layer(4, <<0, 0, 0, 0, 0, 0>>, U16(data, 2))

parse_link_layer(type, data) ==
    CASE type = DLT_LINUX_SLL  -> parse_linux_cooked_capture(data)
      [] type = DLT_EN10MB     -> parse_ethernet(data)
      [] type = ETHERTYPE_VLAN -> parse_VLAN_Header(data)
      [] OTHER                 -> Null

ip(version, header_length, source, destination, payload_protocol) ==
    [is |-> "header", version |-> version, header_length |-> header_length, source |-> source,
     destination |-> destination, payload_protocol |-> payload_protocol]

\* Mutant: the length is not checked, and zeros happen to be behind the packet.
parse_ipv4_unchecked(data) ==
    LET d == data \o [i \in 1 .. 20 |-> 0]
    IN  ip(ETHERTYPE_IP, (d[1] % 16) * 4, SubSeq(d, 13, 16), SubSeq(d, 17, 20), d[10])

parse_ipv4(data) ==
    IF Len(data) < 20 THEN Exception
    ELSE ip(ETHERTYPE_IP, (data[1] % 16) * 4, SubSeq(data, 13, 16), SubSeq(data, 17, 20), data[10])

parse_ipv6(data) ==
    IF Len(data) < 40 THEN Exception
    ELSE ip(ETHERTYPE_IPV6, 40, SubSeq(data, 9, 24), SubSeq(data, 25, 40), data[7])

ethernet_payload_and_ip_version_dont_match(type, version) ==
    \/ type = ETHERTYPE_IP /\ version # 4
    \/ type = ETHERTYPE_IPV6 /\ version # 6

\* The version is read before the length is checked.
parse_ip_header(type, data) ==
    {IF ethernet_payload_and_ip_version_dont_match(type, version) THEN Null
     ELSE CASE type = ETHERTYPE_IP   -> parse_ipv4(data)
            [] type = ETHERTYPE_IPV6 -> parse_ipv6(data)
            [] OTHER                 -> Null
     : version \in IF data = <<>> THEN 0 .. 15 ELSE {data[1] \div 16}}

\* The outcomes of get_headers: an exception, or the two headers.
get_headers(type, packet) ==
    LET ll   == parse_link_layer(type, packet)
        rest == Drop(packet, ll.header_length)
        vlan == parse_link_layer(ETHERTYPE_VLAN, rest)
        IpOf(payload, data) ==
            {IF i = Exception THEN Exception ELSE [ll |-> ll, ip |-> i] : i \in parse_ip_header(payload, data)}
    IN  IF ll = Exception THEN {Exception}
        ELSE IF ll = Null THEN {[ll |-> Null, ip |-> Null]}
        ELSE IF ll.payload_protocol # ETHERTYPE_VLAN THEN IpOf(ll.payload_protocol, rest)
        ELSE IF vlan = Exception THEN {Exception}
        ELSE IpOf(vlan.payload_protocol, Drop(rest, vlan.header_length))

\* Catch_incoming_connection keeps nothing of a packet it cannot parse.
Catch_incoming_connection(type, packet) ==
    {IF h = Exception THEN [data |-> <<>>, headers |-> [ll |-> Null, ip |-> Null]]
     ELSE [data |-> packet, headers |-> h] : h \in get_headers(type, packet)}

\* Mutant: source and destination are swapped.
create_ethernet_header_swapped(dmac, smac, type) ==
    smac \o dmac \o <<type \div 256, type % 256>>

create_ethernet_header(dmac, smac, type) ==
    dmac \o smac \o <<type \div 256, type % 256>>

\* The frames replay_data may inject for what was captured.
replay_data(data, target_mac) ==
    {create_ethernet_header(target_mac, h.ll.source, h.ip.version)
         \o Drop(data, h.ll.header_length)
     : h \in {x \in get_headers(DLT_LINUX_SLL, data) : x # Exception /\ x.ll # Null}}

----------------------------------------------------------------------------
\* A packet, given as its link layer header (with a VLAN tag or not) and its IP
\* packet, may be captured whole or only in its beginning.  A beginning that
\* ends before the fixed part of the IP header does (20 bytes, or 40, with the
\* protocol and both addresses) gives no connection.  The packet and every
\* longer beginning are understood as what was put into the packet: also one
\* that ends inside the options of IPv4, which parse_ipv4 does not look for.
PacketUnderstood(type, link, source, packet, meant) ==
    LET data  == link \o packet
        fixed == Len(link) + (IF meant.version = ETHERTYPE_IP THEN 20 ELSE 40)
    IN  /\ parse_link_layer(type, link).source = source
        /\ \A n \in 0 .. fixed - 1 :
               \A c \in Catch_incoming_connection(type, SubSeq(data, 1, n)) : c.headers.ip = Null
        /\ \A n \in fixed .. Len(data) :
               Catch_incoming_connection(type, SubSeq(data, 1, n)) =
                   {[data |-> SubSeq(data, 1, n),
                     headers |-> [ll |-> parse_link_layer(type, link), ip |-> meant]]}

\* The replayed frame is an Ethernet frame to the host that was woken, from the
\* client, with the captured IP packet in it, byte for byte.
ReplayFaithful(link, source, packet, meant, target) ==
    /\ replay_data(link \o packet, target) # {}
    /\ \A f \in replay_data(link \o packet, target) :
           /\ SubSeq(f, 1, 6) = target
           /\ get_headers(DLT_EN10MB, f) =
                  {[ll |-> Link_layer(14, source, meant.version), ip |-> meant]}
           /\ Drop(f, 14) = packet
=============================================================================
