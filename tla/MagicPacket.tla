---------------------------- MODULE MagicPacket ----------------------------
(***************************************************************************)
(* Magic packets: what wol_udp and wol_ethernet send and what the          *)
(* Wol_watcher recognises in a captured frame.                             *)
(***************************************************************************)
EXTENDS PacketParser

ETHERTYPE_WAKE_ON_LAN == 2114

\* Six bytes 0xff and sixteen times the MAC.
create_wol_payload(mac) == [i \in 1 .. 102 |-> IF i <= 6 THEN 255 ELSE mac[((i - 1) % 6) + 1]]

\* The payload of wol_udp's datagram to port 9.
wol_udp(mac) == create_wol_payload(mac)

\* The frame of wol_ethernet, from the interface's address.
wol_ethernet(hw_addr, mac) ==
    create_ethernet_header(mac, hw_addr, ETHERTYPE_WAKE_ON_LAN) \o create_wol_payload(mac)

\* Mutant: the pattern has to be at the beginning.
is_magic_packet_prefix(data, mac) == SubSeq(data, 1, 102) = create_wol_payload(mac)

\* data_string.find(packet_string) != npos
is_magic_packet(data, mac) ==
    \E k \in 0 .. Len(data) - 102 : SubSeq(data, k + 1, k + 102) = create_wol_payload(mac)

\* The callback of the Wol_watcher's capture.
break_on_magic_packet(packet, mac) == is_magic_packet(packet, mac)

----------------------------------------------------------------------------
\* The watcher of a host reacts to a magic packet for that host, sent by either
\* method and whatever headers are before it, and to none for another host.
MagicForUs(sent, mac, hw_addr, headers) ==
    /\ break_on_magic_packet(headers \o wol_udp(sent), mac) <=> sent = mac
    /\ break_on_magic_packet(wol_ethernet(hw_addr, sent), mac) <=> sent = mac
    /\ parse_ethernet(wol_ethernet(hw_addr, sent)).payload_protocol = ETHERTYPE_WAKE_ON_LAN
=============================================================================
