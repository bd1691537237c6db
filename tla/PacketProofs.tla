---------------------------- MODULE PacketProofs ----------------------------
(***************************************************************************)
(* Proofs about packets, for any sample and not only those of the run: the *)
(* headers of a captured packet, its replay, magic packets and the rule    *)
(* against neighbour solicitations.                                        *)
(***************************************************************************)
EXTENDS MCParsing, SequenceTheorems, TLAPS

Byte == 0 .. 255

\* The sequences of n bytes.
Sized(n) == {s \in Seq(Byte) : Len(s) = n}

\* A function from 1 .. n to bytes is a sequence of n bytes.
LEMMA FunctionIsSequence ==
    ASSUME NEW n \in Nat, NEW f \in [1 .. n -> Byte]
    PROVE  f \in Sized(n)
<1>1. f \in Seq(Byte)
  BY SeqDef
<1>2. Len(f) = n
  <2>1. Len(f) \in Nat /\ DOMAIN f = 1 .. Len(f)
    BY <1>1, LenProperties
  <2>2. 1 .. Len(f) = 1 .. n
    BY <2>1
  <2> QED  BY <2>1, <2>2
<1> QED  BY <1>1, <1>2 DEF Sized

\* The elements of a sequence of bytes are bytes.
LEMMA Element ==
    ASSUME NEW n \in Nat, NEW s \in Sized(n), NEW i \in 1 .. n
    PROVE  s[i] \in Byte
BY ElementOfSeq DEF Sized

\* Sequences with the same elements are the same.
LEMMA Same ==
    ASSUME NEW n \in Nat, NEW s \in Sized(n), NEW t \in Sized(n), \A i \in 1 .. n : s[i] = t[i]
    PROVE  s = t
BY SeqEqual DEF Sized

\* Concatenation, under a name that hides it from the provers' own rules.
Cat(s, t) == s \o t

\* The length and the elements of a concatenation.
LEMMA Joined ==
    ASSUME NEW m \in Nat, NEW n \in Nat, NEW s \in Sized(m), NEW t \in Sized(n)
    PROVE  /\ Cat(s, t) \in Sized(m + n)
           /\ \A i \in 1 .. m : Cat(s, t)[i] = s[i]
           /\ \A i \in 1 .. n : Cat(s, t)[m + i] = t[i]
<1>1. s \in Seq(Byte) /\ t \in Seq(Byte) /\ Len(s) = m /\ Len(t) = n
  BY DEF Sized
<1>2. /\ Cat(s, t) \in Seq(Byte)
      /\ Len(Cat(s, t)) = m + n
      /\ \A i \in 1 .. m + n : Cat(s, t)[i] = IF i <= m THEN s[i] ELSE t[i - m]
  BY <1>1, ConcatProperties DEF Cat
<1>3. Cat(s, t) \in Sized(m + n)
  BY <1>2 DEF Sized
<1>4. \A i \in 1 .. m : Cat(s, t)[i] = s[i]
  BY <1>2
<1>5. ASSUME NEW i \in 1 .. n
      PROVE  Cat(s, t)[m + i] = t[i]
  <2>1. m + i \in 1 .. m + n /\ ~(m + i <= m) /\ (m + i) - m = i
    OBVIOUS
  <2>2. Cat(s, t)[m + i] = t[(m + i) - m]
    BY <1>2, <2>1
  <2> QED  BY <2>1, <2>2
<1> QED  BY <1>3, <1>4, <1>5

\* The length and the elements of a part of a sequence.
LEMMA Slice ==
    ASSUME NEW n \in Nat, NEW s \in Sized(n), NEW a \in Nat, NEW b \in Nat, a + b <= n
    PROVE  /\ SubSeq(s, a + 1, a + b) \in Sized(b)
           /\ \A i \in 1 .. b : SubSeq(s, a + 1, a + b)[i] = s[a + i]
<1>1. \A i \in a + 1 .. a + b : s[i] \in Byte
  BY Element
<1>2. a + 1 \in Int /\ a + b \in Int /\ (a + b) - (a + 1) + 1 = b
      /\ (IF a + 1 <= a + b THEN (a + b) - (a + 1) + 1 ELSE 0) = b
      /\ \A i \in 1 .. b : (a + 1) + i - 1 = a + i
  OBVIOUS
<1>3. /\ SubSeq(s, a + 1, a + b) \in Seq(Byte)
      /\ Len(SubSeq(s, a + 1, a + b)) = IF a + 1 <= a + b THEN (a + b) - (a + 1) + 1 ELSE 0
      /\ \A i \in 1 .. (a + b) - (a + 1) + 1 : SubSeq(s, a + 1, a + b)[i] = s[(a + 1) + i - 1]
  BY <1>1, <1>2, SubSeqProperties
<1>4. Len(SubSeq(s, a + 1, a + b)) = b
  BY <1>2, <1>3
<1>5. ASSUME NEW i \in 1 .. b
      PROVE  SubSeq(s, a + 1, a + b)[i] = s[a + i]
  BY <1>2, <1>3
<1> QED  BY <1>3, <1>4, <1>5 DEF Sized

\* The digits that uint32_t_to_eight_hex_chars gives for a byte stand for this
\* byte.
LEMMA Digits ==
    ASSUME NEW i, NEW k \in 1 .. 4, i[k] \in Byte
    PROVE  LET d == uint32_t_to_eight_hex_chars(i)
           IN  16 * d[2 * k - 1] + d[2 * k] = i[k]
<1> DEFINE d == uint32_t_to_eight_hex_chars(i)
<1>1. /\ 2 * k - 1 \in 1 .. 8 /\ (2 * k - 1) % 2 = 1 /\ (2 * k - 1) \div 2 + 1 = k
      /\ 2 * k \in 1 .. 8 /\ (2 * k) % 2 # 1 /\ (2 * k) \div 2 = k
  OBVIOUS
<1>2. d[2 * k - 1] = i[k] \div 16
  BY <1>1 DEF uint32_t_to_eight_hex_chars
<1>3. d[2 * k] = i[k] % 16
  BY <1>1 DEF uint32_t_to_eight_hex_chars
<1>4. 16 * (i[k] \div 16) + (i[k] % 16) = i[k]
  BY DEF Byte
<1> QED  BY <1>2, <1>3, <1>4

\* The target of a neighbour solicitation begins 48 bytes into the packet.
LEMMA TargetAt ==
    ASSUME NEW target \in Sized(16), NEW j \in 1 .. 16
    PROVE  neighbour_solicitation(target)[48 + j] = target[j]
<1> DEFINE head == [i \in 1 .. 40 |-> IF i = 1 THEN 96 ELSE IF i = 7 THEN 58 ELSE 0]
           icmp == <<135, 0, 0, 0, 0, 0, 0, 0>>
<1>1. head \in Sized(40)
  <2>1. head \in [1 .. 40 -> Byte]
    BY DEF Byte
  <2> QED  BY <2>1, FunctionIsSequence
<1>2. icmp \in Sized(8)
  BY DEF Sized, Byte
<1> HIDE DEF head, icmp
<1> DEFINE front == Cat(head, icmp)
<1>3. front \in Sized(48)
  BY <1>1, <1>2, Joined
<1> HIDE DEF front
<1>4. Cat(front, target)[48 + j] = target[j]
  BY <1>3, Joined
<1> QED  BY <1>4 DEF neighbour_solicitation, Cat, front, head, icmp

\* The rule of ipv6_to_u32_rule matches the solicitations for its address only.
LEMMA OneRuleOneAddress ==
    ASSUME NEW address \in Sized(16), NEW target \in Sized(16)
    PROVE  OnlySolicitationsFor(address, target)
<1> DEFINE word(pos) == SubSeq(address, 4 * pos + 1, 4 * pos + 4)
           packet == neighbour_solicitation(target)
<1>1. ASSUME NEW pos \in 0 .. 3, NEW k \in 1 .. 4
      PROVE  word(pos)[k] = address[4 * pos + k] /\ word(pos)[k] \in Byte
  <2>1. address \in Seq(Byte) /\ Len(address) = 16 /\ \A j \in 1 .. 16 : address[j] \in Byte
    BY ElementOfSeq DEF Sized
  <2>2. 4 * pos + 1 \in 1 .. 16 /\ 4 * pos + 4 \in 1 .. 16 /\ 4 * pos + k \in 1 .. 16
    OBVIOUS
  <2>3. word(pos)[k] = address[4 * pos + k]
    BY <2>1, <2>2
  <2> QED  BY <2>1, <2>2, <2>3
<1>2. ASSUME NEW pos \in 0 .. 3, NEW k \in 1 .. 4
      PROVE  packet[48 + 4 * pos + k] = target[4 * pos + k]
  <2>1. 4 * pos + k \in 1 .. 16 /\ 48 + (4 * pos + k) = 48 + 4 * pos + k
    OBVIOUS
  <2> QED  BY <2>1, TargetAt
<1> HIDE DEF word, packet
<1>3. u32(ipv6_to_u32_rule(address), packet)
        <=> \A pos \in 0 .. 3 : \A k \in 1 .. 4 :
                packet[48 + 4 * pos + k] = 16 * uint32_t_to_eight_hex_chars(word(pos))[2 * k - 1]
                                              + uint32_t_to_eight_hex_chars(word(pos))[2 * k]
  <2> DEFINE test(pos) == [at |-> 48 + 4 * pos, is |-> uint32_t_to_eight_hex_chars(word(pos))]
             holds(t) == \A k \in 1 .. 4 : packet[t.at + k] = 16 * t.is[2 * k - 1] + t.is[2 * k]
  <2>1. ipv6_to_u32_rule(address) = {test(pos) : pos \in 0 .. 3}
    BY DEF ipv6_to_u32_rule, word
  <2>2. u32(ipv6_to_u32_rule(address), packet) <=> \A t \in ipv6_to_u32_rule(address) : holds(t)
    BY DEF u32
  <2>3. (\A t \in ipv6_to_u32_rule(address) : holds(t)) <=> \A pos \in 0 .. 3 : holds(test(pos))
    <3> HIDE DEF holds, test
    <3> QED  BY <2>1
  <2>4. ASSUME NEW pos \in 0 .. 3
        PROVE  test(pos).at = 48 + 4 * pos /\ test(pos).is = uint32_t_to_eight_hex_chars(word(pos))
    OBVIOUS
  <2> HIDE DEF test
  <2> QED  BY <2>2, <2>3, <2>4
<1>4. @ <=> \A pos \in 0 .. 3 : \A k \in 1 .. 4 : target[4 * pos + k] = address[4 * pos + k]
  BY <1>1, <1>2, Digits
<1>5. @ <=> target = address
  <2>1. ASSUME \A pos \in 0 .. 3 : \A k \in 1 .. 4 : target[4 * pos + k] = address[4 * pos + k],
               NEW j \in 1 .. 16
        PROVE  target[j] = address[j]
    <3>1. (j - 1) \div 4 \in 0 .. 3 /\ ((j - 1) % 4) + 1 \in 1 .. 4
          /\ 4 * ((j - 1) \div 4) + (((j - 1) % 4) + 1) = j
      OBVIOUS
    <3> QED  BY <2>1, <3>1
  <2>2. ASSUME \A j \in 1 .. 16 : target[j] = address[j]
        PROVE  target = address
    BY <2>2, SeqEqual DEF Sized
  <2> QED  BY <2>1, <2>2
<1> QED  BY <1>3, <1>4, <1>5 DEF OnlySolicitationsFor, packet

----------------------------------------------------------------------------
\* create_wol_payload gives 102 bytes: six times 0xff, then the MAC again and
\* again.
LEMMA Payload ==
    ASSUME NEW mac \in Sized(6)
    PROVE  /\ create_wol_payload(mac) \in Sized(102)
           /\ \A i \in 1 .. 102 : create_wol_payload(mac)[i] = IF i <= 6 THEN 255 ELSE mac[((i - 1) % 6) + 1]
<1>1. \A i \in 1 .. 102 : ((i - 1) % 6) + 1 \in 1 .. 6
  OBVIOUS
<1>2. \A i \in 1 .. 6 : mac[i] \in Byte
  BY Element
<1>3. 255 \in Byte
  BY DEF Byte
<1>4. create_wol_payload(mac) \in [1 .. 102 -> Byte]
  BY <1>1, <1>2, <1>3 DEF create_wol_payload
<1>5. create_wol_payload(mac) \in Sized(102)
  BY <1>4, FunctionIsSequence
<1>6. \A i \in 1 .. 102 : create_wol_payload(mac)[i] = IF i <= 6 THEN 255 ELSE mac[((i - 1) % 6) + 1]
  BY DEF create_wol_payload
<1> QED  BY <1>5, <1>6

\* Six bytes in a row of the pattern, behind its beginning, have a first byte of
\* the MAC among them.
LEMMA FirstByteInWindow ==
    ASSUME NEW d \in 1 .. 96
    PROVE  \E j \in 1 .. 6 : d + j \in 7 .. 102 /\ (d + j - 1) % 6 = 0
<1>1. PICK q \in 1 .. 17, r \in 0 .. 5 : d + 5 = 6 * q + r
  <2>1. (d + 5) \div 6 \in 1 .. 17 /\ (d + 5) % 6 \in 0 .. 5
        /\ d + 5 = 6 * ((d + 5) \div 6) + ((d + 5) % 6)
    OBVIOUS
  <2> QED  BY <2>1
<1>2. /\ 6 - r \in 1 .. 6 /\ d + (6 - r) - 1 = 6 * q
      /\ d + (6 - r) \in 7 .. 102
  BY <1>1
<1>3. (6 * q) % 6 = 0
  OBVIOUS
<1> QED  BY <1>2, <1>3

\* is_magic_packet finds the pattern of a MAC in a payload, behind any headers,
\* exactly if the payload was made for this MAC.  A find before the payload's
\* own beginning would need 0xff where the first byte of the MAC is.
LEMMA FoundOnlyForUs ==
    ASSUME NEW n \in Nat, n <= 96, NEW headers \in Sized(n),
           NEW sent \in Sized(6), NEW mac \in Sized(6), mac[1] # 255
    PROVE  is_magic_packet(headers \o create_wol_payload(sent), mac) <=> sent = mac
<1> DEFINE data == headers \o create_wol_payload(sent)
           found == create_wol_payload(mac)
<1>1. /\ data \in Sized(n + 102)
      /\ \A i \in 1 .. 102 : data[n + i] = create_wol_payload(sent)[i]
  <2> DEFINE made == create_wol_payload(sent)
  <2>1. made \in Sized(102)
    BY Payload
  <2> HIDE DEF made
  <2>2. Cat(headers, made) \in Sized(n + 102) /\ \A i \in 1 .. 102 : Cat(headers, made)[n + i] = made[i]
    <3> DEFINE size == 102
    <3>1. made \in Sized(size) /\ size \in Nat
      BY <2>1
    <3> HIDE DEF size
    <3>2. Cat(headers, made) \in Sized(n + size)
      BY <3>1, Joined
    <3>3. \A i \in 1 .. size : Cat(headers, made)[n + i] = made[i]
      BY <3>1, Joined
    <3> QED  BY <3>2, <3>3 DEF size
  <2>3. data = Cat(headers, made)
    BY DEF Cat, made
  <2> HIDE DEF data
  <2> QED  BY <2>2, <2>3 DEF made
<1>2. found \in Sized(102)
  BY Payload
<1> HIDE DEF data, found
<1>3. is_magic_packet(data, mac) <=> \E k \in 0 .. n : SubSeq(data, k + 1, k + 102) = found
  <2>1. Len(data) = n + 102
    BY <1>1 DEF Sized
  <2>2. Len(data) - 102 = n
    BY <2>1
  <2> QED  BY <2>2 DEF is_magic_packet, found
<1>4. ASSUME NEW k \in 0 .. n
      PROVE  /\ SubSeq(data, k + 1, k + 102) \in Sized(102)
             /\ \A i \in 1 .. 102 : SubSeq(data, k + 1, k + 102)[i] = data[k + i]
  <2>1. k \in Nat /\ k + 102 <= n + 102
    OBVIOUS
  <2> QED  BY <1>1, <2>1, Slice
<1>5. ASSUME sent = mac
      PROVE  is_magic_packet(data, mac)
  <2>1. n \in 0 .. n /\ 102 \in Nat
    OBVIOUS
  <2>2. /\ SubSeq(data, n + 1, n + 102) \in Sized(102)
        /\ \A i \in 1 .. 102 : SubSeq(data, n + 1, n + 102)[i] = data[n + i]
    BY <1>4, <2>1, Zenon
  <2>3. \A i \in 1 .. 102 : data[n + i] = found[i]
    BY <1>1, <1>5, Zenon DEF found
  <2>4. SubSeq(data, n + 1, n + 102) = found
    <3> DEFINE there == SubSeq(data, n + 1, n + 102)
    <3>1. there \in Sized(102) /\ \A i \in 1 .. 102 : there[i] = found[i]
      BY <2>2, <2>3
    <3> HIDE DEF there
    <3>2. there = found
      BY <1>2, <3>1, Same
    <3> QED  BY <3>2 DEF there
  <2> QED  BY <1>3, <2>1, <2>4, Zenon
<1>6. ASSUME NEW k \in 0 .. n, SubSeq(data, k + 1, k + 102) = found
      PROVE  sent = mac
  <2>1. \A i \in 1 .. 102 : data[k + i] = found[i]
    BY <1>4, <1>6
  <2>2. CASE k < n
    <3>1. PICK d \in 1 .. 96 : n = k + d
      <4>1. n - k \in 1 .. 96 /\ n = k + (n - k)
        BY <2>2
      <4> QED  BY <4>1
    <3>2. PICK j \in 1 .. 6 : d + j \in 7 .. 102 /\ (d + j - 1) % 6 = 0
      BY FirstByteInWindow
    <3>3. data[n + j] = 255
      BY <1>1, Payload
    <3>4. found[d + j] = mac[1]
      BY <3>2, Payload DEF found
    <3>5. n + j = k + (d + j) /\ d + j \in 1 .. 102
      BY <3>1, <3>2
    <3> QED  BY <2>1, <3>3, <3>4, <3>5
  <2>3. CASE k = n
    <3>1. ASSUME NEW i \in 1 .. 6
          PROVE  sent[i] = mac[i]
      <4>1. 6 + i \in 1 .. 102 /\ ~(6 + i <= 6) /\ (((6 + i) - 1) % 6) + 1 = i
        OBVIOUS
      <4>2. create_wol_payload(sent)[6 + i] = sent[i]
        BY <4>1, Payload
      <4>3. found[6 + i] = mac[i]
        BY <4>1, Payload DEF found
      <4> QED  BY <1>1, <2>1, <2>3, <4>1, <4>2, <4>3
    <3> QED  BY <3>1, Same
  <2> QED  BY <2>2, <2>3
<1> QED  BY <1>3, <1>5, <1>6 DEF data

\* The same for the packets of wol_udp and of wol_ethernet.
LEMMA MagicPacketIsForUs ==
    ASSUME NEW n \in Nat, n <= 96, NEW headers \in Sized(n), NEW hw_addr \in Sized(6),
           NEW sent \in Sized(6), NEW mac \in Sized(6), mac[1] # 255
    PROVE  MagicForUs(sent, mac, hw_addr, headers)
<1>1. break_on_magic_packet(headers \o wol_udp(sent), mac) <=> sent = mac
  BY FoundOnlyForUs DEF break_on_magic_packet, wol_udp
<1> DEFINE type   == <<ETHERTYPE_WAKE_ON_LAN \div 256, ETHERTYPE_WAKE_ON_LAN % 256>>
           made   == create_wol_payload(sent)
           header == Cat(Cat(sent, hw_addr), type)
           frame  == Cat(header, made)
<1>2. type = <<8, 66>>
  BY DEF ETHERTYPE_WAKE_ON_LAN
<1>3. type \in Sized(2)
  BY <1>2 DEF Sized, Byte
<1>4. wol_ethernet(hw_addr, sent) = frame
  BY DEF wol_ethernet, create_ethernet_header, Cat
<1>5. made \in Sized(102)
  BY Payload
<1> HIDE DEF type, made
<1>6. header \in Sized(14) /\ header[13] = type[1] /\ header[14] = type[2]
  <2>1. Cat(sent, hw_addr) \in Sized(12)
    BY Joined
  <2>2. header \in Sized(12 + 2) /\ \A i \in 1 .. 2 : header[12 + i] = type[i]
    BY <1>3, <2>1, Joined
  <2> HIDE DEF header
  <2> QED  BY <2>2
<1> HIDE DEF header
<1>7. frame \in Sized(116) /\ frame[13] = header[13] /\ frame[14] = header[14]
  BY <1>5, <1>6, Joined
<1>8. break_on_magic_packet(frame, mac) <=> sent = mac
  BY <1>6, FoundOnlyForUs DEF break_on_magic_packet, Cat, made
<1> HIDE DEF frame
<1>9. parse_ethernet(frame).payload_protocol = ETHERTYPE_WAKE_ON_LAN
  <2>1. Len(frame) = 116
    BY <1>7 DEF Sized
  <2>2. U16(frame, 12) = 2114
    BY <1>2, <1>6, <1>7 DEF U16
  <2> QED  BY <2>1, <2>2 DEF parse_ethernet, Link_layer, ETHERTYPE_WAKE_ON_LAN
<1> QED  BY <1>1, <1>4, <1>8, <1>9 DEF MagicForUs

----------------------------------------------------------------------------
\* The length and the elements of what is left of a packet.
LEMMA Dropped ==
    ASSUME NEW n \in Nat, NEW data \in Sized(n), NEW k \in 0 .. n
    PROVE  /\ Drop(data, k) \in Sized(n - k)
           /\ \A i \in 1 .. n - k : Drop(data, k)[i] = data[k + i]
<1>1. PICK b \in Nat : n - k = b /\ n = k + b
  BY SMT
<1>2. Len(data) = n
  BY DEF Sized
<1>3. Drop(data, k) = SubSeq(data, k + 1, k + b)
  BY <1>1, <1>2 DEF Drop
<1>4. /\ SubSeq(data, k + 1, k + b) \in Sized(b)
      /\ \A i \in 1 .. b : SubSeq(data, k + 1, k + b)[i] = data[k + i]
  BY <1>1, Slice
<1> QED  BY <1>1, <1>3, <1>4

\* Parts of two sequences that agree there are the same.
LEMMA SliceSame ==
    ASSUME NEW m \in Nat, NEW n \in Nat, NEW s \in Sized(m), NEW t \in Sized(n),
           NEW a \in Nat, NEW b \in Nat, a + b <= m, a + b <= n,
           \A i \in 1 .. b : s[a + i] = t[a + i]
    PROVE  SubSeq(s, a + 1, a + b) = SubSeq(t, a + 1, a + b)
<1> DEFINE x == SubSeq(s, a + 1, a + b)
           y == SubSeq(t, a + 1, a + b)
<1>1. x \in Sized(b) /\ \A i \in 1 .. b : x[i] = s[a + i]
  BY Slice
<1>2. y \in Sized(b) /\ \A i \in 1 .. b : y[i] = t[a + i]
  BY Slice
<1> HIDE DEF x, y
<1>3. x = y
  BY <1>1, <1>2, Same
<1> QED  BY <1>3 DEF x, y

\* b bytes after the first a ones.
Part(s, a, b) == SubSeq(s, a + 1, a + b)

\* A part is known by its elements.
LEMMA Middle ==
    ASSUME NEW n \in Nat, NEW s \in Sized(n), NEW a \in Nat, NEW b \in Nat, a + b <= n,
           NEW t \in Sized(b), \A i \in 1 .. b : s[a + i] = t[i]
    PROVE  Part(s, a, b) = t
<1> DEFINE x == SubSeq(s, a + 1, a + b)
<1>1. x \in Sized(b) /\ \A i \in 1 .. b : x[i] = s[a + i]
  BY Slice
<1> HIDE DEF x
<1>2. x = t
  BY <1>1, Same
<1> QED  BY <1>2 DEF x, Part

\* The link layer header alone, without a VLAN tag.
Size(type) == IF type = DLT_LINUX_SLL THEN 16 ELSE 14

\* A link layer header with the client's address in it, with or without a VLAN
\* tag behind it, for a packet of the protocol.
IsLink(type, link, source, protocol) ==
    /\ type \in {DLT_LINUX_SLL, DLT_EN10MB}
    /\ protocol \in {ETHERTYPE_IP, ETHERTYPE_IPV6}
    /\ type = DLT_LINUX_SLL => U16(link, 2) \in {1, 772} /\ U16(link, 4) = 6
    /\ SubSeq(link, 7, 12) = source
    /\ \/ /\ link \in Sized(Size(type))
          /\ U16(link, Size(type) - 2) = protocol
       \/ /\ link \in Sized(Size(type) + 4)
          /\ U16(link, Size(type) - 2) = ETHERTYPE_VLAN
          /\ U16(link, Size(type) + 2) = protocol

\* A VLAN tag makes a header four bytes longer, and nothing else does.
LEMMA LinkLength ==
    ASSUME NEW type, NEW link, NEW source, NEW protocol, IsLink(type, link, source, protocol),
           NEW l \in Nat, link \in Sized(l)
    PROVE  /\ Size(type) \in 14 .. 16
           /\ \/ l = Size(type) /\ U16(link, Size(type) - 2) = protocol
              \/ /\ l = Size(type) + 4
                 /\ U16(link, Size(type) - 2) = ETHERTYPE_VLAN
                 /\ U16(link, Size(type) + 2) = protocol
<1>1. Size(type) \in 14 .. 16
  BY DEF Size
<1>2. Len(link) = l
  BY DEF Sized
<1>3. ASSUME NEW k, link \in Sized(k)
      PROVE  l = k
  BY <1>2, <1>3 DEF Sized
<1> QED  BY <1>1, <1>3 DEF IsLink

\* parse_link_layer reads a whole header, whatever is behind it.
LEMMA LinkParsed ==
    ASSUME NEW type, NEW link, NEW source, NEW protocol, IsLink(type, link, source, protocol),
           NEW n \in Nat, NEW data \in Sized(n), n >= Size(type),
           \A i \in 1 .. Size(type) : data[i] = link[i]
    PROVE  parse_link_layer(type, data) = Link_layer(Size(type), source, U16(link, Size(type) - 2))
<1> USE DEF DLT_LINUX_SLL, DLT_EN10MB, ETHERTYPE_VLAN
<1>1. PICK l \in Nat : l >= 14 /\ link \in Sized(l)
  BY DEF IsLink, Size
<1>2. n >= 14 /\ Len(data) = n /\ \A i \in 1 .. 14 : data[i] = link[i]
  BY DEF Size, Sized
<1>3. SubSeq(data, 7, 12) = source
  <2>1. SubSeq(data, 6 + 1, 6 + 6) = SubSeq(link, 6 + 1, 6 + 6)
    <3>1. \A i \in 1 .. 6 : data[6 + i] = link[6 + i]
      BY <1>2
    <3>2. 6 \in Nat /\ 6 + 6 <= n /\ 6 + 6 <= l
      BY <1>1, <1>2
    <3> QED  BY <1>1, <3>1, <3>2, SliceSame
  <2> QED  BY <2>1 DEF IsLink
<1>4. U16(data, 2) = U16(link, 2) /\ U16(data, 4) = U16(link, 4)
  BY <1>2 DEF U16
<1>5. CASE type = DLT_LINUX_SLL
  <2>1. U16(data, 14) = U16(link, Size(type) - 2) /\ Size(type) = 16
    BY <1>5 DEF U16, Size
  <2>2. parse_link_layer(type, data) = parse_linux_cooked_capture(data)
    BY <1>5 DEF parse_link_layer
  <2>3. ~(Len(data) < 16) /\ U16(data, 2) \in {1, 772} /\ U16(data, 4) = 6
    BY <1>2, <1>4, <1>5, <2>1 DEF IsLink
  <2>4. parse_linux_cooked_capture(data) = Link_layer(16, SubSeq(data, 7, 12), U16(data, 14))
    BY <2>3 DEF parse_linux_cooked_capture
  <2> QED  BY <1>3, <2>1, <2>2, <2>4
<1>6. CASE type # DLT_LINUX_SLL
  <2>1. U16(data, 12) = U16(link, Size(type) - 2) /\ Size(type) = 14
    BY <1>6 DEF U16, Size
  <2>2. parse_link_layer(type, data) = parse_ethernet(data)
    BY <1>6 DEF parse_link_layer, IsLink
  <2>3. parse_ethernet(data) = Link_layer(14, SubSeq(data, 7, 12), U16(data, 12))
    BY <1>2 DEF parse_ethernet
  <2> QED  BY <1>3, <2>1, <2>2, <2>3
<1> QED  BY <1>5, <1>6

\* What get_headers makes of what it finds behind the link layer.
WithLink(ll, ips) == {IF i = Exception THEN Exception ELSE [ll |-> ll, ip |-> i] : i \in ips}

\* get_headers finds the IP packet behind a whole link layer header, tag or not.
LEMMA HeadersFound ==
    ASSUME NEW type, NEW link, NEW source, NEW protocol, IsLink(type, link, source, protocol),
           NEW l \in Nat, link \in Sized(l), NEW n \in Nat, NEW data \in Sized(n), n >= l,
           \A i \in 1 .. l : data[i] = link[i]
    PROVE  get_headers(type, data) = WithLink(parse_link_layer(type, link), parse_ip_header(protocol, Drop(data, l)))
<1> DEFINE ll   == parse_link_layer(type, data)
           rest == Drop(data, ll.header_length)
           vlan == parse_link_layer(ETHERTYPE_VLAN, rest)
<1>1. Size(type) \in 14 .. 16 /\ l \in {Size(type), Size(type) + 4}
  BY LinkLength
<1>2. ll = Link_layer(Size(type), source, U16(link, Size(type) - 2))
  BY <1>1, LinkParsed
<1>3. parse_link_layer(type, link) = ll
  <2>1. parse_link_layer(type, link) = Link_layer(Size(type), source, U16(link, Size(type) - 2))
    BY <1>1, LinkParsed
  <2> QED  BY <1>2, <2>1
<1>4. ll # Exception /\ ll # Null /\ ll.header_length = Size(type)
      /\ ll.payload_protocol = U16(link, Size(type) - 2)
  <2> HIDE DEF ll
  <2> QED  BY <1>2 DEF Link_layer, Exception, Null
<1>5. /\ ll.payload_protocol # ETHERTYPE_VLAN
         => get_headers(type, data) = WithLink(ll, parse_ip_header(ll.payload_protocol, rest))
      /\ ll.payload_protocol = ETHERTYPE_VLAN /\ vlan # Exception
         => get_headers(type, data)
                = WithLink(ll, parse_ip_header(vlan.payload_protocol, Drop(rest, vlan.header_length)))
  BY <1>4 DEF get_headers, WithLink
<1>6. rest \in Sized(n - Size(type)) /\ \A i \in 1 .. n - Size(type) : rest[i] = data[Size(type) + i]
  <2>1. rest = Drop(data, Size(type)) /\ Size(type) \in 0 .. n
    BY <1>1, <1>4
  <2> HIDE DEF rest
  <2> QED  BY <2>1, Dropped
<1> HIDE DEF ll, rest
<1>7. CASE link \in Sized(Size(type)) /\ U16(link, Size(type) - 2) = protocol
  <2>1. l = Size(type) /\ protocol # ETHERTYPE_VLAN
    BY <1>7 DEF Sized, IsLink, ETHERTYPE_IP, ETHERTYPE_IPV6, ETHERTYPE_VLAN
  <2>2. rest = Drop(data, l)
    BY <1>4, <2>1 DEF rest
  <2> QED  BY <1>3, <1>4, <1>5, <1>7, <2>1, <2>2
<1>8. CASE /\ link \in Sized(Size(type) + 4)
           /\ U16(link, Size(type) - 2) = ETHERTYPE_VLAN
           /\ U16(link, Size(type) + 2) = protocol
  <2>1. l = Size(type) + 4
    BY <1>8 DEF Sized
  <2>2. Len(rest) = n - Size(type) /\ ~(Len(rest) < 4)
    BY <1>1, <1>6, <2>1 DEF Sized
  <2>3. U16(rest, 2) = protocol
    <3>1. rest[3] = link[Size(type) + 3] /\ rest[4] = link[Size(type) + 4]
      <4>1. 3 \in 1 .. n - Size(type) /\ 4 \in 1 .. n - Size(type)
            /\ Size(type) + 3 \in 1 .. l /\ Size(type) + 4 \in 1 .. l
        BY <1>1, <2>1
      <4> QED  BY <1>6, <4>1
    <3> QED  BY <1>1, <1>8, <3>1 DEF U16
  <2>4. vlan = Link_layer(4, <<0, 0, 0, 0, 0, 0>>, protocol)
    BY <2>2, <2>3 DEF parse_link_layer, parse_VLAN_Header, DLT_LINUX_SLL, DLT_EN10MB, ETHERTYPE_VLAN
  <2>5. vlan # Exception /\ vlan.header_length = 4 /\ vlan.payload_protocol = protocol
    <3> HIDE DEF vlan
    <3> QED  BY <2>4 DEF Link_layer, Exception
  <2>6. Drop(rest, 4) = Drop(data, l)
    <3>1. PICK b \in Nat : b = n - l /\ n - Size(type) = b + 4
      BY <1>1, <2>1
    <3>2. 4 \in 0 .. b + 4 /\ l \in 0 .. n /\ (b + 4) - 4 = b /\ b + 4 \in Nat
      BY <3>1
    <3> DEFINE x == Drop(rest, 4)
               y == Drop(data, l)
    <3>3. x \in Sized(b) /\ \A i \in 1 .. b : x[i] = rest[4 + i]
      BY <1>6, <3>1, <3>2, Dropped
    <3>4. y \in Sized(b) /\ \A i \in 1 .. b : y[i] = data[l + i]
      BY <3>1, <3>2, Dropped
    <3> HIDE DEF x, y
    <3>5. \A i \in 1 .. b : rest[4 + i] = data[l + i]
      BY <1>1, <1>6, <2>1, <3>1
    <3>6. x = y
      BY <3>3, <3>4, <3>5, Same
    <3> QED  BY <3>6 DEF x, y
  <2> HIDE DEF vlan
  <2> QED  BY <1>3, <1>4, <1>5, <1>8, <2>5, <2>6
<1> QED  BY <1>7, <1>8 DEF IsLink

\* get_headers throws if the link layer header or its tag is cut.
LEMMA LinkCut ==
    ASSUME NEW type, NEW link, NEW source, NEW protocol, IsLink(type, link, source, protocol),
           NEW l \in Nat, link \in Sized(l), NEW n \in Nat, NEW data \in Sized(n), n < l,
           \A i \in 1 .. n : data[i] = link[i]
    PROVE  get_headers(type, data) = {Exception}
<1> USE DEF DLT_LINUX_SLL, DLT_EN10MB, ETHERTYPE_VLAN
<1> DEFINE ll   == parse_link_layer(type, data)
           rest == Drop(data, ll.header_length)
           vlan == parse_link_layer(ETHERTYPE_VLAN, rest)
<1>1. Size(type) \in 14 .. 16 /\ l \in {Size(type), Size(type) + 4} /\ Len(data) = n
  BY LinkLength DEF Sized
<1>2. CASE n < Size(type)
  <2>1. ll = Exception
    BY <1>1, <1>2 DEF parse_link_layer, parse_linux_cooked_capture, parse_ethernet, IsLink, Size
  <2> QED  BY <2>1 DEF get_headers
<1>3. CASE n >= Size(type)
  <2>1. l = Size(type) + 4 /\ U16(link, Size(type) - 2) = ETHERTYPE_VLAN
    BY <1>1, <1>3 DEF IsLink, Sized
  <2>2. ll = Link_layer(Size(type), source, ETHERTYPE_VLAN)
    BY <1>1, <1>3, <2>1, LinkParsed
  <2>3. ll # Exception /\ ll # Null /\ ll.header_length = Size(type) /\ ll.payload_protocol = ETHERTYPE_VLAN
    <3> HIDE DEF ll
    <3> QED  BY <2>2 DEF Link_layer, Exception, Null
  <2>4. Len(rest) = n - Size(type)
    <3>1. rest = Drop(data, Size(type)) /\ Size(type) \in 0 .. n
      BY <1>1, <1>3, <2>3
    <3> HIDE DEF rest
    <3>2. rest \in Sized(n - Size(type))
      BY <3>1, Dropped
    <3> QED  BY <3>2 DEF Sized
  <2>5. vlan = Exception
    <3> HIDE DEF rest
    <3> QED  BY <1>1, <2>1, <2>4 DEF parse_link_layer, parse_VLAN_Header
  <2> QED  BY <2>3, <2>5 DEF get_headers
<1> QED  BY <1>1, <1>2, <1>3

\* The length of the fixed part of an IP header.
Shortest(version) == IF version = ETHERTYPE_IP THEN 20 ELSE 40

\* A packet of m bytes with the fixed part of an IP header, at least, that says
\* what is meant; options may be cut.
IsIp(packet, m, meant) ==
    /\ m \in Nat /\ packet \in Sized(m)
    /\ \/ /\ m >= 20 /\ packet[1] \div 16 = 4
          /\ meant = ip(ETHERTYPE_IP, 4 * (packet[1] % 16), SubSeq(packet, 13, 16), SubSeq(packet, 17, 20),
                        packet[10])
       \/ /\ m >= 40 /\ packet[1] \div 16 = 6
          /\ meant = ip(ETHERTYPE_IPV6, 40, SubSeq(packet, 9, 24), SubSeq(packet, 25, 40), packet[7])

\* parse_ip_header understands the fixed part of an IP header.
LEMMA IpParsed ==
    ASSUME NEW m, NEW packet, NEW meant, IsIp(packet, m, meant)
    PROVE  /\ parse_ip_header(meant.version, packet) = {meant}
           /\ meant # Exception
           /\ meant.version \in {ETHERTYPE_IP, ETHERTYPE_IPV6}
<1>1. Len(packet) = m /\ m \in Nat /\ m >= 20
  BY DEF IsIp, Sized
<1>2. packet # <<>>
  BY <1>1, EmptySeq
<1>3. packet[1] \in Byte
  BY <1>1, Element DEF IsIp
<1> DEFINE version == packet[1] \div 16
<1>4. parse_ip_header(meant.version, packet)
        = {IF ethernet_payload_and_ip_version_dont_match(meant.version, version) THEN Null
           ELSE CASE meant.version = ETHERTYPE_IP   -> parse_ipv4(packet)
                  [] meant.version = ETHERTYPE_IPV6 -> parse_ipv6(packet)
                  [] OTHER                          -> Null}
  BY <1>2 DEF parse_ip_header
<1> HIDE DEF version
<1>5. CASE version = 4 /\ meant = ip(ETHERTYPE_IP, 4 * (packet[1] % 16), SubSeq(packet, 13, 16),
                                     SubSeq(packet, 17, 20), packet[10])
  <2>1. meant.version = ETHERTYPE_IP /\ meant.is = "header"
    BY <1>5 DEF ip
  <2>2. ~ethernet_payload_and_ip_version_dont_match(meant.version, version)
    BY <1>5, <2>1 DEF ethernet_payload_and_ip_version_dont_match, ETHERTYPE_IP, ETHERTYPE_IPV6
  <2>3. parse_ipv4(packet) = meant
    <3>1. (packet[1] % 16) * 4 = 4 * (packet[1] % 16)
      BY <1>3 DEF Byte
    <3> QED  BY <1>1, <1>5, <3>1 DEF parse_ipv4
  <2>4. parse_ip_header(meant.version, packet) = {meant}
    BY <1>4, <2>1, <2>2, <2>3 DEF ETHERTYPE_IP, ETHERTYPE_IPV6
  <2> QED  BY <2>1, <2>4 DEF Exception
<1>6. CASE /\ version = 6 /\ m >= 40
           /\ meant = ip(ETHERTYPE_IPV6, 40, SubSeq(packet, 9, 24), SubSeq(packet, 25, 40), packet[7])
  <2>1. meant.version = ETHERTYPE_IPV6 /\ meant.is = "header"
    BY <1>6 DEF ip
  <2>2. ~ethernet_payload_and_ip_version_dont_match(meant.version, version)
    BY <1>6, <2>1 DEF ethernet_payload_and_ip_version_dont_match, ETHERTYPE_IP, ETHERTYPE_IPV6
  <2>3. parse_ipv6(packet) = meant
    BY <1>1, <1>6 DEF parse_ipv6
  <2>4. parse_ip_header(meant.version, packet) = {meant}
    BY <1>4, <2>1, <2>2, <2>3 DEF ETHERTYPE_IP, ETHERTYPE_IPV6
  <2> QED  BY <2>1, <2>4 DEF Exception
<1> QED  BY <1>5, <1>6 DEF IsIp, version

\* A beginning with the fixed part of the IP header means the same.
LEMMA IpBegun ==
    ASSUME NEW m, NEW packet, NEW meant, IsIp(packet, m, meant),
           NEW k \in Nat, NEW p \in Sized(k), Shortest(meant.version) <= k, k <= m,
           \A i \in 1 .. k : p[i] = packet[i]
    PROVE  IsIp(p, k, meant)
<1>1. m \in Nat /\ packet \in Sized(m)
  BY DEF IsIp
<1>2. ASSUME NEW a \in Nat, NEW b \in Nat, a + b <= k
      PROVE  SubSeq(p, a + 1, a + b) = SubSeq(packet, a + 1, a + b)
  <2>1. a + b <= m /\ \A i \in 1 .. b : a + i \in 1 .. k
    BY <1>1, <1>2
  <2>2. \A i \in 1 .. b : p[a + i] = packet[a + i]
    BY <2>1
  <2> QED  BY <1>1, <1>2, <2>1, <2>2, SliceSame
<1>3. CASE /\ packet[1] \div 16 = 4
           /\ meant = ip(ETHERTYPE_IP, 4 * (packet[1] % 16), SubSeq(packet, 13, 16),
                         SubSeq(packet, 17, 20), packet[10])
  <2>1. k >= 20
    BY <1>3 DEF ip, Shortest
  <2>2. SubSeq(p, 12 + 1, 12 + 4) = SubSeq(packet, 12 + 1, 12 + 4)
    BY <1>2, <2>1
  <2>3. SubSeq(p, 16 + 1, 16 + 4) = SubSeq(packet, 16 + 1, 16 + 4)
    BY <1>2, <2>1
  <2>4. p[1] = packet[1] /\ p[10] = packet[10]
    BY <2>1
  <2>5. SubSeq(p, 13, 16) = SubSeq(packet, 13, 16) /\ SubSeq(p, 17, 20) = SubSeq(packet, 17, 20)
    BY <2>2, <2>3
  <2>6. meant = ip(ETHERTYPE_IP, 4 * (p[1] % 16), SubSeq(p, 13, 16), SubSeq(p, 17, 20), p[10])
    BY <1>3, <2>4, <2>5, Zenon
  <2>7. p[1] \div 16 = 4
    BY <1>3, <2>4
  <2> QED  BY <2>1, <2>6, <2>7, Zenon DEF IsIp
<1>4. CASE /\ packet[1] \div 16 = 6
           /\ meant = ip(ETHERTYPE_IPV6, 40, SubSeq(packet, 9, 24), SubSeq(packet, 25, 40), packet[7])
  <2>1. k >= 40
    BY <1>4 DEF ip, Shortest, ETHERTYPE_IP, ETHERTYPE_IPV6
  <2>2. SubSeq(p, 8 + 1, 8 + 16) = SubSeq(packet, 8 + 1, 8 + 16)
    BY <1>2, <2>1
  <2>3. SubSeq(p, 24 + 1, 24 + 16) = SubSeq(packet, 24 + 1, 24 + 16)
    BY <1>2, <2>1
  <2>4. p[1] = packet[1] /\ p[7] = packet[7]
    BY <2>1
  <2>5. SubSeq(p, 9, 24) = SubSeq(packet, 9, 24) /\ SubSeq(p, 25, 40) = SubSeq(packet, 25, 40)
    BY <2>2, <2>3
  <2>6. meant = ip(ETHERTYPE_IPV6, 40, SubSeq(p, 9, 24), SubSeq(p, 25, 40), p[7])
    BY <1>4, <2>4, <2>5, Zenon
  <2>7. p[1] \div 16 = 6
    BY <1>4, <2>4
  <2> QED  BY <2>1, <2>6, <2>7, Zenon DEF IsIp
<1> QED  BY <1>3, <1>4 DEF IsIp

\* parse_ip_header gives no header for a packet that is too short, whatever it
\* reads as the version of an empty one.
LEMMA IpCut ==
    ASSUME NEW protocol \in {ETHERTYPE_IP, ETHERTYPE_IPV6}, NEW n \in Nat, NEW data \in Sized(n),
           n < Shortest(protocol)
    PROVE  parse_ip_header(protocol, data) \subseteq {Null, Exception}
<1>1. Len(data) = n
  BY DEF Sized
<1>2. CASE protocol = ETHERTYPE_IP
  <2>1. parse_ipv4(data) = Exception
    BY <1>1, <1>2 DEF parse_ipv4, Shortest
  <2> QED  BY <1>2, <2>1 DEF parse_ip_header, ETHERTYPE_IP, ETHERTYPE_IPV6
<1>3. CASE protocol = ETHERTYPE_IPV6
  <2>1. parse_ipv6(data) = Exception
    BY <1>1, <1>3 DEF parse_ipv6, Shortest, ETHERTYPE_IP, ETHERTYPE_IPV6
  <2> QED  BY <1>3, <2>1 DEF parse_ip_header, ETHERTYPE_IP, ETHERTYPE_IPV6
<1> QED  BY <1>2, <1>3

\* Two headers are not taken for an exception.
LEMMA HeadersAreNoException ==
    ASSUME NEW l, NEW i
    PROVE  [ll |-> l, ip |-> i] # Exception
<1>1. DOMAIN [ll |-> l, ip |-> i] = {"ll", "ip"}
  OBVIOUS
<1>2. DOMAIN Exception = {"is"}
  BY DEF Exception
<1>3. {"ll", "ip"} # {"is"}
  OBVIOUS
<1> QED  BY <1>1, <1>2, <1>3

\* What get_headers returns.
Headers(l, i) == [ll |-> l, ip |-> i]

\* A link layer header for what is meant.
LinkTo(type, link, source, meant) == IsLink(type, link, source, meant.version)

\* Such a packet behind a whole link layer header.
LEMMA PacketParsed ==
    ASSUME NEW type, NEW link, NEW source, NEW m, NEW packet, NEW meant, IsIp(packet, m, meant),
           LinkTo(type, link, source, meant), NEW l \in Nat, link \in Sized(l)
    PROVE  /\ Drop(Cat(link, packet), l) = packet
           /\ get_headers(type, Cat(link, packet)) = {Headers(parse_link_layer(type, link), meant)}
<1> DEFINE data == Cat(link, packet)
<1>1. m \in Nat /\ packet \in Sized(m)
  BY DEF IsIp
<1>2. /\ data \in Sized(l + m)
      /\ \A i \in 1 .. l : data[i] = link[i]
      /\ \A i \in 1 .. m : data[l + i] = packet[i]
  BY <1>1, Joined
<1> HIDE DEF data
<1>3. Drop(data, l) = packet
  <2> DEFINE x == Drop(data, l)
  <2>1. l + m \in Nat /\ l \in 0 .. l + m /\ (l + m) - l = m
    BY <1>1
  <2>2. x \in Sized(m) /\ \A i \in 1 .. m : x[i] = data[l + i]
    BY <1>2, <2>1, Dropped
  <2> HIDE DEF x
  <2>3. x = packet
    BY <1>1, <1>2, <2>2, Same
  <2> QED  BY <2>3 DEF x
<1>4. get_headers(type, data) = WithLink(parse_link_layer(type, link), parse_ip_header(meant.version, packet))
  <2>1. l + m \in Nat /\ l + m >= l
    BY <1>1
  <2> QED  BY <1>2, <1>3, <2>1, HeadersFound DEF LinkTo
<1>5. get_headers(type, data) = {Headers(parse_link_layer(type, link), meant)}
  BY <1>4, IpParsed DEF WithLink, Headers
<1> QED  BY <1>3, <1>5 DEF data

\* Catch_incoming_connection gives what is meant for a packet and for all of its
\* beginnings, but for those that are too short, which give no IP header.
LEMMA Understood ==
    ASSUME NEW type, NEW link, NEW source, NEW m, NEW packet, NEW meant, IsIp(packet, m, meant),
           IsLink(type, link, source, meant.version)
    PROVE  PacketUnderstood(type, link, source, packet, meant)
<1> DEFINE data == Cat(link, packet)
           limit == Shortest(meant.version)
<1>1. PICK l \in Nat : link \in Sized(l)
  BY DEF IsLink, Size
<1>2. /\ m \in Nat /\ packet \in Sized(m) /\ Len(link) = l
      /\ meant.version \in {ETHERTYPE_IP, ETHERTYPE_IPV6}
  BY <1>1, IpParsed DEF IsIp, Sized
<1>3. /\ data \in Sized(l + m)
      /\ \A i \in 1 .. l : data[i] = link[i]
      /\ \A i \in 1 .. m : data[l + i] = packet[i]
  <2>1. m \in Nat /\ packet \in Sized(m)
    BY <1>2
  <2>2. data \in Sized(l + m)
    BY <1>1, <2>1, Joined
  <2>3. \A i \in 1 .. l : data[i] = link[i]
    BY <1>1, <2>1, Joined
  <2>4. \A i \in 1 .. m : data[l + i] = packet[i]
    BY <1>1, <2>1, Joined
  <2> QED  BY <2>2, <2>3, <2>4
<1>4. limit \in Nat /\ limit <= m
  <2>1. meant.version = ETHERTYPE_IPV6 => m >= 40
    BY DEF IsIp, ip, ETHERTYPE_IP, ETHERTYPE_IPV6
  <2>2. m >= 20
    BY DEF IsIp
  <2> QED  BY <1>2, <2>1, <2>2 DEF Shortest
<1> HIDE DEF data, limit
<1>7. parse_link_layer(type, link).source = source
  <2>1. l >= Size(type)
    BY <1>1, LinkLength
  <2>2. parse_link_layer(type, link) = Link_layer(Size(type), source, U16(link, Size(type) - 2))
    BY <1>1, <2>1, LinkParsed
  <2> QED  BY <2>2 DEF Link_layer
<1>6. ASSUME NEW n \in Nat, n <= l + m
      PROVE  SubSeq(data, 1, n) \in Sized(n) /\ \A i \in 1 .. n : SubSeq(data, 1, n)[i] = data[i]
  <2>1. l + m \in Nat /\ 0 + n <= l + m
    BY <1>2, <1>6
  <2>2. /\ SubSeq(data, 0 + 1, 0 + n) \in Sized(n)
        /\ \A i \in 1 .. n : SubSeq(data, 0 + 1, 0 + n)[i] = data[0 + i]
    BY <1>3, <2>1, Slice
  <2> QED  BY <2>2
<1>8. ASSUME NEW n \in 0 .. l + limit - 1
      PROVE  \A c \in Catch_incoming_connection(type, SubSeq(data, 1, n)) : c.headers.ip = Null
  <2> DEFINE cut == SubSeq(data, 1, n)
  <2>1. n \in Nat /\ n <= l + m /\ n < l + limit
    BY <1>2, <1>4
  <2>2. cut \in Sized(n) /\ \A i \in 1 .. n : cut[i] = data[i]
    BY <2>1, <1>6
  <2> HIDE DEF cut
  <2>4. ASSUME NEW h \in get_headers(type, cut)
        PROVE  h = Exception \/ h.ip = Null
    <3>1. CASE n < l
      <4>1. \A i \in 1 .. n : cut[i] = link[i]
        BY <1>3, <2>2, <3>1
      <4> QED  BY <1>1, <2>1, <2>2, <2>4, <3>1, <4>1, LinkCut
    <3>2. CASE n >= l
      <4>1. \A i \in 1 .. l : cut[i] = link[i]
        BY <1>3, <2>2, <3>2
      <4>2. get_headers(type, cut)
              = WithLink(parse_link_layer(type, link), parse_ip_header(meant.version, Drop(cut, l)))
        BY <1>1, <2>1, <2>2, <3>2, <4>1, HeadersFound
      <4>3. n - l \in Nat /\ n - l < limit /\ l \in 0 .. n
        BY <2>1, <3>2, <1>4
      <4>4. Drop(cut, l) \in Sized(n - l)
        BY <2>1, <2>2, <4>3, Dropped
      <4>5. parse_ip_header(meant.version, Drop(cut, l)) \subseteq {Null, Exception}
        BY <1>2, <4>3, <4>4, IpCut DEF limit
      <4> QED  BY <2>4, <4>2, <4>5 DEF WithLink
    <3> QED  BY <2>1, <3>1, <3>2
  <2>5. ASSUME NEW c \in Catch_incoming_connection(type, cut)
        PROVE  c.headers.ip = Null
    <3>1. PICK h \in get_headers(type, cut) :
              c = IF h = Exception THEN [data |-> <<>>, headers |-> [ll |-> Null, ip |-> Null]]
                  ELSE [data |-> cut, headers |-> h]
      BY <2>5 DEF Catch_incoming_connection
    <3>2. CASE h = Exception
      BY <3>1, <3>2
    <3>3. CASE h # Exception
      BY <2>4, <3>1, <3>3
    <3> QED  BY <3>2, <3>3
  <2> QED  BY <2>5 DEF cut
<1>9. ASSUME NEW n \in l + limit .. l + m
      PROVE  Catch_incoming_connection(type, SubSeq(data, 1, n)) =
                 {[data |-> SubSeq(data, 1, n),
                   headers |-> [ll |-> parse_link_layer(type, link), ip |-> meant]]}
  <2> DEFINE cut == SubSeq(data, 1, n)
             rest == Drop(cut, l)
  <2>1. n \in Nat /\ n <= l + m /\ l <= n /\ l \in 0 .. n
    BY <1>2, <1>4
  <2>2. cut \in Sized(n) /\ \A i \in 1 .. n : cut[i] = data[i]
    BY <2>1, <1>6
  <2>3. PICK k \in Nat : n - l = k /\ n = l + k /\ limit <= k /\ k <= m
    <3>1. n - l \in Nat /\ n = l + (n - l) /\ limit <= n - l /\ n - l <= m
      BY <1>2, <1>4, <2>1
    <3> QED  BY <3>1
  <2> HIDE DEF cut
  <2>4. rest \in Sized(k) /\ \A i \in 1 .. k : rest[i] = cut[l + i]
    BY <2>1, <2>2, <2>3, Dropped
  <2> HIDE DEF rest
  <2>5. \A i \in 1 .. k : rest[i] = packet[i]
    <3> SUFFICES ASSUME NEW i \in 1 .. k  PROVE rest[i] = packet[i]
      OBVIOUS
    <3>1. l + i \in 1 .. n /\ i \in 1 .. m
      BY <1>2, <2>3
    <3> QED  BY <1>3, <2>2, <2>4, <3>1
  <2>6. IsIp(rest, k, meant)
    BY <2>3, <2>4, <2>5, IpBegun DEF limit
  <2>7. \A i \in 1 .. l : cut[i] = link[i]
    BY <1>3, <2>1, <2>2
  <2>8. get_headers(type, cut) = WithLink(parse_link_layer(type, link), parse_ip_header(meant.version, rest))
    BY <1>1, <2>1, <2>2, <2>7, HeadersFound DEF rest
  <2>9. get_headers(type, cut) = {Headers(parse_link_layer(type, link), meant)}
    BY <2>6, <2>8, IpParsed DEF WithLink, Headers
  <2>10. Catch_incoming_connection(type, cut)
           = {[data |-> cut, headers |-> [ll |-> parse_link_layer(type, link), ip |-> meant]]}
    BY <2>9, HeadersAreNoException DEF Catch_incoming_connection, Headers
  <2> QED  BY <2>10 DEF cut
<1>10. Len(data) = l + m
  BY <1>3 DEF Sized
<1> QED  BY <1>2, <1>7, <1>8, <1>9, <1>10 DEF PacketUnderstood, data, Cat, limit, Shortest

\* The replayed frame begins with an Ethernet header that says so.
LEMMA HeaderMade ==
    ASSUME NEW target \in Sized(6), NEW source \in Sized(6),
           NEW protocol \in {ETHERTYPE_IP, ETHERTYPE_IPV6}
    PROVE  LET header == create_ethernet_header(target, source, protocol)
           IN  /\ header \in Sized(14)
               /\ \A i \in 1 .. 6 : header[i] = target[i]
               /\ IsLink(DLT_EN10MB, header, source, protocol)
<1> USE DEF DLT_LINUX_SLL, DLT_EN10MB
<1> DEFINE type == <<protocol \div 256, protocol % 256>>
           macs == Cat(target, source)
           header == Cat(macs, type)
<1>1. type \in Sized(2) /\ 256 * type[1] + type[2] = protocol
  <2>1. CASE protocol = ETHERTYPE_IP
    <3>1. type = <<8, 0>>
      BY <2>1 DEF ETHERTYPE_IP
    <3> QED  BY <2>1, <3>1 DEF ETHERTYPE_IP, Sized, Byte
  <2>2. CASE protocol = ETHERTYPE_IPV6
    <3>1. type = <<134, 221>>
      BY <2>2 DEF ETHERTYPE_IPV6
    <3> QED  BY <2>2, <3>1 DEF ETHERTYPE_IPV6, Sized, Byte
  <2> QED  BY <2>1, <2>2
<1>2. /\ macs \in Sized(12)
      /\ \A i \in 1 .. 6 : macs[i] = target[i]
      /\ \A i \in 1 .. 6 : macs[6 + i] = source[i]
  <2>1. macs \in Sized(6 + 6)
    BY Joined
  <2>2. \A i \in 1 .. 6 : macs[i] = target[i]
    BY Joined
  <2>3. \A i \in 1 .. 6 : macs[6 + i] = source[i]
    BY Joined
  <2> HIDE DEF macs
  <2> QED  BY <2>1, <2>2, <2>3
<1>3. header = create_ethernet_header(target, source, protocol)
  BY DEF create_ethernet_header, Cat
<1> HIDE DEF type, macs
<1>4. /\ header \in Sized(14)
      /\ \A i \in 1 .. 12 : header[i] = macs[i]
      /\ \A i \in 1 .. 2 : header[12 + i] = type[i]
  BY <1>1, <1>2, Joined
<1> HIDE DEF header
<1>5. \A i \in 1 .. 6 : header[i] = target[i] /\ header[6 + i] = source[i]
  BY <1>2, <1>4
<1>6. SubSeq(header, 7, 12) = source
  <2>1. PICK a \in Nat, n \in Nat : a = 6 /\ n = 14
    OBVIOUS
  <2>2. a + a <= n /\ header \in Sized(n) /\ source \in Sized(a) /\ \A i \in 1 .. a : header[a + i] = source[i]
    BY <1>4, <1>5, <2>1
  <2>3. Part(header, a, a) = source
    BY <2>2, Middle
  <2> QED  BY <2>1, <2>3 DEF Part
<1>7. U16(header, 12) = protocol
  BY <1>1, <1>4 DEF U16
<1>8. IsLink(DLT_EN10MB, header, source, protocol)
  BY <1>4, <1>6, <1>7 DEF IsLink, Size
<1> QED  BY <1>3, <1>4, <1>5, <1>8

\* replay_data gives one frame, for the host and with the captured packet in it.
LEMMA Replayed ==
    ASSUME NEW link \in Sized(16), NEW source \in Sized(6), NEW m, NEW packet, NEW meant,
           IsIp(packet, m, meant), IsLink(DLT_LINUX_SLL, link, source, meant.version),
           NEW target \in Sized(6)
    PROVE  ReplayFaithful(link, source, packet, meant, target)
<1> DEFINE data   == Cat(link, packet)
           h      == [ll |-> Link_layer(16, source, meant.version), ip |-> meant]
           header == create_ethernet_header(target, source, meant.version)
           frame  == Cat(header, packet)
<1>1. /\ m \in Nat /\ packet \in Sized(m)
      /\ meant.version \in {ETHERTYPE_IP, ETHERTYPE_IPV6}
  BY IpParsed DEF IsIp
<1>2. Drop(data, 16) = packet /\ get_headers(DLT_LINUX_SLL, data) = {h}
  <2>1. Size(DLT_LINUX_SLL) = 16
    BY DEF Size
  <2>2. U16(link, 14) = meant.version
    BY <2>1, LinkLength
  <2>3. parse_link_layer(DLT_LINUX_SLL, link) = Link_layer(16, source, meant.version)
    BY <2>1, <2>2, LinkParsed
  <2>4. PICK n \in Nat : n = 16 /\ link \in Sized(n)
    OBVIOUS
  <2>5. /\ Drop(data, n) = packet
        /\ get_headers(DLT_LINUX_SLL, data) = {Headers(parse_link_layer(DLT_LINUX_SLL, link), meant)}
    <3>1. LinkTo(DLT_LINUX_SLL, link, source, meant)
      BY DEF LinkTo
    <3> QED  BY <2>4, <3>1, PacketParsed
  <2> HIDE DEF data
  <2> QED  BY <2>3, <2>4, <2>5 DEF Headers
<1> HIDE DEF data
<1>3. h # Exception /\ h.ll # Null /\ h.ll.source = source /\ h.ll.header_length = 16 /\ h.ip = meant
  BY HeadersAreNoException DEF Link_layer, Null
<1> HIDE DEF h
<1>4. replay_data(data, target) = {frame}
  BY <1>2, <1>3 DEF replay_data, Cat
<1>5. /\ header \in Sized(14)
      /\ \A i \in 1 .. 6 : header[i] = target[i]
      /\ IsLink(DLT_EN10MB, header, source, meant.version)
      /\ LinkTo(DLT_EN10MB, header, source, meant)
  BY <1>1, HeaderMade DEF LinkTo
<1> HIDE DEF header
<1>6. SubSeq(frame, 1, 6) = target
  <2>1. frame \in Sized(14 + m) /\ \A i \in 1 .. 14 : frame[i] = header[i]
    BY <1>1, <1>5, Joined
  <2> HIDE DEF frame
  <2>2. PICK a \in Nat, b \in Nat, n \in Nat : a = 0 /\ b = 6 /\ n = 14 + m
    BY <1>1
  <2>3. a + b <= n /\ frame \in Sized(n) /\ target \in Sized(b)
    BY <1>1, <2>1, <2>2
  <2>4. \A i \in 1 .. b : frame[a + i] = target[i]
    BY <1>5, <2>1, <2>2
  <2>5. Part(frame, a, b) = target
    BY <2>3, <2>4, Middle
  <2> QED  BY <2>2, <2>5 DEF Part
<1>7. Drop(frame, 14) = packet
  <2>1. PICK n \in Nat : n = 14
    OBVIOUS
  <2>2. header \in Sized(n)
    BY <1>5, <2>1
  <2>3. Drop(frame, n) = packet
    BY <1>5, <2>1, <2>2, PacketParsed
  <2> QED  BY <2>1, <2>3
<1>8. get_headers(DLT_EN10MB, frame) = {[ll |-> Link_layer(14, source, meant.version), ip |-> meant]}
  <2>1. Size(DLT_EN10MB) = 14
    BY DEF Size, DLT_EN10MB, DLT_LINUX_SLL
  <2>2. U16(header, 12) = meant.version
    BY <1>5, <2>1, LinkLength
  <2>3. parse_link_layer(DLT_EN10MB, header) = Link_layer(14, source, meant.version)
    BY <1>5, <2>1, <2>2, LinkParsed
  <2>4. get_headers(DLT_EN10MB, frame) = {Headers(parse_link_layer(DLT_EN10MB, header), meant)}
    <3>1. PICK n \in Nat : header \in Sized(n)
      BY <1>5
    <3> QED  BY <1>5, <3>1, PacketParsed
  <2> QED  BY <2>3, <2>4 DEF Headers
<1> HIDE DEF frame
<1> QED  BY <1>4, <1>6, <1>7, <1>8 DEF ReplayFaithful, data, Cat

----------------------------------------------------------------------------
\* PacketsUnderstood for any link layer header, tagged or not, any client and any
\* packet with the fixed part of an IP header: Catch_incoming_connection gives
\* what the packet says for it and for all of its beginnings that still have that
\* part, and no connection for the shorter ones.
THEOREM PacketsAreUnderstood ==
    ASSUME sample.of = "packet" =>
               /\ IsIp(sample.ip.bytes, Len(sample.ip.bytes), sample.ip.meant)
               /\ IsLink(sample.type, sample.link, sample.source, sample.ip.meant.version)
    PROVE  PacketsUnderstood
BY Understood DEF PacketsUnderstood

\* ReplaysFaithful for the same packets, any client and any host: replay_data
\* injects the captured IP packet unchanged, in a frame from the client to the
\* host.
THEOREM PacketsAreReplayed ==
    ASSUME sample.of = "packet" =>
               /\ IsIp(sample.ip.bytes, Len(sample.ip.bytes), sample.ip.meant)
               /\ IsLink(sample.type, sample.link, sample.source, sample.ip.meant.version)
               /\ sample.source \in Sized(6) /\ sample.target \in Sized(6)
    PROVE  ReplaysFaithful
<1> SUFFICES ASSUME sample.of = "packet", sample.type = DLT_LINUX_SLL, Len(sample.link) = 16
             PROVE  ReplayFaithful(sample.link, sample.source, sample.ip.bytes, sample.ip.meant, sample.target)
  BY DEF ReplaysFaithful
<1>1. sample.link \in Sized(16)
  BY DEF IsLink, Sized
<1> QED  BY <1>1, Replayed

\* MagicPacketsForUs for all MACs whose first byte is not 0xff, as it never is for
\* a network card (0xff has the multicast bit), and any headers of up to 96
\* bytes; Ethernet with a VLAN tag, IP with all options and UDP have 86.  With
\* 0xff first, break_on_magic_packet may take a packet for another MAC as its own.
THEOREM MagicPacketsAreForUs ==
    ASSUME sample.of = "magic" =>
               /\ sample.sent \in Sized(6) /\ sample.hw_addr \in Sized(6)
               /\ sample.mac \in Sized(6) /\ sample.mac[1] # 255
               /\ sample.before \in Seq(Byte) /\ Len(sample.before) <= 96
    PROVE  MagicPacketsForUs
<1> SUFFICES ASSUME sample.of = "magic"
             PROVE  MagicForUs(sample.sent, sample.mac, sample.hw_addr, sample.before)
  BY DEF MagicPacketsForUs
<1>1. PICK n \in Nat : n = Len(sample.before)
  BY LenProperties
<1>2. n <= 96 /\ sample.before \in Sized(n)
  BY <1>1 DEF Sized
<1> QED  BY <1>1, <1>2, MagicPacketIsForUs

\* SolicitationsForUs for any two IPv6 addresses: the rule of
\* Block_ipv6_neighbor_solicitation drops the solicitations for its address and
\* no others.
THEOREM SolicitationsAreForUs ==
    ASSUME sample.of = "rule" => sample.address \in Sized(16) /\ sample.target \in Sized(16)
    PROVE  SolicitationsForUs
BY OneRuleOneAddress DEF SolicitationsForUs
=============================================================================
