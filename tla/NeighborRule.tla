---------------------------- MODULE NeighborRule ----------------------------
(***************************************************************************)
(* The ip6tables rule that drops the duplicate address detection of a host *)
(* whose address is emulated.  Addresses are their bytes in network order, *)
(* which is how they lie in memory.                                        *)
(***************************************************************************)
EXTENDS Integers, Sequences

\* Mutant: on a little-endian machine, without htonl.
uint32_t_to_eight_hex_chars_no_htonl(i) ==
    [j \in 1 .. 8 |-> IF j % 2 = 1 THEN i[4 - j \div 2] \div 16 ELSE i[5 - j \div 2] % 16]

\* An integer is its bytes in memory; htonl makes the first the highest.  Each
\* byte gives two digits, the higher one first.
uint32_t_to_eight_hex_chars(i) ==
    [j \in 1 .. 8 |-> IF j % 2 = 1 THEN i[j \div 2 + 1] \div 16 ELSE i[j \div 2] % 16]

\* The comparisons of the rule, all of which have to hold.
ipv6_to_u32_rule(address) ==
    {[at |-> 48 + 4 * pos, is |-> uint32_t_to_eight_hex_chars(SubSeq(address, 4 * pos + 1, 4 * pos + 4))]
     : pos \in 0 .. 3}

\* ip6tables reads four bytes at an offset from the IPv6 header, as a number.
u32(rule, packet) ==
    \A test \in rule : \A k \in 1 .. 4 :
        packet[test.at + k] = 16 * test.is[2 * k - 1] + test.is[2 * k]

\* An IPv6 packet with a neighbour solicitation for target in it.
neighbour_solicitation(target) ==
    [i \in 1 .. 40 |-> IF i = 1 THEN 96 ELSE IF i = 7 THEN 58 ELSE 0]
        \o <<135, 0, 0, 0, 0, 0, 0, 0>> \o target

----------------------------------------------------------------------------
\* The rule for an address drops the solicitations for this address, so that a
\* host that comes back is not told that its address is taken, and drops those
\* for no other address, which this machine still has to answer.
OnlySolicitationsFor(address, target) ==
    u32(ipv6_to_u32_rule(address), neighbour_solicitation(target)) <=> target = address
=============================================================================
