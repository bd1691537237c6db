------------------------------ MODULE Network ------------------------------
(***************************************************************************)
(* The part of the Linux kernel that sleep-proxy changes through the       *)
(* commands `ip addr` and `iptables`, and the commands themselves: what    *)
(* the functors Temp_ip, Drop_port, Reject_tp and Block_icmp name when a   *)
(* Scope_guard runs them with Action::add or Action::del.                  *)
(*                                                                         *)
(* The INPUT and OUTPUT chains are kept in one sequence: the rules of the  *)
(* two chains never match the same packet, so only the order inside a      *)
(* chain can be seen.  The head of the sequence is matched first.          *)
(***************************************************************************)
EXTENDS Naturals, Sequences, FiniteSets

CONSTANTS
    IPs,      \* addresses: those of the watched hosts and of the clients
    PortNos   \* TCP and UDP port numbers

----------------------------------------------------------------------------
(* The resources a guard may hold.  A rule is identified by its text: two  *)
(* guards that print the same command hold two copies of the same rule.    *)

\* iptables INPUT -d ip -p tcp|udp -j REJECT
Reject_tp(ip, tp)   == [cmd |-> "reject", ip |-> ip, tp |-> tp, port |-> "any"]

\* iptables INPUT -d ip -p tcp --syn --dport port -j DROP
Drop_port(ip, port) == [cmd |-> "drop", ip |-> ip, tp |-> "tcp", port |-> port]

\* ip addr ip dev iface
Temp_ip(ip)         == [cmd |-> "addr", ip |-> ip, tp |-> "any", port |-> "any"]

\* iptables OUTPUT -d ip -p icmp --icmp-type destination-unreachable -j DROP
Block_icmp(ip)      == [cmd |-> "icmp", ip |-> ip, tp |-> "any", port |-> "any"]

Resource ==
    {Reject_tp(ip, tp) : ip \in IPs, tp \in {"tcp", "udp"}}
    \cup {Drop_port(ip, port) : ip \in IPs, port \in PortNos}
    \cup {Temp_ip(ip) : ip \in IPs}
    \cup {Block_icmp(ip) : ip \in IPs}

Rule == {r \in Resource : r.cmd # "addr"}

----------------------------------------------------------------------------
(* iptables: -I puts a rule at the head of its chain, -D takes the first   *)
(* rule away that is equal to the given one.                               *)

Insert(rules, r) ==
    [k \in 1 .. Len(rules) + 1 |-> IF k = 1 THEN r ELSE rules[k - 1]]

FirstAt(rules, r) ==
    CHOOSE k \in DOMAIN rules : /\ rules[k] = r
                                /\ \A j \in DOMAIN rules : j < k => rules[j] # r

DeleteFirst(rules, r) ==
    LET at == FirstAt(rules, r)
    IN  [k \in 1 .. Len(rules) - 1 |-> IF k < at THEN rules[k] ELSE rules[k + 1]]

\* The positions at which r stands, and how many copies there are.
Places(rules, r) == {k \in DOMAIN rules : rules[k] = r}

Copies(rules, r) == Cardinality(Places(rules, r))

----------------------------------------------------------------------------
(* What netfilter does with a packet that opens a connection (a TCP SYN)   *)
(* or carries a datagram to port p of address d: the first rule that       *)
(* matches decides, and without one the chain's policy accepts.            *)

Matches(r, d, tp, p) ==
    /\ r.ip = d
    /\ \/ r.cmd = "reject" /\ r.tp = tp
       \/ r.cmd = "drop" /\ tp = "tcp" /\ r.port = p

Verdict(rules, d, tp, p) ==
    LET matching == {k \in DOMAIN rules : Matches(rules[k], d, tp, p)}
    IN  IF matching = {}
        THEN "accept"
        ELSE rules[CHOOSE k \in matching : \A j \in matching : k <= j].cmd
=============================================================================
