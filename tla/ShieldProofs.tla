---------------------------- MODULE ShieldProofs ----------------------------
(***************************************************************************)
(* Proof that the addresses of a host stand behind its firewall rules from *)
(* the moment they are on this machine until the guards are destroyed, for *)
(* any number of hosts, addresses and ports.                               *)
(***************************************************************************)
EXTENDS WatchHostProofs

----------------------------------------------------------------------------
(* Chains                                                                  *)

(* The DROP rules for address d come before its REJECT rules.              *)
DropsFirst(c, d) ==
    \A j, k \in DOMAIN c :
        c[j].ip = d /\ c[j].cmd = "drop" /\ c[k].ip = d /\ c[k].cmd = "reject" => j < k

(* -I keeps this order, unless a REJECT rule is put before a DROP rule.    *)
LEMMA DropsFirstInsert ==
  ASSUME NEW S, NEW c \in Seq(S), NEW r \in S, NEW d, DropsFirst(c, d),
         r.ip = d /\ r.cmd = "reject" => \A k \in DOMAIN c : ~(c[k].ip = d /\ c[k].cmd = "drop")
  PROVE  DropsFirst(Insert(c, r), d)
  <1> DEFINE e == Insert(c, r)
  <1>1. DOMAIN e = 1 .. Len(c) + 1 /\ DOMAIN c = 1 .. Len(c) /\ Len(c) \in Nat
    BY InsertType
  <1>2. \A k \in 1 .. Len(c) + 1 : e[k] = IF k = 1 THEN r ELSE c[k - 1]
    BY InsertType
  <1> HIDE DEF e
  <1> SUFFICES ASSUME NEW j \in DOMAIN e, NEW k \in DOMAIN e,
                      e[j].ip = d, e[j].cmd = "drop", e[k].ip = d, e[k].cmd = "reject"
               PROVE  j < k
    BY DEF DropsFirst, e
  <1>3. CASE j = 1
    BY <1>1, <1>2, <1>3
  <1>4. CASE j # 1
    <2>1. j - 1 \in DOMAIN c /\ e[j] = c[j - 1]
      BY <1>1, <1>2, <1>4
    <2>2. k # 1
      BY <1>1, <1>2, <2>1
    <2>3. k - 1 \in DOMAIN c /\ e[k] = c[k - 1]
      BY <1>1, <1>2, <2>2
    <2>4. j - 1 < k - 1
      BY <2>1, <2>3 DEF DropsFirst
    <2> QED BY <1>1, <2>4
  <1> QED BY <1>3, <1>4

(* -D keeps it whatever is deleted.                                        *)
LEMMA DropsFirstDelete ==
  ASSUME NEW S, NEW c \in Seq(S), NEW r, NEW d, Places(c, r) # {}, DropsFirst(c, d)
  PROVE  DropsFirst(DeleteFirst(c, r), d)
  <1> DEFINE e  == DeleteFirst(c, r)
             at == FirstAt(c, r)
             Old(k) == IF k < at THEN k ELSE k + 1
  <1>1. DOMAIN e = 1 .. Len(c) - 1 /\ DOMAIN c = 1 .. Len(c) /\ Len(c) \in Nat /\ at \in 1 .. Len(c)
    BY DeleteType, FirstPlace
  <1>2. \A k \in 1 .. Len(c) - 1 : e[k] = IF k < at THEN c[k] ELSE c[k + 1]
    BY DeleteType
  <1> HIDE DEF e, at
  <1>3. ASSUME NEW k \in DOMAIN e PROVE Old(k) \in DOMAIN c /\ e[k] = c[Old(k)]
    BY <1>1, <1>2
  <1> SUFFICES ASSUME NEW j \in DOMAIN e, NEW k \in DOMAIN e,
                      e[j].ip = d, e[j].cmd = "drop", e[k].ip = d, e[k].cmd = "reject"
               PROVE  j < k
    BY DEF DropsFirst, e
  <1>4. Old(j) < Old(k)
    BY <1>3 DEF DropsFirst
  <1> QED BY <1>1, <1>4

(* A packet meets verdict v, if a rule matches it and every matching rule  *)
(* with another verdict comes after some matching rule.                    *)
LEMMA VerdictIs ==
  ASSUME NEW S, NEW c \in Seq(S), NEW d, NEW tp, NEW p, NEW v,
         \E k \in DOMAIN c : Matches(c[k], d, tp, p),
         \A k \in DOMAIN c : Matches(c[k], d, tp, p) /\ c[k].cmd # v =>
             \E j \in DOMAIN c : Matches(c[j], d, tp, p) /\ j < k
  PROVE  Verdict(c, d, tp, p) = v
  <1> DEFINE M == {k \in DOMAIN c : Matches(c[k], d, tp, p)}
             m == CHOOSE k \in M : \A j \in M : k <= j
  <1>1. M # {} /\ M \subseteq Nat
    OBVIOUS
  <1>2. \E k \in M : \A j \in M : k <= j
    <2> HIDE DEF M
    <2>1. PICK k \in M : \A j \in M : <<j, k>> \notin OpToRel(<, Nat)
      BY <1>1, NatLessThanWellFounded, WFMin
    <2>2. \A j \in M : ~(j < k)
      BY <1>1, <2>1 DEF OpToRel
    <2> QED BY <1>1, <2>2
  <1>4. m \in M /\ \A j \in M : m <= j
    BY <1>2, Zenon
  <1> HIDE DEF m
  <1>5. c[m].cmd = v
    BY <1>1, <1>4
  <1> QED BY <1>1, <1>5 DEF Verdict, m

----------------------------------------------------------------------------
(* The guards of a host                                                    *)

(* No host has an address twice.                                           *)
Distinct ==
    \A h \in Hosts : \A i, j \in 1 .. Len(Addresses[h]) :
        Addresses[h][i] = Addresses[h][j] => i = j

Emulating == {"setup", "open", "register", "watch", "capture", "leave", "block"}

(* setup_firewall_and_ips has made the n-th guard of the i-th address.     *)
Done(h, i, n) ==
    /\ pc[h] \in Emulating
    /\ pc[h] = "setup" => i < atIp[h] \/ (i = atIp[h] /\ n < atStep[h])

(* The vector holds the guards that have been made and no others.          *)
Filled(h) ==
    pc[h] \notin {"release", "unwind"} =>
        /\ \A i \in 1 .. Len(Addresses[h]), n \in 1 .. Steps(h) :
               Done(h, i, n) => \E m \in DOMAIN locks[h] : locks[h][m] = GuardAt(h, i, n)
        /\ \A m \in DOMAIN locks[h] : \E i \in 1 .. Len(Addresses[h]), n \in 1 .. Steps(h) :
               Done(h, i, n) /\ locks[h][m] = GuardAt(h, i, n)

(* So that the DROP rules of an address always stand before its REJECT     *)
(* rules, while they are made and while they are destroyed.                *)
Ordered ==
    \A h \in Hosts : \A i \in 1 .. Len(Addresses[h]) : DropsFirst(rules, Addresses[h][i])

(* The lists of the configuration.                                         *)
LEMMA Lists ==
  ASSUME NEW h \in Hosts
  PROVE  /\ Len(Addresses[h]) \in Nat /\ DOMAIN Addresses[h] = 1 .. Len(Addresses[h])
         /\ Len(Ports[h]) \in Nat /\ DOMAIN Ports[h] = 1 .. Len(Ports[h])
         /\ Steps(h) = Len(Ports[h]) + 3
         /\ \A i \in 1 .. Len(Addresses[h]) : Addresses[h][i] \in IPs
  BY HostsAssumption DEF Steps

(* Which guard is which.                                                   *)
LEMMA GuardKinds ==
  ASSUME NEW h \in Hosts, NEW i \in 1 .. Len(Addresses[h]), NEW n \in 1 .. Steps(h)
  PROVE  /\ n = 1 => GuardAt(h, i, n) = Reject_tp(Addresses[h][i], "tcp")
         /\ n = 2 => GuardAt(h, i, n) = Reject_tp(Addresses[h][i], "udp")
         /\ n = Steps(h) => GuardAt(h, i, n) = Temp_ip(Addresses[h][i])
         /\ n > 2 /\ n < Steps(h) =>
                /\ n - 2 \in 1 .. Len(Ports[h])
                /\ GuardAt(h, i, n) = Drop_port(Addresses[h][i], Ports[h][n - 2])
  <1>1. Steps(h) = Len(Ports[h]) + 3 /\ Len(Ports[h]) \in Nat
    BY Lists
  <1>2. n = 1 => GuardAt(h, i, n) = Reject_tp(Addresses[h][i], "tcp")
    BY <1>1 DEF GuardAt
  <1>3. n = 2 => GuardAt(h, i, n) = Reject_tp(Addresses[h][i], "udp")
    BY <1>1 DEF GuardAt
  <1>4. n = Steps(h) => GuardAt(h, i, n) = Temp_ip(Addresses[h][i])
    BY <1>1 DEF GuardAt
  <1>5. n > 2 /\ n < Steps(h) => GuardAt(h, i, n) = Drop_port(Addresses[h][i], Ports[h][n - 2])
    BY <1>1 DEF GuardAt
  <1> QED BY <1>1, <1>2, <1>3, <1>4, <1>5

(* A step of the thread of h leaves the guards of the others alone.        *)
LEMMA OthersKept ==
  ASSUME TypeOK, NEW h \in Hosts, Step(h) \/ Environment(h), NEW x \in Hosts, x # h
  PROVE  pc'[x] = pc[x] /\ locks'[x] = locks[x] /\ atIp'[x] = atIp[x] /\ atStep'[x] = atStep[x]
  <1> USE DEF TypeOK, Goto, Throw, own
  <1>1. CASE LoopHead(h) \/ Ping(h) \/ Awake(h) \/ Asleep(h) \/ Raise(h)
    BY <1>1 DEF LoopHead, Ping, Awake, Asleep, Raise
  <1>2. CASE Setup(h)
    BY <1>2 DEF Setup
  <1>3. CASE Open(h) \/ Register(h) \/ Watch(h) \/ Broken(h) \/ Leave(h) \/ Block(h)
    BY <1>3 DEF Open, Register, Watch, Broken, Leave, Block
  <1>4. CASE Free(h) \/ Released(h) \/ Unwound(h) \/ Unblock(h)
    BY <1>4 DEF Free, Released, Unwound, EmptyLocks, Unblock
  <1>5. CASE Wol(h) \/ Wake(h) \/ Replay(h)
    BY <1>5 DEF Wol, Wake, Replay
  <1>6. CASE Environment(h)
    BY <1>6 DEF Environment, WolBreak, WatcherAborts, DawBreak, BreakLoop, Captured, CaptureThrows
  <1> QED BY <1>1, <1>2, <1>3, <1>4, <1>5, <1>6 DEF Step

(* Three ways in which a step may treat the vector of h.                   *)
LEMMA FilledKept ==
  ASSUME NEW h \in Hosts, Filled(h), locks'[h] = locks[h],
         \/ pc'[h] \in {"release", "unwind"}
         \/ /\ pc[h] \notin {"setup", "release", "unwind"} /\ pc'[h] # "setup"
            /\ pc'[h] \in Emulating <=> pc[h] \in Emulating
         \/ pc'[h] = pc[h] /\ atIp'[h] = atIp[h] /\ atStep'[h] = atStep[h]
  PROVE  Filled(h)'
  <1>1. CASE pc'[h] \in {"release", "unwind"}
    BY <1>1 DEF Filled
  <1>2. CASE pc'[h] \notin {"release", "unwind"}
    <2>1. pc[h] \notin {"release", "unwind"}
      BY <1>2
    <2>2. \A i, n : Done(h, i, n)' <=> Done(h, i, n)
      BY <1>2 DEF Done
    <2> QED BY <2>1, <2>2 DEF Filled
  <1> QED BY <1>1, <1>2

LEMMA FilledEmpty ==
  ASSUME NEW h \in Hosts, locks'[h] = <<>>,
         \/ pc'[h] \notin Emulating
         \/ pc'[h] = "setup" /\ atIp'[h] = 1 /\ atStep'[h] = 1
  PROVE  Filled(h)'
  <1>1. \A i \in 1 .. Len(Addresses[h]), n \in 1 .. Steps(h) : ~Done(h, i, n)'
    BY Lists DEF Done
  <1>2. DOMAIN locks'[h] = {}
    OBVIOUS
  <1> QED BY <1>1, <1>2 DEF Filled

LEMMA FilledSetup ==
  ASSUME TypeInv, NEW h \in Hosts, Filled(h), Setup(h)
  PROVE  Filled(h)'
  <1> DEFINE g == GuardAt(h, atIp[h], atStep[h])
  <1>0. /\ pc[h] = "setup" /\ atIp[h] \in 1 .. Len(Addresses[h]) /\ atStep[h] \in 1 .. Steps(h)
        /\ g \in Resource /\ locks[h] \in Seq(Resource)
    BY GuardType DEF Setup, At, TypeInv, TypeOK, Cursor
  <1>1. CASE locks' = [locks EXCEPT ![h] = Append(@, g)]
    <2> DEFINE last == atStep[h] = Steps(h) /\ atIp[h] = Len(Addresses[h])
    <2>1. locks'[h] = Append(locks[h], g)
      BY <1>1 DEF TypeInv, TypeOK
    <2>2. ASSUME NEW i \in 1 .. Len(Addresses[h]), NEW n \in 1 .. Steps(h)
          PROVE  Done(h, i, n)' <=> Done(h, i, n) \/ (i = atIp[h] /\ n = atStep[h])
      <3>1. Done(h, i, n) <=> i < atIp[h] \/ (i = atIp[h] /\ n < atStep[h])
        BY <1>0 DEF Done, Emulating
      <3>2. CASE pc'[h] = "open"
        <4>1. last
          BY <1>0, <3>2 DEF Setup, Goto, Throw, TypeInv, TypeOK
        <4>2. Done(h, i, n)'
          BY <3>2 DEF Done, Emulating
        <4> QED BY <3>1, <4>1, <4>2, Lists
      <3>3. CASE pc'[h] # "open" /\ ~last
        <4>1. /\ pc'[h] = "setup"
              /\ atStep'[h] = IF atStep[h] = Steps(h) THEN 1 ELSE atStep[h] + 1
              /\ atIp'[h] = IF atStep[h] = Steps(h) THEN atIp[h] + 1 ELSE atIp[h]
          BY <1>0, <1>1, <2>1, <3>3 DEF Setup, TypeInv, TypeOK, Goto, Throw
        <4>2. Done(h, i, n)' <=> i < atIp'[h] \/ (i = atIp'[h] /\ n < atStep'[h])
          BY <4>1 DEF Done, Emulating
        <4> QED BY <1>0, <3>1, <4>1, <4>2, Lists
      <3>4. pc'[h] # "open" => ~last
        BY <1>0, <1>1, <2>1 DEF Setup, Goto, TypeInv, TypeOK
      <3> QED BY <3>2, <3>3, <3>4
    <2> HIDE DEF g
    <2>3. /\ DOMAIN locks'[h] = DOMAIN locks[h] \cup {Len(locks[h]) + 1}
          /\ locks'[h][Len(locks[h]) + 1] = g
          /\ \A m \in DOMAIN locks[h] : locks'[h][m] = locks[h][m]
      BY <1>0, <2>1
    <2>4. ASSUME NEW i \in 1 .. Len(Addresses[h]), NEW n \in 1 .. Steps(h), Done(h, i, n)'
          PROVE  \E m \in DOMAIN locks'[h] : locks'[h][m] = GuardAt(h, i, n)
      <3>1. CASE Done(h, i, n)
        <4>1. PICK m \in DOMAIN locks[h] : locks[h][m] = GuardAt(h, i, n)
          BY <1>0, <3>1 DEF Filled
        <4> QED BY <2>3, <4>1
      <3>2. CASE i = atIp[h] /\ n = atStep[h]
        BY <2>3, <3>2 DEF g
      <3> QED BY <2>2, <2>4, <3>1, <3>2
    <2>5. ASSUME NEW m \in DOMAIN locks'[h]
          PROVE  \E i \in 1 .. Len(Addresses[h]), n \in 1 .. Steps(h) :
                     Done(h, i, n)' /\ locks'[h][m] = GuardAt(h, i, n)
      <3>1. CASE m \in DOMAIN locks[h]
        <4>1. PICK i \in 1 .. Len(Addresses[h]), n \in 1 .. Steps(h) :
                  Done(h, i, n) /\ locks[h][m] = GuardAt(h, i, n)
          BY <1>0, <3>1 DEF Filled
        <4> QED BY <2>2, <2>3, <3>1, <4>1
      <3>2. CASE m = Len(locks[h]) + 1
        BY <1>0, <2>2, <2>3, <3>2 DEF g
      <3> QED BY <2>3, <3>1, <3>2
    <2> QED BY <2>4, <2>5 DEF Filled
  <1>2. CASE Throw(h, "unwind") /\ locks' = locks
    BY <1>2, FilledKept DEF Throw, Goto, TypeInv, TypeOK
  <1> QED BY <1>1, <1>2 DEF Setup

LEMMA FilledThread ==
  ASSUME TypeInv, NEW h \in Hosts, Filled(h), Step(h) \/ Environment(h)
  PROVE  Filled(h)'
  <1>0. pc \in [Hosts -> Label] /\ locks \in [Hosts -> Seq(Resource)] /\ Vector(h)
        /\ atIp \in [Hosts -> Nat] /\ atStep \in [Hosts -> Nat]
    BY DEF TypeInv, TypeOK
  <1> USE <1>0, FilledKept DEF At, Goto, Throw, own, Emulating
  <1>1. CASE LoopHead(h) \/ Ping(h) \/ Awake(h) \/ Raise(h)
    BY <1>1 DEF LoopHead, Ping, Awake, Raise
  <1>2. CASE Asleep(h)
    <2>1. locks'[h] = <<>>
      BY <1>2 DEF Asleep, Vector, Holding
    <2> QED BY <1>2, <2>1, FilledEmpty DEF Asleep
  <1>3. CASE Open(h) \/ Register(h) \/ Watch(h) \/ Broken(h) \/ Leave(h)
    BY <1>3 DEF Open, Register, Watch, Broken, Leave
  <1>4. CASE Block(h) \/ Free(h)
    BY <1>4 DEF Block, Free
  <1>5. CASE Released(h) \/ Unwound(h)
    <2>1. locks'[h] = <<>> /\ pc'[h] \in {"wol", "raise", "head"}
      BY <1>5 DEF Released, Unwound, EmptyLocks
    <2> QED BY <2>1, FilledEmpty
  <1>6. CASE Wol(h) \/ Replay(h) \/ Unblock(h)
    BY <1>6 DEF Wol, Replay, Unblock
  <1>7. CASE Wake(h)
    BY <1>7 DEF Wake
  <1>8. CASE Environment(h)
    BY <1>8 DEF Environment, WolBreak, WatcherAborts, DawBreak, BreakLoop, Captured, CaptureThrows
  <1> QED BY <1>1, <1>2, <1>3, <1>4, <1>5, <1>6, <1>7, <1>8, FilledSetup DEF Step

LEMMA FilledStep ==
  TypeInv /\ (\A h \in Hosts : Filled(h)) /\ [Next]_vars => \A h \in Hosts : Filled(h)'
  <1> SUFFICES ASSUME TypeInv, \A h \in Hosts : Filled(h), [Next]_vars, NEW x \in Hosts
               PROVE  Filled(x)'
    OBVIOUS
  <1>1. ASSUME NEW h \in Hosts, Step(h) \/ Environment(h) PROVE Filled(x)'
    <2>1. CASE x = h
      BY <1>1, <2>1, FilledThread
    <2>2. CASE x # h
      BY <1>1, <2>2, OthersKept, FilledKept DEF TypeInv
    <2> QED BY <2>1, <2>2
  <1>2. CASE Signal \/ UNCHANGED vars
    BY <1>2, FilledKept DEF Signal, vars, own
  <1> QED BY <1>1, <1>2 DEF Next, Terminated

----------------------------------------------------------------------------
(* The order of the rules                                                  *)

(* What a step may do to the chain: nothing, delete a rule, insert an ICMP *)
(* rule, or insert the next rule of setup_firewall_and_ips.                *)
LEMMA ChainStep ==
  ASSUME TypeInv, Undisturbed', NEW h \in Hosts, Step(h) \/ Environment(h)
  PROVE  \/ rules' = rules
         \/ \E r \in Resource : Places(rules, r) # {} /\ rules' = DeleteFirst(rules, r)
         \/ \E r \in Resource : r.cmd = "icmp" /\ rules' = Insert(rules, r)
         \/ /\ pc[h] = "setup"
            /\ GuardAt(h, atIp[h], atStep[h]).cmd # "addr"
            /\ rules' = Insert(rules, GuardAt(h, atIp[h], atStep[h]))
  <1>0. TypeOK /\ freed[h] \in Nat /\ locks[h] \in Seq(Resource) /\ client[h] \in IPs
    BY HostsAssumption DEF TypeInv, TypeOK
  <1>1. CASE Setup(h)
    BY <1>0, <1>1, UndisturbedCommand DEF Setup, At, Effect, kernel
  <1>2. CASE Block(h)
    <2>1. Block_icmp(client[h]) \in Resource /\ Block_icmp(client[h]).cmd = "icmp"
      BY <1>0 DEF Resource, Block_icmp
    <2> QED BY <1>0, <1>2, <2>1, UndisturbedCommand DEF Block, Effect, kernel
  <1>3. CASE Free(h)
    <2>1. locks[h][freed[h] + 1] \in Resource
      BY <1>0, <1>3 DEF Free
    <2> QED BY <1>0, <1>3, <2>1, UndisturbedCommand DEF Free, Possible, Effect, kernel
  <1>4. CASE Unblock(h)
    <2>1. Block_icmp(client[h]) \in Resource
      BY <1>0 DEF Resource
    <2> QED BY <1>0, <1>4, <2>1, UndisturbedCommand DEF Unblock, Possible, Effect, kernel
  <1>5. CASE LoopHead(h) \/ Ping(h) \/ Awake(h) \/ Asleep(h) \/ Raise(h) \/ Environment(h)
    BY <1>5 DEF LoopHead, Ping, Awake, Asleep, Raise, Environment, WolBreak, WatcherAborts,
                DawBreak, BreakLoop, Captured, CaptureThrows, kernel
  <1>6. CASE Open(h) \/ Register(h) \/ Watch(h) \/ Broken(h) \/ Leave(h)
    BY <1>6 DEF Open, Register, Watch, Broken, Leave, kernel
  <1>7. CASE Released(h) \/ Unwound(h) \/ Wol(h) \/ Wake(h) \/ Replay(h)
    BY <1>7 DEF Released, Unwound, Wol, Wake, Replay, kernel
  <1> QED BY <1>1, <1>2, <1>3, <1>4, <1>5, <1>6, <1>7 DEF Step

(* A rule of the chain that names an address of h, the ICMP rules apart,   *)
(* is one that setup_firewall_and_ips of h has made.                       *)
LEMMA RuleMade ==
  ASSUME Disjoint, Distinct, TypeInv, Balanced, OwnGuards, NEW h \in Hosts, Filled(h),
         pc[h] \notin {"release", "unwind"}, NEW i \in 1 .. Len(Addresses[h]),
         NEW r \in Resource, r.ip = Addresses[h][i], r.cmd # "icmp", Installed(r) # 0
  PROVE  \E n \in 1 .. Steps(h) : Done(h, i, n) /\ r = GuardAt(h, i, n)
  <1>1. PICK m \in DOMAIN locks[h] : locks[h][m] = r
    BY HolderIsOwn, Lists
  <1>2. PICK j \in 1 .. Len(Addresses[h]), n \in 1 .. Steps(h) :
            Done(h, j, n) /\ locks[h][m] = GuardAt(h, j, n)
    BY DEF Filled
  <1>3. j = i
    BY <1>1, <1>2, GuardOwn DEF Distinct
  <1> QED BY <1>1, <1>2, <1>3

LEMMA RuleInstalled ==
  ASSUME TypeOK, NEW k \in DOMAIN rules
  PROVE  rules[k] \in Resource /\ rules[k].cmd # "addr" /\ Installed(rules[k]) # 0
  <1>1. rules \in Seq(Rule) /\ rules[k] \in Rule
    BY DEF TypeOK
  <1>2. k \in Places(rules, rules[k])
    BY DEF Places
  <1>3. Copies(rules, rules[k]) > 0 /\ Copies(rules, rules[k]) \in Nat
    BY <1>1, <1>2, CopiesPositive, PlacesFinite
  <1> QED BY <1>1, <1>3 DEF Rule, Installed

LEMMA OrderedThread ==
  ASSUME Disjoint, Distinct, TypeInv, Balanced, OwnGuards, Ordered, Undisturbed',
         NEW h \in Hosts, Filled(h), Step(h) \/ Environment(h)
  PROVE  Ordered'
  <1> SUFFICES ASSUME NEW x \in Hosts, NEW i \in 1 .. Len(Addresses[x])
               PROVE  DropsFirst(rules', Addresses[x][i])
    BY DEF Ordered
  <1> DEFINE d == Addresses[x][i]
  <1>0. rules \in Seq(Rule) /\ DropsFirst(rules, d)
    BY DEF TypeInv, TypeOK, Ordered
  <1>1. CASE rules' = rules
    BY <1>0, <1>1
  <1>2. CASE \E r \in Resource : Places(rules, r) # {} /\ rules' = DeleteFirst(rules, r)
    BY <1>0, <1>2, DropsFirstDelete
  <1>3. CASE \E r \in Resource : r.cmd = "icmp" /\ rules' = Insert(rules, r)
    BY <1>0, <1>3, DropsFirstInsert DEF Rule
  <1>4. CASE /\ pc[h] = "setup" /\ GuardAt(h, atIp[h], atStep[h]).cmd # "addr"
             /\ rules' = Insert(rules, GuardAt(h, atIp[h], atStep[h]))
    <2> DEFINE g == GuardAt(h, atIp[h], atStep[h])
    <2>1. /\ atIp[h] \in 1 .. Len(Addresses[h]) /\ atStep[h] \in 1 .. Steps(h)
          /\ atIp[h] \in Nat /\ atStep[h] \in Nat
      BY <1>4 DEF TypeInv, TypeOK, Cursor
    <2>2. g \in Rule /\ g.ip = Addresses[h][atIp[h]]
      BY <1>4, <2>1, GuardType, GuardOwn DEF Rule
    <2>3. ASSUME g.ip = d, g.cmd = "reject", NEW k \in DOMAIN rules,
                 rules[k].ip = d, rules[k].cmd = "drop"
          PROVE  FALSE
      <3>1. x = h /\ i = atIp[h]
        <4>1. atIp[h] \in DOMAIN Addresses[h] /\ i \in DOMAIN Addresses[x]
          BY <2>1, Lists
        <4>2. Addresses[h][atIp[h]] = Addresses[x][i]
          BY <2>2, <2>3
        <4>3. h = x
          BY <4>1, <4>2 DEF Disjoint
        <4> QED BY <2>1, <4>2, <4>3 DEF Distinct
      <3>2. rules[k] \in Resource /\ Installed(rules[k]) # 0
        BY RuleInstalled DEF TypeInv
      <3>3. PICK n \in 1 .. Steps(h) : Done(h, i, n) /\ rules[k] = GuardAt(h, i, n)
        BY <1>4, <2>3, <3>1, <3>2, RuleMade
      <3>4. n < atStep[h]
        BY <1>4, <2>1, <3>1, <3>3 DEF Done
      <3>5. atStep[h] \in {1, 2}
        <4>1. Steps(h) \in Nat
          BY Lists
        <4>2. CASE atStep[h] = Steps(h)
          BY <2>1, <2>3, <4>2, GuardKinds DEF Temp_ip
        <4>3. CASE atStep[h] > 2 /\ atStep[h] < Steps(h)
          BY <2>1, <2>3, <4>3, GuardKinds DEF Drop_port
        <4> QED BY <2>1, <4>1, <4>2, <4>3
      <3>6. n = 1
        BY <3>4, <3>5
      <3> QED BY <2>3, <3>1, <3>3, <3>6, GuardKinds DEF Reject_tp
    <2> HIDE DEF g
    <2>4. rules' = Insert(rules, g)
      BY <1>4 DEF g
    <2> QED BY <1>0, <2>2, <2>3, <2>4, DropsFirstInsert
  <1> QED BY <1>1, <1>2, <1>3, <1>4, ChainStep

----------------------------------------------------------------------------
(* The shield                                                              *)

(* While the vector of h is not being destroyed, an address of h that is   *)
(* on this machine has all its rules in the chain ...                      *)
LEMMA RulesUp ==
  ASSUME Disjoint, Distinct, TypeInv, Balanced, OwnGuards, NEW h \in Hosts, Filled(h),
         pc[h] \notin {"release", "unwind"}, NEW i \in 1 .. Len(Addresses[h]),
         Addresses[h][i] \in addrs, NEW n \in 1 .. Steps(h), n < Steps(h)
  PROVE  \E k \in DOMAIN rules : rules[k] = GuardAt(h, i, n)
  <1> DEFINE d == Addresses[h][i]
  <1>0. TypeOK /\ freed[h] = 0 /\ Steps(h) \in Nat /\ Steps(h) >= 3 /\ d \in IPs
    BY Lists DEF TypeInv, Vector
  <1>1. Temp_ip(d) \in Resource /\ Installed(Temp_ip(d)) # 0
    BY <1>0 DEF Resource, Temp_ip, Installed
  <1>2. PICK l \in 1 .. Steps(h) : Done(h, i, l) /\ Temp_ip(d) = GuardAt(h, i, l)
    BY <1>1, RuleMade DEF Temp_ip
  <1>3. l = Steps(h)
    <2>1. GuardAt(h, i, l).cmd = "addr"
      BY <1>2 DEF Temp_ip
    <2>2. CASE l = 1 \/ l = 2
      BY <2>1, <2>2, GuardKinds DEF Reject_tp
    <2>3. CASE l > 2 /\ l < Steps(h)
      BY <2>1, <2>3, GuardKinds DEF Drop_port
    <2> QED BY <1>0, <2>2, <2>3
  <1>4. Done(h, i, n)
    <2>1. pc[h] = "setup" => atStep[h] \in Nat /\ atIp[h] \in Nat
      BY <1>0 DEF TypeOK
    <2> QED BY <1>0, <1>2, <1>3, <2>1 DEF Done
  <1>5. PICK m \in DOMAIN locks[h] : locks[h][m] = GuardAt(h, i, n)
    BY <1>4 DEF Filled
  <1>6. m \in Armed(h) /\ Slot(h, m) = GuardAt(h, i, n)
    <2>1. locks[h] \in Seq(Resource)
      BY <1>0 DEF TypeOK
    <2> QED BY <1>0, <1>5, <2>1 DEF Armed, Slot
  <1>7. Possible("del", GuardAt(h, i, n))
    BY <1>0, <1>6, HeldIsInstalled, GuardType
  <1>8. GuardAt(h, i, n).cmd # "addr"
    <2>1. CASE n = 1 \/ n = 2
      BY <2>1, GuardKinds DEF Reject_tp
    <2>2. CASE n > 2
      BY <2>2, GuardKinds DEF Drop_port
    <2> QED BY <2>1, <2>2
  <1> QED BY <1>7, <1>8 DEF Possible, Places

(* ... and is shielded by them.                                            *)
LEMMA ShieldHolds ==
  ASSUME Disjoint, Distinct, TypeInv, Balanced, OwnGuards, Ordered, NEW h \in Hosts, Filled(h),
         pc[h] \notin {"release", "unwind"}
  PROVE  Shielded(h)
  <1> SUFFICES ASSUME NEW i \in 1 .. Len(Addresses[h]), Addresses[h][i] \in addrs, NEW p \in PortNos
               PROVE  /\ Verdict(rules, Addresses[h][i], "udp", p) = "reject"
                      /\ Verdict(rules, Addresses[h][i], "tcp", p) =
                             IF \E n \in DOMAIN Ports[h] : Ports[h][n] = p THEN "drop" ELSE "reject"
    BY Lists DEF Shielded
  <1>d. PICK d : d = Addresses[h][i]
    OBVIOUS
  <1>0. rules \in Seq(Rule) /\ TypeOK /\ DropsFirst(rules, d)
    BY <1>d DEF TypeInv, TypeOK, Ordered
  <1>1. Steps(h) = Len(Ports[h]) + 3 /\ Len(Ports[h]) \in Nat /\ DOMAIN Ports[h] = 1 .. Len(Ports[h])
    BY Lists
  <1>2. PICK t \in DOMAIN rules : rules[t] = Reject_tp(d, "tcp")
    BY <1>d, <1>1, RulesUp, GuardKinds
  <1>3. PICK u \in DOMAIN rules : rules[u] = Reject_tp(d, "udp")
    <2>1. 2 \in 1 .. Steps(h) /\ 2 < Steps(h)
      BY <1>1
    <2>2. GuardAt(h, i, 2) = Reject_tp(d, "udp")
      BY <1>d, <2>1, GuardKinds
    <2> QED BY <2>1, <2>2, RulesUp
  <1>4. Verdict(rules, d, "udp", p) = "reject"
    <2>1. Matches(rules[u], d, "udp", p)
      BY <1>3 DEF Matches, Reject_tp
    <2>2. \A k \in DOMAIN rules : Matches(rules[k], d, "udp", p) => rules[k].cmd = "reject"
      BY DEF Matches
    <2>3. \A k \in DOMAIN rules : Matches(rules[k], d, "udp", p) /\ rules[k].cmd # "reject" =>
              \E j \in DOMAIN rules : Matches(rules[j], d, "udp", p) /\ j < k
      BY <2>2
    <2> QED BY <1>0, <2>1, <2>3, VerdictIs
  <1>5. ASSUME NEW q \in DOMAIN Ports[h], Ports[h][q] = p
        PROVE  Verdict(rules, d, "tcp", p) = "drop"
    <2>1. q + 2 \in 1 .. Steps(h) /\ q + 2 > 2 /\ q + 2 < Steps(h) /\ (q + 2) - 2 = q
      BY <1>1
    <2>2. GuardAt(h, i, q + 2) = Drop_port(d, p)
      BY <1>d, <1>5, <2>1, GuardKinds
    <2>3. PICK m \in DOMAIN rules : rules[m] = Drop_port(d, p)
      BY <2>1, <2>2, RulesUp
    <2>4. Matches(rules[m], d, "tcp", p) /\ rules[m].ip = d /\ rules[m].cmd = "drop"
      BY <2>3 DEF Matches, Drop_port
    <2>5. ASSUME NEW k \in DOMAIN rules, Matches(rules[k], d, "tcp", p), rules[k].cmd # "drop"
          PROVE  m < k
      BY <1>0, <2>4, <2>5 DEF Matches, DropsFirst
    <2> QED BY <1>0, <2>4, <2>5, VerdictIs
  <1>6. ASSUME ~\E q \in DOMAIN Ports[h] : Ports[h][q] = p
        PROVE  Verdict(rules, d, "tcp", p) = "reject"
    <2>1. Matches(rules[t], d, "tcp", p)
      BY <1>2 DEF Matches, Reject_tp
    <2>2. ASSUME NEW k \in DOMAIN rules, Matches(rules[k], d, "tcp", p), rules[k].cmd # "reject"
          PROVE  FALSE
      <3>1. rules[k].ip = d /\ rules[k].cmd = "drop" /\ rules[k].port = p
        BY <2>2 DEF Matches
      <3>2. rules[k] \in Resource /\ Installed(rules[k]) # 0
        BY <1>0, RuleInstalled
      <3>3. PICK n \in 1 .. Steps(h) : rules[k] = GuardAt(h, i, n)
        BY <1>d, <3>1, <3>2, RuleMade
      <3>4. CASE n = 1 \/ n = 2
        BY <3>1, <3>3, <3>4, GuardKinds DEF Reject_tp
      <3>5. CASE n = Steps(h)
        BY <3>1, <3>3, <3>5, GuardKinds DEF Temp_ip
      <3>6. CASE n > 2 /\ n < Steps(h)
        <4>1. n - 2 \in DOMAIN Ports[h] /\ rules[k] = Drop_port(Addresses[h][i], Ports[h][n - 2])
          BY <1>1, <3>3, <3>6, GuardKinds
        <4>2. Ports[h][n - 2] = p
          BY <3>1, <4>1 DEF Drop_port
        <4> QED BY <1>6, <4>1, <4>2
      <3> QED BY <1>1, <3>4, <3>5, <3>6
    <2>3. \A k \in DOMAIN rules : Matches(rules[k], d, "tcp", p) /\ rules[k].cmd # "reject" =>
              \E j \in DOMAIN rules : Matches(rules[j], d, "tcp", p) /\ j < k
      BY <2>2
    <2> QED BY <1>0, <2>1, <2>3, VerdictIs
  <1> QED BY <1>d, <1>4, <1>5, <1>6

(* The inductive invariant.                                                *)
Guarded == OwnGuards /\ (\A h \in Hosts : Filled(h)) /\ (alive => Ordered)

LEMMA GuardedInit == Init => Guarded
  <1> SUFFICES ASSUME Init PROVE Guarded
    OBVIOUS
  <1>1. OwnGuards
    BY DEF Init, OwnGuards
  <1>2. ASSUME NEW h \in Hosts PROVE Filled(h)
    BY DEF Init, Filled, Done, Emulating
  <1>3. Ordered
    BY DEF Init, Ordered, DropsFirst
  <1> QED BY <1>1, <1>2, <1>3 DEF Guarded

LEMMA GuardedStep ==
  ASSUME {"kill", "intr"} \cap Faults = {}, Disjoint, Distinct
  PROVE  TypeInv /\ Ledger /\ Guarded /\ [Next]_vars => Guarded'
  <1> SUFFICES ASSUME TypeInv, Ledger, Guarded, [Next]_vars PROVE Guarded'
    OBVIOUS
  <1>1. OwnGuards' /\ \A h \in Hosts : Filled(h)'
    BY OwnGuardsStep, FilledStep DEF Guarded
  <1>2. ASSUME alive' PROVE Ordered'
    <2>1. TypeOK /\ Undisturbed'
      BY DEF TypeInv, Undisturbed
    <2>2. alive /\ Balanced /\ Ordered
      BY <1>2, <2>1, LedgerHypotheses DEF Guarded, Ledger
    <2>3. ASSUME NEW h \in Hosts, Step(h) \/ Environment(h) PROVE Ordered'
      BY <2>1, <2>2, <2>3, OrderedThread DEF Guarded
    <2>4. CASE Signal \/ UNCHANGED vars
      BY <2>2, <2>4 DEF Signal, vars, kernel, Ordered
    <2> QED BY <2>3, <2>4 DEF Next, Terminated
  <1> QED BY <1>1, <1>2 DEF Guarded

(* The property ShieldedUntilRelease of the runs: from the moment an       *)
(* address of a sleeping host is on this machine until its guards are      *)
(* destroyed, SYNs to the watched ports are dropped and everything else is *)
(* rejected, whatever the other threads put into the same chain, and       *)
(* whatever commands fail.                                                 *)
THEOREM StaysShielded ==
  ASSUME {"kill", "intr"} \cap Faults = {}, Disjoint, Distinct
  PROVE  Spec => []ShieldedUntilRelease
  <1>1. TypeInv /\ Ledger /\ Guarded => ShieldedUntilRelease
    BY ShieldHolds DEF Ledger, Undisturbed, Guarded, ShieldedUntilRelease
  <1> QED BY <1>1, GuardedInit, GuardedStep, LedgerInvariance, PTL DEF Spec
=============================================================================
