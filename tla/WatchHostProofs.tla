-------------------------- MODULE WatchHostProofs --------------------------
(***************************************************************************)
(* Proofs about module WatchHost, for any number of hosts, addresses,      *)
(* ports and clients, also when hosts share addresses.                     *)
(***************************************************************************)
EXTENDS WatchHost, NetworkProofs

----------------------------------------------------------------------------
(* Types                                                                   *)

KernelOK == rules \in Seq(Rule) /\ addrs \in SUBSET IPs

SigOK ==
    /\ signaled \in BOOLEAN
    /\ signals \in 0 .. MaxSignals
    /\ asked \in [Hosts -> SUBSET {"duplicate_address", "signal"}]

(* The loops of setup_firewall_and_ips stay inside args.address and the    *)
(* loop body; the vector of guards is in use only between setup and the    *)
(* end of its destruction, and is destroyed front to back.                 *)
Cursor(h) ==
    pc[h] = "setup" => atIp[h] \in 1 .. Len(Addresses[h]) /\ atStep[h] \in 1 .. Steps(h)

Holding == {"setup", "open", "register", "watch", "capture", "leave", "block",
            "release", "unwind"}

Vector(h) ==
    /\ freed[h] <= Len(locks[h])
    /\ pc[h] \notin {"release", "unwind"} => freed[h] = 0
    /\ pc[h] \notin Holding => locks[h] = <<>>

TypeInv == TypeOK /\ \A h \in Hosts : Cursor(h) /\ Vector(h)

(* Every guard of setup_firewall_and_ips names a resource.                 *)
LEMMA GuardType ==
  ASSUME NEW h \in Hosts, NEW i \in 1 .. Len(Addresses[h]), NEW n \in 1 .. Steps(h)
  PROVE  GuardAt(h, i, n) \in Resource
  <1>1. Addresses[h][i] \in IPs /\ Ports[h] \in Seq(PortNos) /\ Len(Ports[h]) \in Nat
    BY HostsAssumption
  <1>2. CASE n = 1 \/ n = 2
    BY <1>1, <1>2 DEF GuardAt, Resource
  <1>3. CASE n = Steps(h)
    BY <1>1, <1>3 DEF GuardAt, Resource, Steps
  <1>4. CASE n # 1 /\ n # 2 /\ n # Steps(h)
    <2>1. n - 2 \in 1 .. Len(Ports[h])
      BY <1>1, <1>4 DEF Steps
    <2>2. Ports[h][n - 2] \in PortNos
      BY <1>1, <2>1
    <2>3. GuardAt(h, i, n) = Drop_port(Addresses[h][i], Ports[h][n - 2])
      BY <1>4 DEF GuardAt
    <2> QED BY <1>1, <2>2, <2>3 DEF Resource
  <1> QED BY <1>2, <1>3, <1>4

LEMMA SignalledType ==
  ASSUME TypeOK, Signalled \/ Raised \/ UNCHANGED sig
  PROVE  SigOK'
  <1>1. CASE UNCHANGED sig
    BY <1>1 DEF TypeOK, SigOK, sig
  <1>2. CASE Signalled
    BY <1>2, HostsAssumption DEF TypeOK, SigOK, Signalled, signal_handler
  <1>3. CASE Raised
    BY <1>3 DEF TypeOK, SigOK, Raised, signal_handler
  <1> QED BY <1>1, <1>2, <1>3

LEMMA EffectType ==
  ASSUME TypeOK, NEW a \in {"add", "del"}, NEW r \in Resource, Possible(a, r), Effect(a, r)
  PROVE  KernelOK'
  <1>1. r.ip \in IPs
    BY DEF Resource, Reject_tp, Drop_port, Temp_ip, Block_icmp
  <1>2. CASE r.cmd = "addr"
    BY <1>1, <1>2 DEF TypeOK, KernelOK, Effect
  <1>3. CASE r.cmd # "addr" /\ a = "add"
    BY <1>3, InsertType DEF TypeOK, KernelOK, Effect, Rule
  <1>4. CASE r.cmd # "addr" /\ a = "del"
    <2>1. rules \in Seq(Rule) /\ Places(rules, r) # {} /\ rules' = DeleteFirst(rules, r)
      BY <1>4 DEF TypeOK, Effect, Possible
    <2> QED BY <1>4, <2>1, DeleteType DEF TypeOK, KernelOK, Effect
  <1> QED BY <1>2, <1>3, <1>4

(* A command that a Scope_guard runs leaves the kernel and the signal      *)
(* state well typed, however it ends.                                      *)
LEMMA TakeActionType ==
  ASSUME TypeOK, NEW a \in {"add", "del"}, NEW r \in Resource,
         TakeAction(a, r) \/ TakeActionThrows(a, r)
  PROVE  KernelOK' /\ SigOK'
  <1>1. SigOK'
    BY SignalledType DEF TakeAction, TakeActionThrows, sig
  <1>2. CASE UNCHANGED kernel
    BY <1>1, <1>2 DEF kernel, TypeOK, KernelOK
  <1>3. CASE Possible(a, r) /\ Effect(a, r)
    BY <1>1, <1>3, EffectType
  <1> QED
    BY <1>2, <1>3 DEF TakeAction, TakeActionThrows, MaybeEffect, kernel

(* The part of the state that belongs to the threads.                      *)
ThreadOK ==
    /\ alive \in BOOLEAN
    /\ pc \in [Hosts -> Label]
    /\ locks \in [Hosts -> Seq(Resource)]
    /\ freed \in [Hosts -> Nat]
    /\ atIp \in [Hosts -> Nat]
    /\ atStep \in [Hosts -> Nat]
    /\ client \in [Hosts -> Clients]
    /\ status \in [Hosts -> Emulate_host_status \cup {"none", "threw"}]
    /\ tries \in [Hosts -> 0 .. PingTries]

Bounds == \A h \in Hosts : Cursor(h) /\ Vector(h)

LEMMA TypeParts == TypeOK <=> KernelOK /\ SigOK /\ ThreadOK
  BY DEF TypeOK, KernelOK, SigOK, ThreadOK

(* A step of h that only moves the thread, and perhaps sets its status or  *)
(* ends the process: it may not enter setup, and where the vector of       *)
(* guards is in use it stays in use.                                       *)
LEMMA MoveType ==
  ASSUME NEW h \in Hosts, TypeInv, NEW l \in Label,
         pc' = [pc EXCEPT ![h] = l],
         UNCHANGED <<locks, freed, atIp, atStep>>,
         l # "setup" \/ pc[h] = "setup",
         pc[h] \in Holding => l \in Holding,
         pc[h] \in {"release", "unwind"} => l \in {"release", "unwind"}
  PROVE  Bounds' /\ pc' \in [Hosts -> Label]
  <1>1. pc' \in [Hosts -> Label]
    BY DEF TypeInv, TypeOK
  <1>2. ASSUME NEW x \in Hosts PROVE (Cursor(x) /\ Vector(x))'
    <2>1. Cursor(x) /\ Vector(x) /\ pc'[x] = IF x = h THEN l ELSE pc[x]
      BY DEF TypeInv, TypeOK
    <2>2. CASE x = h
      BY <2>1, <2>2 DEF Cursor, Vector
    <2>3. CASE x # h
      BY <2>1, <2>3 DEF Cursor, Vector
    <2> QED BY <2>2, <2>3
  <1> QED BY <1>1, <1>2 DEF Bounds
(* The thread state and the bounds are kept by every step of every host.   *)
LEMMA ThreadType ==
  ASSUME NEW h \in Hosts, TypeInv, Step(h) \/ Environment(h)
  PROVE  ThreadOK' /\ Bounds'
  <1>0. TypeOK /\ ThreadOK /\ Bounds
    BY TypeParts DEF TypeInv, Bounds
  <1> USE <1>0, HostsAssumption
      DEF At, Goto, Throw, ThreadOK, own, Label, Holding, Emulate_host_status
  <1>1. CASE LoopHead(h)
    BY <1>1, MoveType DEF LoopHead
  <1>2. CASE Ping(h)
    <2>1. CASE pc' = pc
      BY <1>2, <2>1 DEF Ping, Bounds, Cursor, Vector
    <2>2. CASE alive' = alive
      BY <1>2, <2>2, MoveType DEF Ping
    <2> QED BY <1>2, <2>1, <2>2 DEF Ping
  <1>3. CASE Awake(h)
    BY <1>3, MoveType DEF Awake
  <1>4. CASE Asleep(h)
    <2>1. CASE signaled
      BY <1>4, <2>1, MoveType DEF Asleep
    <2>2. CASE ~signaled
      <3>1. ThreadOK'
        <4>1. /\ pc' = [pc EXCEPT ![h] = "setup"]
              /\ atIp' = [atIp EXCEPT ![h] = 1]
              /\ atStep' = [atStep EXCEPT ![h] = 1]
              /\ status' = [status EXCEPT ![h] = "none"]
              /\ UNCHANGED <<locks, freed, client, tries, alive>>
          BY <1>4, <2>2 DEF Asleep
        <4>2. pc' \in [Hosts -> Label] /\ status' \in [Hosts -> Emulate_host_status \cup {"none", "threw"}]
          BY <4>1
        <4>3. atIp' \in [Hosts -> Nat] /\ atStep' \in [Hosts -> Nat]
          BY <4>1
        <4> QED BY <4>1, <4>2, <4>3
      <3>2. ASSUME NEW x \in Hosts PROVE (Cursor(x) /\ Vector(x))'
        <4>1. Cursor(x) /\ Vector(x)
          BY DEF Bounds
        <4>2. Len(Addresses[h]) >= 1 /\ Steps(h) >= 1
          <5>1. Addresses[h] \in Seq(IPs) /\ Addresses[h] # <<>> /\ Ports[h] \in Seq(PortNos)
            OBVIOUS
          <5>2. Len(Addresses[h]) >= 1
            BY <5>1
          <5>3. Len(Ports[h]) \in Nat
            BY <5>1
          <5>4. Steps(h) >= 1
            BY <5>3 DEF Steps
          <5> QED BY <5>2, <5>4
        <4>3. /\ pc[h] = "asleep" /\ pc' = [pc EXCEPT ![h] = "setup"]
              /\ atIp' = [atIp EXCEPT ![h] = 1] /\ atStep' = [atStep EXCEPT ![h] = 1]
              /\ UNCHANGED <<locks, freed>>
          BY <1>4, <2>2 DEF Asleep
        <4>4. CASE x = h
          <5>1. pc'[h] = "setup" /\ atIp'[h] = 1 /\ atStep'[h] = 1
            BY <4>3
          <5>2. 1 \in 1 .. Len(Addresses[h]) /\ 1 \in 1 .. Steps(h)
            BY <4>2 DEF Steps
          <5>3. Cursor(h)'
            BY <5>1, <5>2 DEF Cursor
          <5>4. Vector(h)'
            BY <4>1, <4>3, <4>4, <5>1 DEF Vector
          <5> QED BY <4>4, <5>3, <5>4
        <4>5. CASE x # h
          BY <4>1, <4>3, <4>5 DEF Cursor, Vector
        <4> QED BY <4>4, <4>5
      <3> QED BY <3>1, <3>2 DEF Bounds
    <2> QED BY <2>1, <2>2
  <1>5. CASE Raise(h)
    BY <1>5, MoveType DEF Raise
  <1>6. CASE Setup(h)
    <2> DEFINE r == GuardAt(h, atIp[h], atStep[h])
    <2>1. r \in Resource /\ freed[h] = 0 /\ Cursor(h) /\ Vector(h)
      BY <1>6, GuardType DEF Setup, Bounds, Cursor, Vector
    <2>2. CASE status' = status /\ locks' = [locks EXCEPT ![h] = Append(@, r)]
      <3> DEFINE last == atStep[h] = Steps(h) /\ atIp[h] = Len(Addresses[h])
      <3>0. locks[h] \in Seq(Resource) /\ Len(Append(locks[h], r)) = Len(locks[h]) + 1
            /\ Append(locks[h], r) \in Seq(Resource)
        BY <2>1
      <3>1. locks' \in [Hosts -> Seq(Resource)]
        BY <2>2, <3>0
      <3>2. CASE last
        <4>1. pc' = [pc EXCEPT ![h] = "open"] /\ UNCHANGED <<atIp, atStep, alive, freed, client, tries>>
          BY <1>6, <2>2, <3>2 DEF Setup
        <4>2. ThreadOK'
          BY <2>2, <3>1, <4>1
        <4>3. ASSUME NEW x \in Hosts PROVE (Cursor(x) /\ Vector(x))'
          <5>1. CASE x = h
            <6>1. Cursor(h)'
              BY <4>1 DEF Cursor
            <6>2. Vector(h)'
              BY <1>6, <2>1, <2>2, <3>0, <4>1 DEF Setup, Vector
            <6> QED BY <5>1, <6>1, <6>2
          <5>2. CASE x # h
            BY <2>2, <4>1, <5>2 DEF Bounds, Cursor, Vector
          <5> QED BY <5>1, <5>2
        <4> QED BY <4>2, <4>3 DEF Bounds
      <3>3. CASE ~last
        <4>1. /\ atStep' = [atStep EXCEPT ![h] = IF atStep[h] = Steps(h) THEN 1 ELSE @ + 1]
              /\ atIp' = [atIp EXCEPT ![h] = IF atStep[h] = Steps(h) THEN @ + 1 ELSE @]
              /\ UNCHANGED <<pc, alive, freed, client, tries>>
          BY <1>6, <2>2, <3>3 DEF Setup
        <4>2. ThreadOK'
          <5>1. atStep' \in [Hosts -> Nat] /\ atIp' \in [Hosts -> Nat]
            BY <4>1
          <5> QED BY <2>2, <3>1, <4>1, <5>1
        <4>3. Steps(h) >= 1 /\ Steps(h) \in Nat /\ Len(Addresses[h]) \in Nat
          <5>1. Addresses[h] \in Seq(IPs) /\ Ports[h] \in Seq(PortNos)
            OBVIOUS
          <5> QED BY <5>1 DEF Steps
        <4>4. ASSUME NEW x \in Hosts PROVE (Cursor(x) /\ Vector(x))'
          <5>1. CASE x = h
            <6>1. Vector(h)'
              BY <1>6, <2>1, <2>2, <3>0, <4>1 DEF Setup, Vector
            <6>2. atIp[h] \in 1 .. Len(Addresses[h]) /\ atStep[h] \in 1 .. Steps(h)
              BY <1>6, <2>1 DEF Setup, Cursor
            <6>3. atIp'[h] \in 1 .. Len(Addresses[h]) /\ atStep'[h] \in 1 .. Steps(h)
              <7>1. /\ atStep'[h] = IF atStep[h] = Steps(h) THEN 1 ELSE atStep[h] + 1
                    /\ atIp'[h] = IF atStep[h] = Steps(h) THEN atIp[h] + 1 ELSE atIp[h]
                BY <4>1
              <7>2. PICK i \in Nat, n \in Nat, addresses \in Nat, steps \in Nat :
                        /\ i = atIp[h] /\ n = atStep[h]
                        /\ addresses = Len(Addresses[h]) /\ steps = Steps(h)
                BY <4>3, <6>2
              <7>3. i \in 1 .. addresses /\ n \in 1 .. steps /\ (n = steps => i # addresses)
                BY <3>3, <6>2, <7>2
              <7>4. CASE n = steps
                <8>1. i + 1 \in 1 .. addresses /\ 1 \in 1 .. steps
                  BY <7>3, <7>4
                <8>2. atStep'[h] = 1 /\ atIp'[h] = i + 1
                  BY <7>1, <7>2, <7>4
                <8> QED BY <7>2, <8>1, <8>2, Zenon
              <7>5. CASE n # steps
                <8>1. n + 1 \in 1 .. steps
                  BY <7>3, <7>5
                <8>2. atStep'[h] = n + 1 /\ atIp'[h] = i
                  BY <7>1, <7>2, <7>5
                <8> QED BY <7>2, <7>3, <8>1, <8>2, Zenon
              <7> QED BY <7>4, <7>5
            <6> QED BY <5>1, <6>1, <6>3 DEF Cursor
          <5>2. CASE x # h
            BY <2>2, <4>1, <5>2 DEF Bounds, Cursor, Vector
          <5> QED BY <5>1, <5>2
        <4> QED BY <4>2, <4>4 DEF Bounds
      <3> QED BY <3>2, <3>3
    <2>3. CASE Throw(h, "unwind") /\ UNCHANGED <<locks, atIp, atStep>>
      BY <1>6, <2>3, MoveType DEF Setup
    <2> QED BY <1>6, <2>2, <2>3 DEF Setup
  <1>7. CASE Open(h)
    BY <1>7, MoveType DEF Open
  <1>8. CASE Register(h)
    BY <1>8, MoveType DEF Register
  <1>9. CASE Watch(h)
    BY <1>9, MoveType DEF Watch
  <1>10. CASE Broken(h)
    BY <1>10, MoveType DEF Broken, StatusOf
  <1>11. CASE Leave(h)
    BY <1>11, MoveType DEF Leave
  <1>12. CASE Block(h)
    BY <1>12, MoveType DEF Block
  <1>13. CASE Free(h)
    <2>1. UNCHANGED <<pc, locks, atIp, atStep, client, status, tries>> /\ freed[h] < Len(locks[h])
      BY <1>13 DEF Free
    <2>2. \/ freed' = [freed EXCEPT ![h] = @ + 1] /\ alive' = alive
          \/ freed' = freed /\ alive' = FALSE
      BY <1>13 DEF Free
    <2>3. ThreadOK'
      <3>1. freed' \in [Hosts -> Nat]
        <4>1. CASE freed' = freed
          BY <4>1
        <4>2. CASE freed' = [freed EXCEPT ![h] = @ + 1]
          <5>1. freed[h] + 1 \in Nat
            OBVIOUS
          <5> QED BY <4>2, <5>1
        <4> QED BY <2>2, <4>1, <4>2
      <3>2. alive' \in BOOLEAN
        BY <2>2, Zenon
      <3> QED BY <2>1, <3>1, <3>2
    <2>4. ASSUME NEW x \in Hosts PROVE (Cursor(x) /\ Vector(x))'
      <3>1. Cursor(x) /\ Vector(x) /\ Len(locks[x]) \in Nat /\ pc[h] \in {"release", "unwind"}
        BY <1>13 DEF Bounds, Free
      <3>2. freed[x] \in Nat /\ (freed'[x] = freed[x] \/ (x = h /\ freed'[x] = freed[x] + 1))
        BY <2>2
      <3>3. freed'[x] <= Len(locks[x])
        <4>1. CASE freed'[x] = freed[x]
          BY <3>1, <4>1 DEF Vector
        <4>2. CASE x = h /\ freed'[x] = freed[x] + 1
          <5>1. PICK n \in Nat, m \in Nat : n = freed[x] /\ m = Len(locks[x])
            BY <3>1, <3>2
          <5>2. n < m
            BY <2>1, <4>2, <5>1
          <5>3. n + 1 <= m
            BY <5>2
          <5> QED BY <4>2, <5>1, <5>3, Zenon
        <4> QED BY <3>2, <4>1, <4>2
      <3>4. pc[x] \notin {"release", "unwind"} => freed'[x] = 0
        BY <3>1, <3>2 DEF Vector
      <3> QED BY <2>1, <3>1, <3>3, <3>4 DEF Cursor, Vector
    <2> QED BY <2>3, <2>4 DEF Bounds
  <1>14. CASE Released(h) \/ Unwound(h)
    <2>1. /\ UNCHANGED <<alive, atIp, atStep, client, status, tries>>
          /\ locks' = [locks EXCEPT ![h] = <<>>]
          /\ freed' = [freed EXCEPT ![h] = 0]
          /\ \E l \in {"wol", "raise", "head"} : pc' = [pc EXCEPT ![h] = l]
      BY <1>14 DEF Released, Unwound, EmptyLocks
    <2>2. ThreadOK'
      BY <2>1
    <2>3. ASSUME NEW x \in Hosts PROVE (Cursor(x) /\ Vector(x))'
      <3>1. CASE x = h
        <4>1. locks'[h] = <<>> /\ freed'[h] = 0 /\ pc'[h] # "setup"
          BY <2>1
        <4> QED BY <3>1, <4>1 DEF Cursor, Vector
      <3>2. CASE x # h
        BY <2>1, <3>2 DEF Bounds, Cursor, Vector
      <3> QED BY <3>1, <3>2
    <2> QED BY <2>2, <2>3 DEF Bounds
  <1>15. CASE Wol(h)
    <2>1. /\ UNCHANGED <<alive, locks, freed, atIp, atStep, client>>
          /\ \E l \in {"wake", "unblock"} : pc' = [pc EXCEPT ![h] = l]
          /\ \E t \in {"threw", status[h]} : status' = [status EXCEPT ![h] = t]
          /\ tries' = tries \/ tries' = [tries EXCEPT ![h] = PingTries]
      BY <1>15 DEF Wol
    <2>2. tries' \in [Hosts -> 0 .. PingTries]
      <3>1. CASE tries' = tries
        BY <3>1
      <3>2. CASE tries' = [tries EXCEPT ![h] = PingTries]
        <4>1. PingTries \in 0 .. PingTries
          BY <3>2
        <4> QED BY <3>2, <4>1
      <3> QED BY <2>1, <3>1, <3>2
    <2>3. status' \in [Hosts -> Emulate_host_status \cup {"none", "threw"}]
      BY <2>1
    <2>4. Bounds' /\ pc' \in [Hosts -> Label]
      BY <1>15, <2>1, MoveType DEF Wol
    <2> QED BY <2>1, <2>2, <2>3, <2>4
  <1>16. CASE Wake(h)
    <2>1. /\ UNCHANGED <<alive, locks, freed, atIp, atStep, client>>
          /\ \E l \in {"wake", "replay", "unblock"} : pc' = [pc EXCEPT ![h] = l]
          /\ \E t \in {"wake_failure", "success", "threw", status[h]} : status' = [status EXCEPT ![h] = t]
          /\ tries' = tries \/ (tries[h] > 0 /\ tries' = [tries EXCEPT ![h] = @ - 1])
      BY <1>16 DEF Wake
    <2>2. tries' \in [Hosts -> 0 .. PingTries]
      <3>1. CASE tries' = tries
        BY <3>1
      <3>2. CASE tries[h] > 0 /\ tries' = [tries EXCEPT ![h] = @ - 1]
        <4>1. tries[h] - 1 \in 0 .. PingTries
          BY <3>2
        <4> QED BY <3>2, <4>1
      <3> QED BY <2>1, <3>1, <3>2
    <2>3. status' \in [Hosts -> Emulate_host_status \cup {"none", "threw"}]
      BY <2>1
    <2>4. Bounds' /\ pc' \in [Hosts -> Label]
      BY <1>16, <2>1, MoveType DEF Wake
    <2> QED BY <2>1, <2>2, <2>3, <2>4
  <1>17. CASE Replay(h)
    BY <1>17, MoveType DEF Replay
  <1>18. CASE Unblock(h)
    <2>1. CASE pc' = pc
      BY <1>18, <2>1 DEF Unblock, Bounds, Cursor, Vector
    <2>2. CASE alive' = alive /\ pc' # pc
      BY <1>18, <2>2, MoveType DEF Unblock
    <2> QED BY <1>18, <2>1, <2>2 DEF Unblock
  <1>19. CASE Captured(h)
    <2>1. client' \in [Hosts -> Clients]
      BY <1>19 DEF Captured
    <2>2. Bounds' /\ pc' \in [Hosts -> Label]
      BY <1>19, MoveType DEF Captured
    <2> QED BY <1>19, <2>1, <2>2 DEF Captured
  <1>20. CASE CaptureThrows(h)
    BY <1>20, MoveType DEF CaptureThrows
  <1>21. CASE WolBreak(h) \/ DawBreak(h)
    BY <1>21 DEF WolBreak, DawBreak, BreakLoop, Bounds, Cursor, Vector
  <1>22. CASE WatcherAborts(h)
    <2>1. alive' \in BOOLEAN
      BY <1>22, Zenon DEF WatcherAborts
    <2> QED BY <1>22, <2>1 DEF WatcherAborts, Bounds, Cursor, Vector
  <1> QED
    BY <1>1, <1>2, <1>3, <1>4, <1>5, <1>6, <1>7, <1>8, <1>9, <1>10, <1>11, <1>12, <1>13,
       <1>14, <1>15, <1>16, <1>17, <1>18, <1>19, <1>20, <1>21, <1>22
    DEF Step, Environment
(* So are the kernel's tables and the signal state.                        *)
LEMMA SharedType ==
  ASSUME NEW h \in Hosts, TypeInv, Step(h) \/ Environment(h)
  PROVE  KernelOK' /\ SigOK'
  <1>0. TypeOK /\ KernelOK /\ SigOK
    BY TypeParts DEF TypeInv
  <1>k. ASSUME UNCHANGED kernel, Signalled \/ Raised \/ UNCHANGED sig PROVE KernelOK' /\ SigOK'
    BY <1>0, <1>k, SignalledType DEF KernelOK, kernel
  <1>1. CASE LoopHead(h) \/ Ping(h) \/ Awake(h) \/ Asleep(h) \/ Raise(h)
    BY <1>1, <1>k DEF LoopHead, Ping, Awake, Asleep, Raise
  <1>2. CASE Open(h) \/ Register(h) \/ Watch(h) \/ Broken(h) \/ Captured(h) \/ CaptureThrows(h)
    BY <1>2, <1>k DEF Open, Register, Watch, Broken, Captured, CaptureThrows
  <1>3. CASE Leave(h) \/ WatcherAborts(h)
    BY <1>0, <1>3, <1>k DEF Leave, WatcherAborts, KernelOK, SigOK, kernel
  <1>4. CASE Released(h) \/ Unwound(h) \/ Wol(h) \/ Wake(h) \/ Replay(h)
    BY <1>4, <1>k DEF Released, Unwound, Wol, Wake, Replay
  <1>5. CASE Setup(h)
    <2>1. GuardAt(h, atIp[h], atStep[h]) \in Resource
      BY <1>5, GuardType DEF Setup, At, TypeInv, Cursor
    <2> QED BY <1>0, <1>5, <2>1, TakeActionType DEF Setup
  <1>6. CASE Block(h) \/ Unblock(h)
    <2>1. Block_icmp(client[h]) \in Resource
      BY <1>0, HostsAssumption DEF TypeOK, Resource
    <2> QED BY <1>0, <1>6, <2>1, TakeActionType DEF Block, Unblock
  <1>7. CASE Free(h)
    <2>1. freed[h] + 1 \in 1 .. Len(locks[h]) /\ locks[h] \in Seq(Resource)
      BY <1>0, <1>7 DEF Free, TypeOK
    <2>2. locks[h][freed[h] + 1] \in Resource
      BY <2>1
    <2> QED BY <1>0, <1>7, <2>2, TakeActionType DEF Free
  <1>8. CASE WolBreak(h) \/ DawBreak(h)
    BY <1>0, <1>8 DEF WolBreak, DawBreak, BreakLoop, KernelOK, SigOK, kernel
  <1> QED
    BY <1>1, <1>2, <1>3, <1>4, <1>5, <1>6, <1>7, <1>8 DEF Step, Environment

LEMMA TypeInit == Init => TypeInv
  <1> SUFFICES ASSUME Init PROVE TypeInv
    OBVIOUS
  <1>1. rules \in Seq(Rule) /\ locks \in [Hosts -> Seq(Resource)]
    BY DEF Init
  <1>2. client \in [Hosts -> Clients]
    BY HostsAssumption DEF Init
  <1>3. TypeOK
    <2>1. signaled \in BOOLEAN /\ alive \in BOOLEAN
      BY Zenon DEF Init
    <2> QED BY <1>1, <1>2, <2>1, HostsAssumption DEF Init, TypeOK, Label
  <1>4. \A h \in Hosts : Cursor(h) /\ Vector(h)
    BY DEF Init, Cursor, Vector, Holding
  <1> QED BY <1>3, <1>4 DEF TypeInv

LEMMA TypeStep == TypeInv /\ [Next]_vars => TypeInv'
  <1> SUFFICES ASSUME TypeInv, [Next]_vars PROVE TypeInv'
    OBVIOUS
  <1>1. ASSUME NEW h \in Hosts, Step(h) \/ Environment(h) PROVE TypeInv'
    <2>1. KernelOK' /\ SigOK' /\ ThreadOK' /\ Bounds'
      BY <1>1, ThreadType, SharedType
    <2> QED BY <2>1 DEF TypeInv, Bounds, TypeOK, KernelOK, SigOK, ThreadOK
  <1>2. CASE Signal
    <2>1. SigOK'
      BY <1>2, SignalledType DEF Signal, TypeInv
    <2>2. KernelOK' /\ ThreadOK'
      BY <1>2, TypeParts DEF Signal, TypeInv, kernel, own, KernelOK, ThreadOK
    <2>3. Bounds'
      BY <1>2 DEF Signal, own, TypeInv, Bounds, Cursor, Vector
    <2> QED BY <2>1, <2>2, <2>3 DEF TypeInv, Bounds, TypeOK, KernelOK, SigOK, ThreadOK
  <1>3. CASE UNCHANGED vars
    BY <1>3 DEF vars, kernel, sig, own, TypeInv, TypeOK, Cursor, Vector
  <1> QED BY <1>1, <1>2, <1>3 DEF Next, Terminated

THEOREM TypeInvariance == Spec => []TypeInv
  BY TypeInit, TypeStep, PTL DEF Spec

(* The variables of watchHost keep their types under all faults: the loops *)
(* that create the guards stay inside args.address and args.ports, and no  *)
(* guard is destroyed twice.                                               *)
THEOREM TypeCorrect == Spec => []TypeOK
  <1>1. TypeInv => TypeOK
    BY DEF TypeInv
  <1> QED BY <1>1, TypeInvariance, PTL
----------------------------------------------------------------------------
(* The ledger: guards and kernel agree                                     *)

Balanced == \A r \in Resource : IsFiniteSet(Holders(r)) /\ Installed(r) = Cardinality(Holders(r))

(* No command has been disturbed by a signal.                              *)
Undisturbed == signals = 0 \/ {"kill", "intr"} \cap Faults = {}

Ledger == alive /\ Undisturbed => Balanced

(* A command that adds a resource adds one copy of it and nothing else.    *)
LEMMA InstalledAdd ==
  ASSUME TypeOK, NEW g \in Resource, Possible("add", g), Effect("add", g), NEW r \in Resource
  PROVE  Installed(r)' = IF r = g THEN Installed(r) + 1 ELSE Installed(r)
  <1>1. rules \in Seq(Rule)
    BY DEF TypeOK
  <1>2. CASE g.cmd = "addr"
    <2>1. g.ip \notin addrs /\ addrs' = addrs \cup {g.ip} /\ rules' = rules
      BY <1>2 DEF Possible, Effect
    <2>2. r.cmd = "addr" => (r = g <=> r.ip = g.ip)
      BY <1>2 DEF Resource, Reject_tp, Drop_port, Temp_ip, Block_icmp
    <2> QED BY <1>2, <2>1, <2>2 DEF Installed
  <1>3. CASE g.cmd # "addr"
    <2>1. rules' = Insert(rules, g) /\ addrs' = addrs
      BY <1>3 DEF Effect
    <2>2. Copies(rules', r) = IF r = g THEN Copies(rules, r) + 1 ELSE Copies(rules, r)
      BY <1>1, <1>3, <2>1, CopiesInsert DEF Rule
    <2> QED BY <1>3, <2>1, <2>2 DEF Installed
  <1> QED BY <1>2, <1>3

(* A command that deletes a resource takes one copy away.                  *)
LEMMA InstalledDel ==
  ASSUME TypeOK, NEW g \in Resource, Possible("del", g), Effect("del", g), NEW r \in Resource
  PROVE  Installed(r)' = IF r = g THEN Installed(r) - 1 ELSE Installed(r)
  <1>1. rules \in Seq(Rule)
    BY DEF TypeOK
  <1>2. CASE g.cmd = "addr"
    <2>1. g.ip \in addrs /\ addrs' = addrs \ {g.ip} /\ rules' = rules
      BY <1>2 DEF Possible, Effect
    <2>2. r.cmd = "addr" => (r = g <=> r.ip = g.ip)
      BY <1>2 DEF Resource, Reject_tp, Drop_port, Temp_ip, Block_icmp
    <2> QED BY <1>2, <2>1, <2>2 DEF Installed
  <1>3. CASE g.cmd # "addr"
    <2>1. rules' = DeleteFirst(rules, g) /\ addrs' = addrs /\ Places(rules, g) # {}
      BY <1>3 DEF Possible, Effect
    <2>2. Copies(rules', r) = IF r = g THEN Copies(rules, r) - 1 ELSE Copies(rules, r)
      BY <1>1, <2>1, CopiesDelete
    <2> QED BY <1>3, <2>1, <2>2 DEF Installed
  <1> QED BY <1>2, <1>3

(* What a guard holds is there, so the command that deletes it succeeds.   *)
LEMMA HeldIsInstalled ==
  ASSUME TypeOK, Balanced, NEW h \in Hosts, NEW n \in Armed(h), Slot(h, n) \in Resource
  PROVE  Possible("del", Slot(h, n))
  <1> DEFINE g == Slot(h, n)
  <1>1. <<h, n>> \in Holders(g)
    BY DEF Holders
  <1>2. Installed(g) # 0
    BY <1>1, FS_EmptySet DEF Balanced
  <1>3. CASE g.cmd = "addr"
    BY <1>2, <1>3 DEF Installed, Possible
  <1>4. CASE g.cmd # "addr"
    <2>1. rules \in Seq(Rule) /\ Copies(rules, g) # 0
      BY <1>2, <1>4 DEF Installed, TypeOK
    <2>2. Places(rules, g) # {}
      BY <2>1, PlacesFinite, CopiesPositive
    <2> QED BY <1>4, <2>2 DEF Possible
  <1> QED BY <1>3, <1>4

(* Three ways in which a step may treat the guards: it leaves them alone,  *)
(* one more is armed, or one is freed; the kernel goes along.              *)
LEMMA BalancedKept ==
  ASSUME Balanced, UNCHANGED kernel,
         \A x \in Hosts : Armed(x)' = Armed(x),
         \A x \in Hosts : \A m \in Armed(x) : Slot(x, m)' = Slot(x, m)
  PROVE  Balanced'
  <1>1. ASSUME NEW r PROVE Holders(r)' = Holders(r)
    BY DEF Holders
  <1>2. ASSUME NEW r PROVE Installed(r)' = Installed(r)
    BY DEF Installed, kernel
  <1> QED BY <1>1, <1>2 DEF Balanced

LEMMA BalancedAdd ==
  ASSUME TypeOK, Balanced, NEW g \in Resource, Possible("add", g), Effect("add", g),
         NEW h \in Hosts, NEW n, n \notin Armed(h), Slot(h, n)' = g,
         \A x \in Hosts : Armed(x)' = IF x = h THEN Armed(x) \cup {n} ELSE Armed(x),
         \A x \in Hosts : \A m \in Armed(x) : Slot(x, m)' = Slot(x, m)
  PROVE  Balanced'
  <1> SUFFICES ASSUME NEW r \in Resource
               PROVE  IsFiniteSet(Holders(r)') /\ Installed(r)' = Cardinality(Holders(r)')
    BY DEF Balanced
  <1>1. IsFiniteSet(Holders(r)) /\ Installed(r) = Cardinality(Holders(r))
    BY DEF Balanced
  <1>2. Holders(r)' = IF r = g THEN Holders(r) \cup {<<h, n>>} ELSE Holders(r)
    BY DEF Holders
  <1>3. <<h, n>> \notin Holders(r)
    BY DEF Holders
  <1>4. Installed(r)' = IF r = g THEN Installed(r) + 1 ELSE Installed(r)
    BY InstalledAdd
  <1> QED BY <1>1, <1>2, <1>3, <1>4, FS_AddElement

LEMMA BalancedDel ==
  ASSUME TypeOK, Balanced, NEW g \in Resource, Possible("del", g), Effect("del", g),
         NEW h \in Hosts, NEW n \in Armed(h), Slot(h, n) = g,
         \A x \in Hosts : Armed(x)' = IF x = h THEN Armed(x) \ {n} ELSE Armed(x),
         \A x \in Hosts : \A m \in Armed(x)' : Slot(x, m)' = Slot(x, m)
  PROVE  Balanced'
  <1> SUFFICES ASSUME NEW r \in Resource
               PROVE  IsFiniteSet(Holders(r)') /\ Installed(r)' = Cardinality(Holders(r)')
    BY DEF Balanced
  <1>1. IsFiniteSet(Holders(r)) /\ Installed(r) = Cardinality(Holders(r))
    BY DEF Balanced
  <1>2. Holders(r)' = IF r = g THEN Holders(r) \ {<<h, n>>} ELSE Holders(r)
    BY DEF Holders
  <1>3. r = g => <<h, n>> \in Holders(r)
    BY DEF Holders
  <1>4. Installed(r)' = IF r = g THEN Installed(r) - 1 ELSE Installed(r)
    BY InstalledDel
  <1> QED BY <1>1, <1>2, <1>3, <1>4, FS_RemoveElement

(* A command that no signal disturbed has done its work when it reports    *)
(* success, and nothing when take_action throws.                           *)
LEMMA UndisturbedCommand ==
  ASSUME TypeOK, Undisturbed', NEW a, NEW r
  PROVE  /\ TakeAction(a, r) => Possible(a, r) /\ Effect(a, r) /\ UNCHANGED sig
         /\ TakeActionThrows(a, r) =>
                (~Possible(a, r) \/ a \in Faults) /\ UNCHANGED <<kernel, sig>>
  <1>1. Signalled => {"kill", "intr"} \cap Faults = {}
    BY DEF TypeOK, Signalled, Undisturbed
  <1> QED BY <1>1 DEF TakeAction, TakeActionThrows

(* The signals only grow, so what is undisturbed after a step was so       *)
(* before it; a terminated process does not come back.                     *)
LEMMA LedgerHypotheses ==
  ASSUME TypeOK, [Next]_vars, alive', Undisturbed'
  PROVE  alive /\ Undisturbed
  <1>1. CASE UNCHANGED vars
    BY <1>1 DEF vars, sig, Undisturbed
  <1>2. CASE Signal
    BY <1>2 DEF Signal, Signalled, TypeOK, Undisturbed
  <1>3. ASSUME NEW h \in Hosts, Step(h) \/ Environment(h) PROVE alive /\ Undisturbed
    <2>1. alive
      BY <1>3 DEF Step, Environment, At, LoopHead, Ping, Awake, Asleep, Raise, Setup, Open,
         Register, Watch, Broken, Leave, Block, Free, Released, Unwound, Wol, Wake, Replay,
         Unblock, WolBreak, WatcherAborts, DawBreak, Captured, CaptureThrows
    <2>2. signals' = signals \/ Signalled
      BY <1>3 DEF Step, Environment, sig, Raised, LoopHead, Ping, Awake, Asleep, Raise, Setup,
         Open, Register, Watch, Broken, Leave, Block, Free, Released, Unwound, Wol, Wake,
         Replay, Unblock, WolBreak, WatcherAborts, DawBreak, BreakLoop, Captured, CaptureThrows, TakeAction,
         TakeActionThrows
    <2>3. signals' = 0 => signals = 0
      BY <2>2 DEF Signalled, TypeOK
    <2> QED BY <2>1, <2>3 DEF Undisturbed
  <1> QED BY <1>1, <1>2, <1>3 DEF Next, Terminated

(* The thread of h moves without touching a guard: block_icmp is neither   *)
(* created nor destroyed, and its client changes only outside its scope.   *)
LEMMA QuietMove ==
  ASSUME NEW h \in Hosts, TypeInv, Balanced,
         UNCHANGED <<kernel, locks, freed>>,
         \A x \in Hosts : Blocked(x)' <=> Blocked(x),
         \A x \in Hosts : Blocked(x) => client'[x] = client[x]
  PROVE  Balanced'
  <1>1. \A x \in Hosts : Armed(x)' = Armed(x)
    BY DEF Armed
  <1>2. \A x \in Hosts : \A m \in Armed(x) : Slot(x, m)' = Slot(x, m)
    <2> SUFFICES ASSUME NEW x \in Hosts, NEW m \in Armed(x) PROVE Slot(x, m)' = Slot(x, m)
      OBVIOUS
    <2>1. CASE m = 0
      <3>1. Blocked(x)
        BY <2>1 DEF Armed, TypeInv, TypeOK
      <3> QED BY <2>1, <3>1 DEF Slot
    <2>2. CASE m # 0
      BY <2>2 DEF Slot
    <2> QED BY <2>1, <2>2
  <1> QED BY <1>1, <1>2, BalancedKept

(* One step of a thread keeps the ledger.                                  *)
LEMMA LedgerThread ==
  ASSUME NEW h \in Hosts, TypeInv, Balanced, alive', Undisturbed',
         Step(h) \/ Environment(h)
  PROVE  Balanced'
  <1>0. TypeOK /\ \A x \in Hosts : Cursor(x) /\ Vector(x)
    BY DEF TypeInv
  <1>p. /\ DOMAIN pc = Hosts /\ DOMAIN locks = Hosts /\ DOMAIN freed = Hosts
        /\ DOMAIN client = Hosts
        /\ \A x \in Hosts : freed[x] \in Nat /\ locks[x] \in Seq(Resource)
                            /\ Len(locks[x]) \in Nat
    BY <1>0 DEF TypeOK
  <1>1. CASE LoopHead(h) \/ Ping(h) \/ Awake(h) \/ Asleep(h) \/ Raise(h)
    BY <1>1, <1>p, QuietMove
    DEF LoopHead, Ping, Awake, Asleep, Raise, At, Goto, own, Blocked, Throw
  <1>2. CASE Open(h) \/ Register(h) \/ Watch(h) \/ Broken(h) \/ CaptureThrows(h) \/ Leave(h)
    BY <1>2, <1>p, QuietMove
    DEF Open, Register, Watch, Broken, CaptureThrows, Leave, At, Goto, own, Blocked, Throw
  <1>3. CASE Captured(h)
    BY <1>3, <1>p, QuietMove DEF Captured, At, Goto, Blocked
  <1>4. CASE Wol(h) \/ Wake(h) \/ Replay(h)
    BY <1>4, <1>p, QuietMove DEF Wol, Wake, Replay, At, Goto, Blocked, Throw
  <1>5. CASE WolBreak(h) \/ DawBreak(h)
    BY <1>5, <1>p, QuietMove DEF WolBreak, DawBreak, BreakLoop, own, Blocked
  <1>w. CASE WatcherAborts(h)
    BY <1>w DEF WatcherAborts
  <1>6. CASE Released(h) \/ Unwound(h)
    <2>1. /\ UNCHANGED <<kernel, client>> /\ freed[h] = Len(locks[h])
          /\ locks' = [locks EXCEPT ![h] = <<>>] /\ freed' = [freed EXCEPT ![h] = 0]
          /\ \A x \in Hosts : Blocked(x)' <=> Blocked(x)
      BY <1>6, <1>p DEF Released, Unwound, EmptyLocks, At, Goto, Blocked
    <2>2. \A x \in Hosts : Armed(x)' = Armed(x)
      <3>1. Armed(h)' = Armed(h)
        BY <1>p, <2>1 DEF Armed
      <3> QED BY <1>p, <2>1, <3>1 DEF Armed
    <2>3. \A x \in Hosts : \A m \in Armed(x) : Slot(x, m)' = Slot(x, m)
      <3>1. ASSUME NEW m \in Armed(h) PROVE m = 0
        BY <1>p, <2>1, <3>1 DEF Armed
      <3> QED BY <1>p, <2>1, <3>1 DEF Slot
    <2> QED BY <2>1, <2>2, <2>3, BalancedKept
  <1>7. CASE Setup(h)
    <2> DEFINE g == GuardAt(h, atIp[h], atStep[h])
    <2>n. PICK n \in Nat : n = Len(locks[h]) + 1
      BY <1>p
    <2>1. g \in Resource /\ pc[h] = "setup" /\ freed[h] = 0 /\ ~Blocked(h)
      BY <1>0, <1>7, GuardType DEF Setup, At, Cursor, Vector, Blocked
    <2>2. CASE TakeAction("add", g) /\ locks' = [locks EXCEPT ![h] = Append(@, g)]
      <3>1. Possible("add", g) /\ Effect("add", g) /\ UNCHANGED <<freed, client>>
        BY <1>0, <1>7, <2>2, UndisturbedCommand DEF Setup
      <3>2. locks'[h] = Append(locks[h], g) /\ Len(locks'[h]) = n
            /\ \A x \in Hosts : x # h => locks'[x] = locks[x]
        BY <1>p, <2>n, <2>1, <2>2
      <3>3. \A x \in Hosts : Blocked(x)' <=> Blocked(x)
        BY <1>7, <1>p DEF Setup, At, Goto, Blocked, Throw
      <3>4. n \notin Armed(h) /\ Slot(h, n)' = g
        BY <1>p, <2>n, <2>1, <3>2 DEF Armed, Slot
      <3>5. \A x \in Hosts : Armed(x)' = IF x = h THEN Armed(x) \cup {n} ELSE Armed(x)
        <4>1. Armed(h)' = Armed(h) \cup {n}
          BY <1>p, <2>n, <2>1, <3>1, <3>2, <3>3 DEF Armed
        <4> QED BY <3>1, <3>2, <3>3, <4>1 DEF Armed
      <3>6. \A x \in Hosts : \A m \in Armed(x) : Slot(x, m)' = Slot(x, m)
        <4>1. ASSUME NEW m \in Armed(h) PROVE m \in 1 .. Len(locks[h]) /\ m # 0
          BY <1>p, <2>1, <4>1 DEF Armed
        <4>2. ASSUME NEW m \in Armed(h) PROVE Slot(h, m)' = Slot(h, m)
          BY <1>p, <3>2, <4>1 DEF Slot
        <4> QED BY <3>1, <3>2, <4>2 DEF Slot
      <3> QED BY <1>0, <2>1, <3>1, <3>4, <3>5, <3>6, BalancedAdd
    <2>3. CASE TakeActionThrows("add", g) /\ Throw(h, "unwind") /\ UNCHANGED locks
      BY <1>0, <1>7, <1>p, <2>1, <2>3, UndisturbedCommand, QuietMove
      DEF Setup, Goto, Throw, Blocked
    <2> QED BY <1>7, <2>2, <2>3 DEF Setup
  <1>8. CASE Block(h)
    <2> DEFINE g == Block_icmp(client[h])
    <2>1. g \in Resource /\ pc[h] = "block" /\ ~Blocked(h) /\ UNCHANGED <<locks, freed, client>>
      BY <1>0, <1>8, HostsAssumption DEF Block, At, Blocked, TypeOK, Resource
    <2>2. CASE TakeAction("add", g) /\ Goto(h, "release")
      <3>1. Possible("add", g) /\ Effect("add", g)
        BY <1>0, <2>2, UndisturbedCommand
      <3>2. Blocked(h)' /\ \A x \in Hosts : x # h => (Blocked(x)' <=> Blocked(x))
        BY <1>p, <2>2 DEF Goto, Blocked
      <3>3. 0 \notin Armed(h) /\ Slot(h, 0)' = g
        BY <1>p, <2>1 DEF Armed, Slot
      <3>4. \A x \in Hosts : Armed(x)' = IF x = h THEN Armed(x) \cup {0} ELSE Armed(x)
        BY <2>1, <3>2 DEF Armed
      <3>5. \A x \in Hosts : \A m \in Armed(x) : Slot(x, m)' = Slot(x, m)
        BY <2>1 DEF Slot
      <3> QED BY <1>0, <2>1, <3>1, <3>3, <3>4, <3>5, BalancedAdd
    <2>3. CASE TakeActionThrows("add", g) /\ Throw(h, "unwind")
      BY <1>0, <1>p, <2>1, <2>3, UndisturbedCommand, QuietMove DEF Goto, Throw, Blocked
    <2> QED BY <1>8, <2>2, <2>3 DEF Block
  <1>9. CASE Free(h)
    <2> DEFINE n == freed[h] + 1
               g == locks[h][n]
    <2>1. /\ n \in 1 .. Len(locks[h]) /\ UNCHANGED <<pc, locks, client>>
          /\ TakeAction("del", g) /\ freed' = [freed EXCEPT ![h] = n]
      BY <1>9, <1>p DEF Free
    <2>2. g \in Resource /\ Possible("del", g) /\ Effect("del", g)
      BY <1>0, <1>p, <2>1, UndisturbedCommand
    <2>3. n \in Armed(h) /\ Slot(h, n) = g
      BY <1>p, <2>1 DEF Armed, Slot
    <2>4. \A x \in Hosts : Armed(x)' = IF x = h THEN Armed(x) \ {n} ELSE Armed(x)
      <3>1. Armed(h)' = Armed(h) \ {n}
        BY <1>p, <2>1 DEF Armed, Blocked
      <3> QED BY <1>p, <2>1, <3>1 DEF Armed, Blocked
    <2>5. \A x \in Hosts : \A m \in Armed(x)' : Slot(x, m)' = Slot(x, m)
      BY <2>1 DEF Slot
    <2> QED BY <1>0, <2>2, <2>3, <2>4, <2>5, BalancedDel
  <1>10. CASE Unblock(h)
    <2> DEFINE g == Block_icmp(client[h])
    <2>1. /\ g \in Resource /\ Blocked(h) /\ UNCHANGED <<locks, freed, client>>
          /\ TakeAction("del", g) /\ \E l \in {"raise", "head"} : Goto(h, l)
      BY <1>0, <1>10, HostsAssumption DEF Unblock, At, Blocked, TypeOK, Resource, own
    <2>2. Possible("del", g) /\ Effect("del", g)
      BY <1>0, <2>1, UndisturbedCommand
    <2>3. ~Blocked(h)' /\ \A x \in Hosts : x # h => (Blocked(x)' <=> Blocked(x))
      BY <1>p, <2>1 DEF Goto, Blocked
    <2>4. 0 \in Armed(h) /\ Slot(h, 0) = g
      BY <2>1 DEF Armed, Slot
    <2>5. \A x \in Hosts : Armed(x)' = IF x = h THEN Armed(x) \ {0} ELSE Armed(x)
      <3>1. Armed(h)' = Armed(h) \ {0}
        BY <1>p, <2>1, <2>3 DEF Armed
      <3> QED BY <2>1, <2>3, <3>1 DEF Armed
    <2>6. \A x \in Hosts : \A m \in Armed(x)' : Slot(x, m)' = Slot(x, m)
      BY <2>1 DEF Slot
    <2> QED BY <1>0, <2>1, <2>2, <2>4, <2>5, <2>6, BalancedDel
  <1> QED
    BY <1>1, <1>2, <1>3, <1>4, <1>5, <1>6, <1>7, <1>8, <1>9, <1>10, <1>w DEF Step, Environment

LEMMA LedgerInit == Init => Ledger
  <1> SUFFICES ASSUME Init, NEW r \in Resource
               PROVE  IsFiniteSet(Holders(r)) /\ Installed(r) = Cardinality(Holders(r))
    BY DEF Ledger, Balanced
  <1>1. \A h \in Hosts : Armed(h) = {}
    BY DEF Init, Armed, Blocked
  <1>2. Holders(r) = {}
    BY <1>1 DEF Holders
  <1>3. Installed(r) = 0
    <2>1. Places(rules, r) = {}
      BY DEF Init, Places
    <2> QED BY <2>1, FS_EmptySet DEF Init, Installed, Copies
  <1> QED BY <1>2, <1>3, FS_EmptySet

LEMMA LedgerStep == TypeInv /\ Ledger /\ [Next]_vars => Ledger'
  <1> SUFFICES ASSUME TypeInv, Ledger, [Next]_vars, alive', Undisturbed' PROVE Balanced'
    BY DEF Ledger
  <1>1. Balanced
    BY LedgerHypotheses DEF TypeInv, Ledger
  <1>2. ASSUME NEW h \in Hosts, Step(h) \/ Environment(h) PROVE Balanced'
    BY <1>1, <1>2, LedgerThread
  <1>3. CASE Signal \/ UNCHANGED vars
    BY <1>1, <1>3, BalancedKept DEF Signal, vars, own, Armed, Slot, Blocked
  <1> QED BY <1>2, <1>3 DEF Next, Terminated

THEOREM LedgerInvariance == Spec => [](TypeInv /\ Ledger)
  BY TypeInit, TypeStep, LedgerInit, LedgerStep, PTL DEF Spec

(* The property KernelFollowsGuards of the runs: whatever commands fail,   *)
(* and whatever addresses and clients the hosts share, the kernel holds    *)
(* what the guards of the threads hold, copy by copy, until a signal.      *)
THEOREM KernelAgrees == Spec => []KernelFollowsGuards
  <1>1. TypeInv /\ Ledger => KernelFollowsGuards
    BY DEF Ledger, Balanced, Undisturbed, KernelFollowsGuards
  <1> QED BY <1>1, LedgerInvariance, PTL

----------------------------------------------------------------------------
(* Clean exit                                                              *)

(* What the environment has to grant: the commands that delete what is     *)
(* there succeed, pings can be spawned, the capture of the Wol_watcher     *)
(* does not fail, and a signal reaches neither the running command nor the *)
(* thread that waits for it.  Commands that add, the capture of the SYN,   *)
(* the duplicate address watchers and the wake-up may fail at any time.    *)
Benign == Faults \cap {"del", "ping", "abort", "kill", "intr"} = {}

LEMMA AliveStep ==
  ASSUME Benign, TypeInv, Ledger, alive, [Next]_vars
  PROVE  alive'
  <1>1. TypeOK /\ Balanced /\ \A x \in Hosts : Vector(x)
    BY DEF Benign, Ledger, Undisturbed, TypeInv
  <1>u. Undisturbed'
    BY DEF Benign, Undisturbed
  <1>2. CASE Signal \/ UNCHANGED vars
    BY <1>2 DEF Signal, vars
  <1>3. ASSUME NEW h \in Hosts, Step(h) \/ Environment(h) PROVE alive'
    <2>1. CASE Free(h)
      <3> DEFINE n == freed[h] + 1
      <3>1. n \in 1 .. Len(locks[h]) /\ freed[h] \in Nat /\ locks[h] \in Seq(Resource)
        BY <1>1, <2>1 DEF Free, TypeOK
      <3>2. n \in Armed(h) /\ Slot(h, n) = locks[h][n] /\ locks[h][n] \in Resource
        BY <3>1 DEF Armed, Slot
      <3>3. Possible("del", locks[h][n])
        BY <1>1, <3>2, HeldIsInstalled
      <3>4. ~TakeActionThrows("del", locks[h][n])
        BY <1>1, <1>u, <3>3, UndisturbedCommand DEF Benign
      <3> QED BY <2>1, <3>4 DEF Free
    <2>2. CASE Unblock(h)
      <3>1. 0 \in Armed(h) /\ Slot(h, 0) = Block_icmp(client[h])
        BY <2>2 DEF Unblock, At, Armed, Slot, Blocked
      <3>2. Slot(h, 0) \in Resource
        BY <1>1, <3>1, HostsAssumption DEF TypeOK, Resource
      <3>3. Possible("del", Block_icmp(client[h]))
        BY <1>1, <3>1, <3>2, HeldIsInstalled
      <3>4. ~TakeActionThrows("del", Block_icmp(client[h]))
        BY <1>1, <1>u, <3>3, UndisturbedCommand DEF Benign
      <3> QED BY <2>2, <3>4 DEF Unblock
    <2>3. CASE Ping(h)
      BY <2>3 DEF Ping, Benign
    <2> QED
      BY <1>3, <2>1, <2>2, <2>3 DEF Step, Environment, LoopHead, Awake, Asleep, Raise, Setup,
         Open, Register, Watch, Broken, Leave, Block, Released, Unwound, Wol, Wake, Replay,
         WolBreak, WatcherAborts, DawBreak, BreakLoop, Captured, CaptureThrows, Benign
  <1> QED BY <1>2, <1>3 DEF Next, Terminated

(* No exception leaves a destructor and none escapes thread_main: every    *)
(* guard that is destroyed finds its resource, even when hosts share       *)
(* addresses and a set-up that failed half-way is undone.                  *)
THEOREM NeverAborts == ASSUME Benign PROVE Spec => [](TypeInv /\ Ledger /\ alive)
  <1>1. Init => alive
    BY DEF Init
  <1>2. TypeInv /\ Ledger /\ alive /\ [Next]_vars => alive'
    BY AliveStep
  <1> QED BY <1>1, <1>2, LedgerInvariance, PTL DEF Spec

(* The README's promise, the property CleanExit of the runs: when the      *)
(* process is gone, no rule and no address is left, whatever was set up,   *)
(* failed or was signalled on the way.                                     *)
THEOREM LeavesNothing == ASSUME Benign PROVE Spec => []CleanExit
  <1>1. TypeInv /\ Ledger /\ alive => CleanExit
    <2> SUFFICES ASSUME TypeInv, Balanced, AllDone PROVE rules = <<>> /\ addrs = {}
      BY DEF Ledger, Undisturbed, Benign, CleanExit, Gone
    <2>1. \A h \in Hosts : Armed(h) = {}
      BY DEF AllDone, TypeInv, Vector, Holding, Armed, Blocked
    <2>2. \A r \in Resource : Installed(r) = 0
      <3>1. \A r \in Resource : Holders(r) = {}
        BY <2>1 DEF Holders
      <3> QED BY <3>1, FS_EmptySet DEF Balanced
    <2>3. addrs = {}
      <3> SUFFICES ASSUME NEW ip \in addrs PROVE FALSE
        OBVIOUS
      <3>1. Temp_ip(ip) \in Resource
        BY DEF TypeInv, TypeOK, Resource
      <3> QED BY <2>2, <3>1 DEF Installed, Temp_ip
    <2>4. rules = <<>>
      <3>1. rules \in Seq(Rule)
        BY DEF TypeInv, TypeOK
      <3>2. \A r \in Rule : Copies(rules, r) = 0
        BY <2>2 DEF Installed, Rule
      <3> QED BY <3>1, <3>2, NoCopies
    <2> QED BY <2>3, <2>4
  <1> QED BY <1>1, NeverAborts, PTL

(* The property HandoverSilenced of the runs: while a host is handed over, *)
(* its client gets no destination-unreachable message, even if another     *)
(* host hands over to the same client and deletes an equal rule.           *)
THEOREM StaysSilent ==
  ASSUME {"kill", "intr"} \cap Faults = {} PROVE Spec => []HandoverSilenced
  <1>1. TypeInv /\ Ledger => HandoverSilenced
    <2> SUFFICES ASSUME TypeInv, Balanced, NEW h \in Hosts,
                        pc[h] \in {"release", "wol", "wake", "replay"}
                 PROVE  Places(rules, Block_icmp(client[h])) # {}
      BY DEF Ledger, Undisturbed, HandoverSilenced
    <2>1. 0 \in Armed(h) /\ Slot(h, 0) = Block_icmp(client[h])
      BY DEF Armed, Slot, Blocked
    <2>2. Slot(h, 0) \in Resource
      BY <2>1, HostsAssumption DEF TypeInv, TypeOK, Resource
    <2>3. Possible("del", Block_icmp(client[h]))
      BY <2>1, <2>2, HeldIsInstalled DEF TypeInv
    <2> QED BY <2>3 DEF Possible, Block_icmp
  <1> QED BY <1>1, LedgerInvariance, PTL

----------------------------------------------------------------------------
(* Waking the host                                                         *)

(* No address is configured for two hosts.                                 *)
Disjoint ==
    \A g, h \in Hosts : \A i \in DOMAIN Addresses[g], j \in DOMAIN Addresses[h] :
        Addresses[g][i] = Addresses[h][j] => g = h

(* The vector of guards holds resources of the host's own addresses only.  *)
OwnGuards ==
    \A h \in Hosts : \A n \in DOMAIN locks[h] :
        /\ locks[h][n].cmd # "icmp"
        /\ \E i \in DOMAIN Addresses[h] : locks[h][n].ip = Addresses[h][i]

LEMMA GuardOwn ==
  ASSUME NEW h \in Hosts, NEW i \in 1 .. Len(Addresses[h]), NEW n \in 1 .. Steps(h)
  PROVE  GuardAt(h, i, n).cmd # "icmp" /\ GuardAt(h, i, n).ip = Addresses[h][i]
  <1>0. Steps(h) \in Nat /\ Steps(h) >= 3
    BY HostsAssumption DEF Steps
  <1>1. CASE n = 1 \/ n = 2
    BY <1>0, <1>1 DEF GuardAt, Reject_tp
  <1>2. CASE n # 1 /\ n # 2 /\ n = Steps(h)
    BY <1>2 DEF GuardAt, Temp_ip
  <1>3. CASE n # 1 /\ n # 2 /\ n # Steps(h)
    BY <1>3 DEF GuardAt, Drop_port
  <1> QED BY <1>1, <1>2, <1>3

LEMMA OwnGuardsStep == TypeInv /\ OwnGuards /\ [Next]_vars => OwnGuards'
  <1> SUFFICES ASSUME TypeInv, OwnGuards, [Next]_vars PROVE OwnGuards'
    OBVIOUS
  <1>0. locks \in [Hosts -> Seq(Resource)]
    BY DEF TypeInv, TypeOK
  <1>1. CASE UNCHANGED locks
    BY <1>1 DEF OwnGuards
  <1>2. ASSUME NEW h \in Hosts, locks' = [locks EXCEPT ![h] = <<>>] PROVE OwnGuards'
    <2>1. DOMAIN locks'[h] = {} /\ \A x \in Hosts : x # h => locks'[x] = locks[x]
      BY <1>0, <1>2
    <2> QED BY <2>1 DEF OwnGuards
  <1>3. ASSUME NEW h \in Hosts, Setup(h), ~UNCHANGED locks PROVE OwnGuards'
    <2> DEFINE g == GuardAt(h, atIp[h], atStep[h])
    <2>1. /\ locks' = [locks EXCEPT ![h] = Append(@, g)]
          /\ atIp[h] \in 1 .. Len(Addresses[h]) /\ atStep[h] \in 1 .. Steps(h)
      BY <1>3 DEF Setup, At, TypeInv, Cursor
    <2>2. /\ g \in Resource /\ g.cmd # "icmp" /\ g.ip = Addresses[h][atIp[h]]
          /\ atIp[h] \in DOMAIN Addresses[h]
      BY <2>1, GuardOwn, GuardType, HostsAssumption
    <2> HIDE DEF g
    <2>3. /\ locks'[h] = Append(locks[h], g) /\ locks[h] \in Seq(Resource)
          /\ \A x \in Hosts : x # h => locks'[x] = locks[x]
      BY <1>0, <2>1
    <2>4. ASSUME NEW n \in DOMAIN locks'[h]
          PROVE  locks'[h][n] = g \/ (n \in DOMAIN locks[h] /\ locks'[h][n] = locks[h][n])
      BY <2>2, <2>3
    <2>5. ASSUME NEW x \in Hosts, NEW n \in DOMAIN locks'[x]
          PROVE  /\ locks'[x][n].cmd # "icmp"
                 /\ \E i \in DOMAIN Addresses[x] : locks'[x][n].ip = Addresses[x][i]
      <3>1. CASE x # h
        BY <2>3, <3>1 DEF OwnGuards
      <3>2. CASE x = h /\ locks'[h][n] = g
        BY <2>2, <3>2
      <3>3. CASE x = h /\ n \in DOMAIN locks[h] /\ locks'[h][n] = locks[h][n]
        BY <3>3 DEF OwnGuards
      <3> QED BY <2>4, <3>1, <3>2, <3>3
    <2> QED BY <2>5 DEF OwnGuards
  <1>4. \/ UNCHANGED locks
        \/ \E h \in Hosts : Setup(h) \/ locks' = [locks EXCEPT ![h] = <<>>]
    BY DEF Next, Terminated, Signal, vars, own, Step, Environment, LoopHead, Ping, Awake, Asleep,
           Raise, Open, Register, Watch, Broken, Leave, Block, Free, Released, Unwound, EmptyLocks,
           Wol, Wake, Replay, Unblock, WolBreak, WatcherAborts, DawBreak, BreakLoop, Captured,
           CaptureThrows
  <1> QED BY <1>1, <1>2, <1>3, <1>4

(* What is installed for an address of h, the ICMP rules of clients apart, *)
(* is held by a guard in the vector of h.                                  *)
LEMMA HolderIsOwn ==
  ASSUME Disjoint, TypeInv, Balanced, OwnGuards, NEW h \in Hosts,
         NEW i \in DOMAIN Addresses[h], NEW r \in Resource,
         r.ip = Addresses[h][i], r.cmd # "icmp", Installed(r) # 0
  PROVE  \E n \in DOMAIN locks[h] : locks[h][n] = r
  <1>1. Holders(r) # {}
    BY FS_EmptySet DEF Balanced
  <1>2. PICK x \in Hosts : \E n \in Armed(x) : Slot(x, n) = r
    BY <1>1 DEF Holders
  <1>3. PICK n \in Armed(x) : Slot(x, n) = r
    BY <1>2
  <1>4. n # 0
    BY <1>3 DEF Slot, Block_icmp
  <1>5. n \in DOMAIN locks[x] /\ locks[x][n] = r
    <2>1. freed[x] \in Nat /\ locks[x] \in Seq(Resource)
      BY DEF TypeInv, TypeOK
    <2>2. n \in (freed[x] + 1) .. Len(locks[x])
      BY <1>4 DEF Armed
    <2> QED BY <1>3, <1>4, <2>1, <2>2 DEF Slot
  <1>6. x = h
    <2>1. PICK j \in DOMAIN Addresses[x] : r.ip = Addresses[x][j]
      BY <1>5 DEF OwnGuards
    <2> QED BY <2>1 DEF Disjoint
  <1> QED BY <1>5, <1>6

LEMMA InstalledIsOwn ==
  ASSUME Disjoint, TypeInv, Balanced, OwnGuards, NEW h \in Hosts, locks[h] = <<>>,
         NEW i \in DOMAIN Addresses[h], NEW r \in Resource,
         r.ip = Addresses[h][i], r.cmd # "icmp"
  PROVE  Installed(r) = 0
  BY HolderIsOwn

(* The property WakeAfterRelease of the runs: whatever was set up, when    *)
(* the magic packet is sent, the host is pinged and the SYN is replayed,   *)
(* this machine has neither its addresses nor its rules any more.          *)
THEOREM WakesReleased == ASSUME Benign, Disjoint PROVE Spec => []WakeAfterRelease
  <1>1. Init => OwnGuards
    BY DEF Init, OwnGuards
  <1>2. TypeInv /\ Ledger /\ alive /\ OwnGuards => WakeAfterRelease
    <2> SUFFICES ASSUME TypeInv, Balanced, OwnGuards, NEW h \in Hosts,
                        pc[h] \in {"wol", "wake", "replay", "unblock"},
                        NEW i \in DOMAIN Addresses[h]
                 PROVE  /\ Addresses[h][i] \notin addrs
                        /\ \A k \in DOMAIN rules :
                               rules[k].cmd \in {"reject", "drop"} => rules[k].ip # Addresses[h][i]
      BY DEF Ledger, Undisturbed, Benign, WakeAfterRelease
    <2>1. locks[h] = <<>> /\ rules \in Seq(Rule) /\ addrs \in SUBSET IPs
      BY DEF TypeInv, TypeOK, Vector, Holding
    <2>2. Addresses[h][i] \notin addrs
      <3> SUFFICES ASSUME Addresses[h][i] \in addrs PROVE FALSE
        OBVIOUS
      <3>1. Temp_ip(Addresses[h][i]) \in Resource
        BY <2>1 DEF Resource, Temp_ip
      <3>2. Installed(Temp_ip(Addresses[h][i])) = 0
        BY <2>1, <3>1, InstalledIsOwn DEF Temp_ip
      <3> QED BY <3>2 DEF Installed, Temp_ip
    <2>3. ASSUME NEW k \in DOMAIN rules, rules[k].cmd \in {"reject", "drop"}
          PROVE  rules[k].ip # Addresses[h][i]
      <3> SUFFICES ASSUME rules[k].ip = Addresses[h][i] PROVE FALSE
        OBVIOUS
      <3>1. rules[k] \in Resource /\ rules[k].cmd # "addr" /\ rules[k].cmd # "icmp"
        BY <2>1, <2>3 DEF Rule
      <3>2. Installed(rules[k]) = 0
        BY <2>1, <3>1, InstalledIsOwn
      <3>3. k \in Places(rules, rules[k])
        BY DEF Places
      <3> QED BY <2>1, <3>1, <3>2, <3>3, CopiesPositive DEF Installed
    <2> QED BY <2>2, <2>3
  <1> QED BY <1>1, <1>2, OwnGuardsStep, NeverAborts, PTL DEF Spec
=============================================================================
