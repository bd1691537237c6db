----------------------------- MODULE WatchHost -----------------------------
(***************************************************************************)
(* The program watchHost: one thread per sleeping host runs thread_main,   *)
(* which waits until the host stops answering pings, then takes over its   *)
(* addresses (emulate_host), waits for a connection, gives everything back *)
(* and wakes the host.  The threads share the kernel's firewall and        *)
(* address tables, the flag `signaled' and the list of capture loops that  *)
(* the signal handler breaks.                                              *)
(*                                                                         *)
(* A capture loop is seen through the promise of module CaptureLoop: it    *)
(* ends with a packet, with a reason some break_loop call gave it, or with *)
(* an exception.                                                           *)
(***************************************************************************)
EXTENDS Network

CONSTANTS
    Hosts,        \* the hosts of the configuration, one thread each
    Addresses,    \* Addresses[h]: the sequence args.address of host h
    Ports,        \* Ports[h]: the sequence args.ports of host h
    Clients,      \* addresses connections come from
    PingTries,    \* args.ping_tries
    Faults,       \* what may go wrong outside the program, see below
    MaxSignals    \* bound on the signals sent to the process

(***************************************************************************)
(* Faults: "add" / "del": a command that adds / deletes a resource exits   *)
(* with an error; "ping": a ping cannot be spawned; "pcap": libpcap or a   *)
(* command of the watchers fails while listening; "wake": sending the      *)
(* magic packet or the captured SYN fails; "watcher": a watcher thread     *)
(* catches an exception; "abort": a watcher thread ends the process: the   *)
(* Wol_watcher's capture fails, or an IPv6 watcher cannot delete its rule; *)
(* "kill": the signal that reaches the process also kills the command that *)
(* is running (Ctrl-C in a terminal); "intr": the signal is handled by the *)
(* thread that waits for the command in waitpid.                           *)
(***************************************************************************)
ASSUME HostsAssumption ==
    /\ IsFiniteSet(Hosts)
    /\ Addresses \in [Hosts -> Seq(IPs) \ {<<>>}]
    /\ Ports \in [Hosts -> Seq(PortNos)]
    /\ Clients \subseteq IPs /\ Clients # {}
    /\ PingTries \in Nat
    /\ MaxSignals \in Nat
    /\ Faults \subseteq {"add", "del", "ping", "pcap", "wake", "watcher", "abort",
                      "kill", "intr"}

VARIABLES
    rules,      \* the firewall rules
    addrs,      \* the addresses of the interface that the program added
    signaled,   \* the atomic flag `signaled'
    signals,    \* signals sent so far
    asked,      \* asked[h]: the reasons given to the capture loop of h
    alive,      \* FALSE after std::terminate
    pc,         \* pc[h]: where the thread of h is
    locks,      \* locks[h]: the vector `locks' / `guards' of emulate_host
    freed,      \* freed[h]: how many guards of the vector are destroyed
    atIp,       \* atIp[h], atStep[h]: where the two nested loops of
    atStep,     \*     setup_firewall_and_ips are
    client,     \* client[h]: the source address of the captured SYN
    status,     \* status[h]: what emulate_host returned last
    tries       \* tries[h]: the pings that ping_and_wait has left

kernel == <<rules, addrs>>
sig    == <<signaled, signals, asked>>
own    == <<locks, freed, atIp, atStep, client, status, tries>>
vars   == <<kernel, sig, alive, pc, own>>

----------------------------------------------------------------------------
(* emulate_host returned or threw; "none": it has not ended yet.           *)
Emulate_host_status ==
    {"success", "duplicate_address", "signal_received", "undefined_error", "wake_failure"}

Label == {"head", "ping", "awake", "asleep", "setup", "open", "register", "watch",
          "capture", "leave", "block", "release", "wol", "wake", "replay",
          "unblock", "unwind", "raise", "done"}

\* The capture loop of h is in the list `pcaps' of the signal handler and has
\* not ended yet.
Registered(h) == pc[h] \in {"watch", "capture"}

\* The scope of the guard block_icmp of emulate_host.
Blocked(h) == pc[h] \in {"release", "wol", "wake", "replay", "unblock"}

\* thread_main's variable `loop'; an exception leaves it as it was: true.
Looping(h) == status[h] \notin {"signal_received", "undefined_error", "wake_failure"}

\* Mutant: the loop's reason is returned as it is.
ReasonAsStatus(reason) == reason

\* The switch of emulate_host on the end of the capture.
StatusOf(reason) ==
    CASE reason = "duplicate_address" -> "duplicate_address"
      [] reason = "signal"            -> "signal_received"
      [] OTHER                        -> "undefined_error"

(* The guards setup_firewall_and_ips creates for one address, in the order *)
(* of the loop's body.                                                     *)
Steps(h) == Len(Ports[h]) + 3

\* Mutant: the DROP rules are inserted before the REJECT rules.
DropFirst(h, i, n) ==
    LET ip == Addresses[h][i]
    IN  CASE n = Steps(h)     -> Temp_ip(ip)
          [] n = Steps(h) - 1 -> Reject_tp(ip, "udp")
          [] n = Steps(h) - 2 -> Reject_tp(ip, "tcp")
          [] OTHER            -> Drop_port(ip, Ports[h][n])

GuardAt(h, i, n) ==
    LET ip == Addresses[h][i]
    IN  CASE n = 1        -> Reject_tp(ip, "tcp")
          [] n = 2        -> Reject_tp(ip, "udp")
          [] n = Steps(h) -> Temp_ip(ip)
          [] OTHER        -> Drop_port(ip, Ports[h][n - 2])

Init ==
    /\ rules = <<>>
    /\ addrs = {}
    /\ signaled = FALSE
    /\ signals = 0
    /\ asked = [h \in Hosts |-> {}]
    /\ alive = TRUE
    /\ pc = [h \in Hosts |-> "head"]
    /\ locks = [h \in Hosts |-> <<>>]
    /\ freed = [h \in Hosts |-> 0]
    /\ atIp = [h \in Hosts |-> 1]
    /\ atStep = [h \in Hosts |-> 1]
    /\ client = [h \in Hosts |-> CHOOSE c \in Clients : TRUE]
    /\ status = [h \in Hosts |-> "none"]
    /\ tries = [h \in Hosts |-> 0]

\* The thread of h is at one of these labels and moves on to another.
At(h, labels) == alive /\ pc[h] \in labels

Goto(h, label) == pc' = [pc EXCEPT ![h] = label]

----------------------------------------------------------------------------
(* signal_handler: whoever runs it, it sets the flag and breaks every      *)
(* capture loop that is registered at that moment.                         *)

signal_handler ==
    /\ signaled' = TRUE
    /\ asked' = [h \in Hosts |-> IF Registered(h) THEN asked[h] \cup {"signal"} ELSE asked[h]]

\* A signal from outside.
Signalled ==
    /\ signals < MaxSignals
    /\ signals' = signals + 1
    /\ signal_handler

\* raise() inside the program.
Raised == signal_handler /\ UNCHANGED signals

(* A spawned command.  Its effect on the kernel, and when it has one: an   *)
(* address that is there cannot be added again, a rule or address that is  *)
(* not there cannot be deleted.                                            *)

Possible(action, r) ==
    IF action = "add" THEN r.cmd = "addr" => r.ip \notin addrs
    ELSE IF r.cmd = "addr" THEN r.ip \in addrs ELSE Places(rules, r) # {}

Effect(action, r) ==
    IF r.cmd = "addr"
    THEN /\ addrs' = IF action = "add" THEN addrs \cup {r.ip} ELSE addrs \ {r.ip}
         /\ UNCHANGED rules
    ELSE /\ rules' = IF action = "add" THEN Insert(rules, r) ELSE DeleteFirst(rules, r)
         /\ UNCHANGED addrs

\* The command did its work, or did not get that far.
MaybeEffect(action, r) ==
    \/ Possible(action, r) /\ Effect(action, r)
    \/ UNCHANGED kernel

\* Mutant: the exit status of the command is not looked at.
TakeActionBlindly(action, r) ==
    \/ Possible(action, r) /\ Effect(action, r) /\ UNCHANGED sig
    \/ ~Possible(action, r) /\ UNCHANGED <<kernel, sig>>

\* take_action sees exit status 0.  wait_until_pid_exits also returns 0 for a
\* command that a signal killed, after raising that signal itself.
TakeAction(action, r) ==
    \/ Possible(action, r) /\ Effect(action, r) /\ UNCHANGED sig
    \/ "kill" \in Faults /\ Signalled /\ MaybeEffect(action, r)

\* take_action throws: the command failed, or waitpid was interrupted (EINTR)
\* while the command went on by itself.
TakeActionThrows(action, r) ==
    \/ (~Possible(action, r) \/ action \in Faults) /\ UNCHANGED <<kernel, sig>>
    \/ "intr" \in Faults /\ Signalled /\ MaybeEffect(action, r)

----------------------------------------------------------------------------
(* thread_main                                                             *)

LoopHead(h) ==
    /\ At(h, {"head"})
    /\ Goto(h, IF signaled \/ ~Looping(h) THEN "done" ELSE "ping")
    /\ UNCHANGED <<kernel, sig, own, alive>>

\* ping_ips: nothing is pinged once signaled, otherwise the host answers or not;
\* a killed ping counts as an answer, and an exception has no handler here.
Ping(h) ==
    /\ At(h, {"ping"})
    /\ \/ signaled /\ Goto(h, "asleep") /\ UNCHANGED <<sig, alive>>
       \/ ~signaled /\ (Goto(h, "awake") \/ Goto(h, "asleep")) /\ UNCHANGED <<sig, alive>>
       \/ ~signaled /\ "kill" \in Faults /\ Signalled /\ Goto(h, "awake") /\ UNCHANGED alive
       \/ ~signaled /\ "ping" \in Faults /\ alive' = FALSE /\ UNCHANGED <<sig, pc>>
       \/ ~signaled /\ "intr" \in Faults /\ Signalled /\ alive' = FALSE /\ UNCHANGED pc
    /\ UNCHANGED <<kernel, own>>

Awake(h) ==
    /\ At(h, {"awake"})
    /\ Goto(h, IF signaled THEN "done" ELSE "ping")
    /\ UNCHANGED <<kernel, sig, own, alive>>

\* Mutant: thread_main does not test is_signaled() after the ping loop.
AsleepUnasked(h) ==
    /\ At(h, {"asleep"})
    /\ Goto(h, "setup")
    /\ atIp' = [atIp EXCEPT ![h] = 1]
    /\ atStep' = [atStep EXCEPT ![h] = 1]
    /\ status' = [status EXCEPT ![h] = "none"]
    /\ UNCHANGED <<locks, freed, client, tries, kernel, sig, alive>>

Asleep(h) ==
    /\ At(h, {"asleep"})
    /\ IF signaled
       THEN Goto(h, "done") /\ UNCHANGED own
       ELSE /\ Goto(h, "setup")
            /\ atIp' = [atIp EXCEPT ![h] = 1]
            /\ atStep' = [atStep EXCEPT ![h] = 1]
            /\ status' = [status EXCEPT ![h] = "none"]
            /\ UNCHANGED <<locks, freed, client, tries>>
    /\ UNCHANGED <<kernel, sig, alive>>

\* The handlers of thread_main end in raise(SIGTERM).
Raise(h) ==
    /\ At(h, {"raise"})
    /\ Raised
    /\ Goto(h, "head")
    /\ UNCHANGED <<kernel, own, alive>>

----------------------------------------------------------------------------
(* emulate_host                                                            *)

Throw(h, label) == Goto(h, label) /\ status' = [status EXCEPT ![h] = "threw"]

\* setup_firewall_and_ips creates one guard.
Setup(h) ==
    /\ At(h, {"setup"})
    /\ LET r == GuardAt(h, atIp[h], atStep[h])
           lastStep == atStep[h] = Steps(h)
       IN  \/ /\ TakeAction("add", r)
              /\ locks' = [locks EXCEPT ![h] = Append(@, r)]
              /\ IF lastStep /\ atIp[h] = Len(Addresses[h])
                 THEN Goto(h, "open") /\ UNCHANGED <<atIp, atStep>>
                 ELSE /\ atStep' = [atStep EXCEPT ![h] = IF lastStep THEN 1 ELSE @ + 1]
                      /\ atIp' = [atIp EXCEPT ![h] = IF lastStep THEN @ + 1 ELSE @]
                      /\ UNCHANGED pc
              /\ UNCHANGED status
           \/ /\ TakeActionThrows("add", r)
              /\ Throw(h, "unwind")
              /\ UNCHANGED <<locks, atIp, atStep>>
    /\ UNCHANGED <<alive, freed, client, tries>>

\* wait_and_listen opens the capture and starts the Wol_watcher.
Open(h) ==
    /\ At(h, {"open"})
    /\ \/ Goto(h, "register") /\ UNCHANGED status
       \/ "pcap" \in Faults /\ Throw(h, "unwind")
    /\ UNCHANGED <<kernel, sig, alive, locks, freed, atIp, atStep, client, tries>>

\* ... registers the capture for the signal handler.
Register(h) ==
    /\ At(h, {"register"})
    /\ Goto(h, "watch")
    /\ UNCHANGED <<kernel, sig, own, alive>>

\* Mutant: loop() forgets the requests made before it starts.
WatchForgets(h) ==
    /\ At(h, {"watch"})
    /\ Goto(h, "capture")
    /\ asked' = [asked EXCEPT ![h] = {}]
    /\ UNCHANGED <<kernel, signaled, signals, own, alive>>

\* ... starts a Duplicate_address_watcher per address and sets the filter.
\* The watcher's constructor reads what a command prints: a signal makes it
\* throw, unless the command was killed after it had printed all.
Watch(h) ==
    /\ At(h, {"watch"})
    /\ \/ Goto(h, "capture") /\ UNCHANGED <<sig, status>>
       \/ "pcap" \in Faults /\ Throw(h, "leave") /\ UNCHANGED sig
       \/ {"kill", "intr"} \cap Faults # {} /\ Signalled /\ Throw(h, "leave")
       \/ "kill" \in Faults /\ Signalled /\ Goto(h, "capture") /\ UNCHANGED status
    /\ UNCHANGED <<kernel, alive, locks, freed, atIp, atStep, client, tries>>

\* ... loop() ends because some break_loop gave it a reason.
Broken(h) ==
    /\ At(h, {"capture"})
    /\ \E reason \in asked[h] : status' = [status EXCEPT ![h] = StatusOf(reason)]
    /\ Goto(h, "leave")
    /\ UNCHANGED <<kernel, sig, alive, locks, freed, atIp, atStep, client, tries>>

\* ... or with a SYN packet.
Captured(h) ==
    /\ At(h, {"capture"})
    /\ \E c \in Clients : client' = [client EXCEPT ![h] = c]
    /\ Goto(h, "leave")
    /\ UNCHANGED <<kernel, sig, alive, locks, freed, atIp, atStep, status, tries>>

\* ... or an exception: PCAP_ERROR, or a packet whose headers were not parsed.
CaptureThrows(h) ==
    /\ At(h, {"capture"})
    /\ "pcap" \in Faults
    /\ Throw(h, "leave")
    /\ UNCHANGED <<kernel, sig, alive, locks, freed, atIp, atStep, client, tries>>

\* Mutant: emulate_host ends early without destroying its guards.
LeaveLocks(h) ==
    /\ At(h, {"leave"})
    /\ asked' = [asked EXCEPT ![h] = {}]
    /\ Goto(h, IF status[h] = "none" THEN "block" ELSE "head")
    /\ UNCHANGED <<kernel, signaled, signals, own, alive>>

\* The guards of wait_and_listen go: watchers joined, capture unregistered.
Leave(h) ==
    /\ At(h, {"leave"})
    /\ asked' = [asked EXCEPT ![h] = {}]
    /\ Goto(h, IF status[h] = "none" THEN "block" ELSE "unwind")
    /\ UNCHANGED <<kernel, signaled, signals, own, alive>>

\* Mutant: a rule that is there already is not added again.
BlockOnce(h) ==
    /\ At(h, {"block"})
    /\ IF Places(rules, Block_icmp(client[h])) # {}
       THEN Goto(h, "release") /\ UNCHANGED <<kernel, sig, status>>
       ELSE TakeAction("add", Block_icmp(client[h])) /\ Goto(h, "release") /\ UNCHANGED status
    /\ UNCHANGED <<alive, locks, freed, atIp, atStep, client, tries>>

Block(h) ==
    /\ At(h, {"block"})
    /\ \/ TakeAction("add", Block_icmp(client[h])) /\ Goto(h, "release") /\ UNCHANGED status
       \/ TakeActionThrows("add", Block_icmp(client[h])) /\ Throw(h, "unwind")
    /\ UNCHANGED <<alive, locks, freed, atIp, atStep, client, tries>>

\* locks.clear(), or the destructor of the vector: the guards go first to
\* last; ~Scope_guard is noexcept, an exception in it ends the process.
Free(h) ==
    /\ At(h, {"release", "unwind"})
    /\ freed[h] < Len(locks[h])
    /\ LET r == locks[h][freed[h] + 1]
       IN  \/ /\ TakeAction("del", r)
              /\ freed' = [freed EXCEPT ![h] = @ + 1]
              /\ UNCHANGED alive
           \/ TakeActionThrows("del", r) /\ alive' = FALSE /\ UNCHANGED freed
    /\ UNCHANGED <<pc, locks, atIp, atStep, client, status, tries>>

\* Mutant: the last guard of the vector is not destroyed.
EmptyLocksEarly(h) ==
    /\ freed[h] + 1 >= Len(locks[h])
    /\ locks' = [locks EXCEPT ![h] = <<>>]
    /\ freed' = [freed EXCEPT ![h] = 0]

EmptyLocks(h) ==
    /\ freed[h] = Len(locks[h])
    /\ locks' = [locks EXCEPT ![h] = <<>>]
    /\ freed' = [freed EXCEPT ![h] = 0]

Released(h) ==
    /\ At(h, {"release"})
    /\ EmptyLocks(h)
    /\ Goto(h, "wol")
    /\ UNCHANGED <<kernel, sig, alive, atIp, atStep, client, status, tries>>

Unwound(h) ==
    /\ At(h, {"unwind"})
    /\ EmptyLocks(h)
    /\ Goto(h, IF status[h] = "threw" THEN "raise" ELSE "head")
    /\ UNCHANGED <<kernel, sig, alive, atIp, atStep, client, status, tries>>

Wol(h) ==
    /\ At(h, {"wol"})
    /\ \/ Goto(h, "wake") /\ tries' = [tries EXCEPT ![h] = PingTries] /\ UNCHANGED status
       \/ "wake" \in Faults /\ Throw(h, "unblock") /\ UNCHANGED tries
    /\ UNCHANGED <<kernel, sig, alive, locks, freed, atIp, atStep, client>>

\* ping_and_wait
Wake(h) ==
    LET Ends(s) == Goto(h, "replay") /\ status' = [status EXCEPT ![h] = s]
        More    == tries[h] > 0 /\ ~signaled
    IN  /\ At(h, {"wake"})
        /\ \/ ~More /\ Ends("wake_failure") /\ UNCHANGED <<sig, tries>>
           \/ More /\ Ends("success") /\ UNCHANGED <<sig, tries>>
           \/ /\ More
              /\ tries' = [tries EXCEPT ![h] = @ - 1]
              /\ UNCHANGED <<sig, pc, status>>
           \/ More /\ "ping" \in Faults /\ Throw(h, "unblock") /\ UNCHANGED <<sig, tries>>
           \/ More /\ "kill" \in Faults /\ Signalled /\ Ends("success") /\ UNCHANGED tries
           \/ More /\ "intr" \in Faults /\ Signalled /\ Throw(h, "unblock") /\ UNCHANGED tries
        /\ UNCHANGED <<kernel, alive, locks, freed, atIp, atStep, client>>

Replay(h) ==
    /\ At(h, {"replay"})
    /\ \/ Goto(h, "unblock") /\ UNCHANGED status
       \/ "wake" \in Faults /\ Throw(h, "unblock")
    /\ UNCHANGED <<kernel, sig, alive, locks, freed, atIp, atStep, client, tries>>

\* The destructor of block_icmp.
Unblock(h) ==
    /\ At(h, {"unblock"})
    /\ \/ /\ TakeAction("del", Block_icmp(client[h]))
          /\ Goto(h, IF status[h] = "threw" THEN "raise" ELSE "head")
          /\ UNCHANGED alive
       \/ TakeActionThrows("del", Block_icmp(client[h])) /\ alive' = FALSE /\ UNCHANGED pc
    /\ UNCHANGED own

----------------------------------------------------------------------------
(* The other actors: a signal from outside, the Wol_watcher of h (from     *)
(* Open on) and its Duplicate_address_watchers (from Watch on).            *)

AllDone == \A h \in Hosts : pc[h] = "done"

Signal ==
    /\ alive /\ ~AllDone
    /\ Signalled
    /\ UNCHANGED <<kernel, own, alive, pc>>

BreakLoop(h, reason) ==
    /\ asked' = [asked EXCEPT ![h] = @ \cup {reason}]
    /\ UNCHANGED <<kernel, signaled, signals, own, alive, pc>>

WolBreak(h) ==
    /\ At(h, {"register", "watch", "capture"})
    /\ BreakLoop(h, "duplicate_address")

\* PCAP_ERROR in the loop of the Wol_watcher, whose thread has no handler, or an
\* exception in the destructor of an IPv6 watcher's guard.
WatcherAborts(h) ==
    /\ At(h, {"register", "watch", "capture", "leave"})
    /\ "abort" \in Faults
    /\ alive' = FALSE
    /\ UNCHANGED <<kernel, sig, own, pc>>

DawBreak(h) ==
    /\ At(h, {"watch", "capture"})
    /\ \/ BreakLoop(h, "duplicate_address")
       \/ "watcher" \in Faults /\ BreakLoop(h, "signal")

----------------------------------------------------------------------------
\* The process is gone: main joined its threads, or std::terminate ran.
Gone == AllDone \/ ~alive

Terminated == Gone /\ UNCHANGED vars

\* The steps a thread takes by itself once it can.
Step(h) ==
    \/ LoopHead(h) \/ Ping(h) \/ Awake(h) \/ Asleep(h) \/ Raise(h)
    \/ Setup(h) \/ Open(h) \/ Register(h) \/ Watch(h) \/ Broken(h) \/ Leave(h)
    \/ Block(h) \/ Free(h) \/ Released(h) \/ Unwound(h)
    \/ Wol(h) \/ Wake(h) \/ Replay(h) \/ Unblock(h)

Environment(h) ==
    WolBreak(h) \/ WatcherAborts(h) \/ DawBreak(h) \/ Captured(h) \/ CaptureThrows(h)

Next ==
    \/ \E h \in Hosts : Step(h) \/ Environment(h)
    \/ Signal
    \/ Terminated

Spec == Init /\ [][Next]_vars

\* Every thread keeps running: no command, ping or join takes for ever.
\* Nothing is assumed of packets, watchers and signals.
FairSpec == Spec /\ \A h \in Hosts : WF_vars(Step(h))

----------------------------------------------------------------------------
(* Properties                                                              *)

\* Type correctness of the variables of watchHost.
TypeOK ==
    /\ rules \in Seq(Rule)
    /\ addrs \in SUBSET IPs
    /\ signaled \in BOOLEAN
    /\ signals \in 0 .. MaxSignals
    /\ asked \in [Hosts -> SUBSET {"duplicate_address", "signal"}]
    /\ alive \in BOOLEAN
    /\ pc \in [Hosts -> Label]
    /\ locks \in [Hosts -> Seq(Resource)]
    /\ freed \in [Hosts -> Nat]
    /\ atIp \in [Hosts -> Nat]
    /\ atStep \in [Hosts -> Nat]
    /\ client \in [Hosts -> Clients]
    /\ status \in [Hosts -> Emulate_host_status \cup {"none", "threw"}]
    /\ tries \in [Hosts -> 0 .. PingTries]

\* The resources held by guards that are alive: slot n > 0 of host h is the
\* n-th element of its vector, slot 0 is block_icmp.
Slot(h, n) == IF n = 0 THEN Block_icmp(client[h]) ELSE locks[h][n]

Armed(h) == ((freed[h] + 1) .. Len(locks[h])) \cup (IF Blocked(h) THEN {0} ELSE {})

Holders(r) == UNION {{<<h, n>> : n \in {m \in Armed(h) : Slot(h, m) = r}} : h \in Hosts}

Installed(r) == IF r.cmd = "addr" THEN (IF r.ip \in addrs THEN 1 ELSE 0) ELSE Copies(rules, r)

\* When the process has ended, by returning from main or by std::terminate,
\* no rule and no address is left behind, whatever failed on the way: the
\* README's "clean all ips and firewall rules it created".
CleanExit == Gone => rules = <<>> /\ addrs = {}

\* Once locks.clear() is over, while the magic packet is sent, the host is
\* pinged and the SYN is replayed, no address and no INPUT rule of the host is
\* left on this machine: it would answer the ping and the SYN itself.
WakeAfterRelease ==
    \A h \in Hosts :
        pc[h] \in {"wol", "wake", "replay", "unblock"} =>
            \A i \in DOMAIN Addresses[h] :
                /\ Addresses[h][i] \notin addrs
                /\ \A k \in DOMAIN rules :
                       rules[k].cmd \in {"reject", "drop"} => rules[k].ip # Addresses[h][i]

\* From the moment the addresses start to go until the host has been pinged
\* and the SYN replayed, destination-unreachable messages to the client are
\* dropped, also when several hosts hand over to the same client and one of
\* them is finished before the other.
HandoverSilenced ==
    alive => \A h \in Hosts :
        pc[h] \in {"release", "wol", "wake", "replay"} =>
            Places(rules, Block_icmp(client[h])) # {}

\* While host h is taken over, every one of its addresses that is on this
\* machine is behind the firewall: connections to the watched ports are
\* dropped silently, all others are rejected.
Shielded(h) ==
    \A i \in DOMAIN Addresses[h] :
        LET d == Addresses[h][i]
        IN  d \in addrs =>
            \A p \in PortNos :
                /\ Verdict(rules, d, "udp", p) = "reject"
                /\ Verdict(rules, d, "tcp", p) =
                       IF \E n \in DOMAIN Ports[h] : Ports[h][n] = p THEN "drop" ELSE "reject"

\* setup_firewall_and_ips puts the rules up before the address, and in an
\* order in which the DROP rules come first: host h is shielded from the first
\* address until the guards are destroyed.
ShieldedUntilRelease ==
    alive => \A h \in Hosts : pc[h] \notin {"release", "unwind"} => Shielded(h)

\* The comment in setup_firewall_and_ips, "setup firewall first, some services
\* might respond", read for the whole time an address is on this machine.
AlwaysShielded == \A h \in Hosts : Shielded(h)

\* As long as no signal has come from outside and the process lives, the
\* kernel holds exactly what the guards hold, copy by copy: neither commands
\* that fail nor hosts that share addresses and clients make the two differ.
KernelFollowsGuards ==
    alive /\ signals = 0 => \A r \in Resource : Installed(r) = Cardinality(Holders(r))

\* A signal ends the thread of h for good, if it comes while h is not setting
\* up, or if the capture loop of h has been asked to stop.
HeardSignalEndsThread ==
    \A h \in Hosts :
        signaled /\ (\/ pc[h] \notin {"setup", "open", "register", "watch", "capture"}
                     \/ asked[h] # {})
            ~> (pc[h] = "done" \/ ~alive)

\* The README: watchHost will "terminate upon SIGTERM and SIGINT gracefully".
SignalTerminates == signaled ~> Gone

\* A capture loop that has been asked to stop is left, whatever the order of
\* the request, the start of the loop and other requests.
AskedLoopEnds ==
    \A h \in Hosts : asked[h] # {} ~> (pc[h] \notin {"register", "watch", "capture"} \/ ~alive)
=============================================================================
