----------------------------- MODULE Listening -----------------------------
(***************************************************************************)
(* wait_and_listen in detail: the thread of one host opens a capture,      *)
(* makes guards that start the Wol_watcher, put the capture into the list  *)
(* `pcaps' and start a Duplicate_address_watcher per address, listens, and *)
(* destroys the guards again.  The threads of the watchers and the signal  *)
(* handler hold references to the capture all the while.                   *)
(*                                                                         *)
(* WatchHost sees the same as a few steps of one thread and watchers that  *)
(* break a capture out of nowhere; ImplementsWatchHost says it may.        *)
(***************************************************************************)
EXTENDS Integers, Sequences, FiniteSets

CONSTANTS
    Addresses,     \* the sequence args.address
    V6,            \* the IPv6 addresses among them
    Signals,       \* signals sent to the process, of those setup_signals handles
    MaxSignals,    \* bound on the signals sent
    HandlerInHost, \* the signal handler runs in the thread of this host, as in
                   \* emulateHost, and not in another one, as in watchHost
    Clients,       \* addresses connections come from
    Faults         \* what may go wrong, with the names of WatchHost

ASSUME ListeningAssumption ==
    /\ Addresses \in Seq(STRING)
    /\ Signals \subseteq {"SIGINT", "SIGTERM"}
    /\ MaxSignals \in Nat
    /\ HandlerInHost \in BOOLEAN
    /\ Clients # {}
    /\ Faults \subseteq {"pcap", "watcher", "abort", "kill", "intr"}

VARIABLES
    pc,        \* where the thread of the host is
    capture,   \* the life of the Pcap_wrapper `pc' of wait_and_listen
    made,      \* how many elements the vector `guards' has
    gone,      \* how many of them are destroyed
    asked,     \* reasons given to the capture before loop() ended
    client,    \* the source address of the captured SYN
    status,    \* how wait_and_listen ended, as emulate_host sees it
    pcaps,     \* the capture is in the list `pcaps'
    mutex,     \* who holds pcaps_mutex
    wol,       \* the thread of the Wol_watcher
    wolAsked,  \* reasons given to the capture of the Wol_watcher
    daw,       \* daw[i]: the thread of the watcher for the i-th address
    loop,      \* loop[i]: its atomic flag
    bipv6ns,   \* watchers whose guard bipv6ns is constructed and not destroyed
    ns,        \* watchers whose Block_ipv6_neighbor_solicitation rule is installed
    hit,       \* hit[t]: what a signal did to the command that thread t waits for
    disturbed, \* watchers an ip6tables command of which was hit (history)
    handler,   \* handler[t, s]: where the handler of signal s in thread t is
    stack,     \* stack[t]: the handlers that run in thread t, the innermost last
    served,    \* handlers that have gone through the list
    alive      \* FALSE after std::terminate

host    == <<pc, made, gone, client, status>>
shared  == <<capture, asked, pcaps, mutex>>
wolVars == <<wol, wolAsked>>
dawVars == <<daw, loop, bipv6ns, ns, hit, disturbed>>
sigVars == <<handler, stack, served>>
vars    == <<host, shared, wolVars, dawVars, sigVars, alive>>

Watchers == DOMAIN Addresses

(* The threads a signal handler may run in: 0 is the thread of the host, i *)
(* the one of the i-th watcher, the last one another thread of the process *)
(* (main of watchHost).                                                    *)
Threads == 0 .. Len(Addresses) + 1

\* The kernel gives a signal to the process to the main thread.
MainThread == IF HandlerInHost THEN 0 ELSE Len(Addresses) + 1

Init ==
    /\ pc = "open" /\ capture = "none" /\ made = 0 /\ gone = 0
    /\ asked = {} /\ client \in Clients /\ status = "none"
    /\ pcaps = FALSE /\ mutex = "free"
    /\ wol = "none" /\ wolAsked = {}
    /\ daw = [i \in Watchers |-> "none"] /\ loop = [i \in Watchers |-> FALSE]
    /\ bipv6ns = {} /\ ns = {} /\ hit = [t \in Threads |-> "no"] /\ disturbed = {}
    /\ handler = [r \in Threads \X Signals |-> "idle"] /\ stack = [t \in Threads |-> <<>>]
    /\ served = 0
    /\ alive = TRUE

\* The thread of the host runs, unless a signal handler runs on top of it.
At(label) == alive /\ pc = label /\ stack[0] = <<>>

\* break_loop on the capture of wait_and_listen.  After loop() has ended it
\* still touches the object and has no other effect.
BreakLoop(reason) ==
    asked' = IF pc \in {"make", "emplace", "filter", "loop"} THEN asked \cup {reason} ELSE asked

----------------------------------------------------------------------------
(* The thread of the host: up to the loop                                  *)

Throw(label) == pc' = label /\ status' = "threw"

Open ==
    /\ At("open")
    /\ \/ pc' = "make" /\ capture' = "open" /\ UNCHANGED status
       \/ "pcap" \in Faults /\ Throw("left") /\ UNCHANGED capture
    /\ UNCHANGED <<made, gone, client, asked, pcaps, mutex, wolVars, dawVars, sigVars, alive>>

\* The first guard opens a capture of its own, filters it and starts the thread.
StartWol ==
    /\ At("make") /\ made = 0
    /\ \/ wol' = "loop" /\ made' = 1 /\ UNCHANGED <<pc, status>>
       \/ "pcap" \in Faults /\ Throw("destroy") /\ UNCHANGED <<made, wol>>
    /\ UNCHANGED <<gone, client, shared, wolAsked, dawVars, sigVars, alive>>

\* The second one is ptr_guard(pcaps, pcaps_mutex, pc).
LockToEmplace ==
    /\ At("make") /\ made = 1
    /\ mutex = "free"
    /\ mutex' = "host" /\ pc' = "emplace"
    /\ UNCHANGED <<made, gone, client, status, capture, asked, pcaps, wolVars, dawVars, sigVars, alive>>

Emplace ==
    /\ At("emplace")
    /\ pcaps' = TRUE /\ mutex' = "free" /\ made' = 2 /\ pc' = "make"
    /\ UNCHANGED <<gone, client, status, capture, asked, wolVars, dawVars, sigVars, alive>>

NextIsDaw == pc = "make" /\ made >= 2 /\ made - 1 \in Watchers

\* The others ask a command for the interface's MAC and start a thread.  A
\* command that was killed has printed all of it or not.
StartDaw ==
    /\ At("make") /\ NextIsDaw
    /\ LET i == made - 1
       IN  \/ /\ hit[0] # "intr"
              /\ loop' = [loop EXCEPT ![i] = TRUE]
              /\ daw' = [daw EXCEPT ![i] = IF Addresses[i] \in V6 THEN "block" ELSE "test"]
              /\ made' = made + 1
              /\ UNCHANGED <<pc, status>>
           \/ /\ "pcap" \in Faults \/ hit[0] # "no"
              /\ Throw("destroy") /\ UNCHANGED <<made, daw, loop>>
    /\ hit' = [hit EXCEPT ![0] = "no"]
    /\ UNCHANGED <<gone, client, shared, wolVars, bipv6ns, ns, disturbed, sigVars, alive>>

AllMade ==
    /\ At("make") /\ made = Len(Addresses) + 2
    /\ pc' = "filter"
    /\ UNCHANGED <<made, gone, client, status, shared, wolVars, dawVars, sigVars, alive>>

SetFilter ==
    /\ At("filter")
    /\ \/ pc' = "loop" /\ UNCHANGED status
       \/ "pcap" \in Faults /\ Throw("destroy")
    /\ UNCHANGED <<made, gone, client, shared, wolVars, dawVars, sigVars, alive>>

----------------------------------------------------------------------------
(* ... the end of the loop, as module CaptureLoop promises it              *)

\* Mutant: every reason but a duplicate address is reported as a signal.
BrokenBySignal ==
    /\ At("loop")
    /\ asked # {}
    /\ status' = "signal_received"
    /\ pc' = "destroy"
    /\ UNCHANGED <<made, gone, client, shared, wolVars, dawVars, sigVars, alive>>

Broken ==
    /\ At("loop")
    /\ \E reason \in asked :
           status' = IF reason = "signal" THEN "signal_received" ELSE "duplicate_address"
    /\ pc' = "destroy"
    /\ UNCHANGED <<made, gone, client, shared, wolVars, dawVars, sigVars, alive>>

\* Mutant: the headers are not tested for nullptr.
CapturedUnparsed ==
    /\ At("loop")
    /\ client' \in Clients \cup {"none"}
    /\ pc' = "destroy"
    /\ UNCHANGED <<made, gone, status, shared, wolVars, dawVars, sigVars, alive>>

\* A SYN, whose headers Catch_incoming_connection can parse or not.
Captured ==
    /\ At("loop")
    /\ \/ client' \in Clients /\ pc' = "destroy" /\ UNCHANGED status
       \/ "pcap" \in Faults /\ Throw("destroy") /\ UNCHANGED client
    /\ UNCHANGED <<made, gone, shared, wolVars, dawVars, sigVars, alive>>

----------------------------------------------------------------------------
(* ... and the destruction of the vector `guards', first to last           *)

\* Mutant: Wol_watcher::stop joins the thread without breaking its loop.
StopWolSilently ==
    /\ At("destroy") /\ gone = 0 /\ made > 0
    /\ pc' = "join"
    /\ UNCHANGED <<made, gone, client, status, shared, wolVars, dawVars, sigVars, alive>>

StopWol ==
    /\ At("destroy") /\ gone = 0 /\ made > 0
    /\ wolAsked' = wolAsked \cup {"unset"}
    /\ pc' = "join"
    /\ UNCHANGED <<made, gone, client, status, shared, wol, dawVars, sigVars, alive>>

LockToErase ==
    /\ At("destroy") /\ gone = 1 /\ made > 1
    /\ mutex = "free"
    /\ mutex' = "host" /\ pc' = "erase"
    /\ UNCHANGED <<made, gone, client, status, capture, asked, pcaps, wolVars, dawVars, sigVars, alive>>

Erase ==
    /\ At("erase")
    /\ pcaps' = FALSE /\ mutex' = "free" /\ gone' = 2 /\ pc' = "destroy"
    /\ UNCHANGED <<made, client, status, capture, asked, wolVars, dawVars, sigVars, alive>>

\* Duplicate_address_watcher::stop_watcher
StopDaw ==
    /\ At("destroy") /\ gone >= 2 /\ gone < made
    /\ loop' = [loop EXCEPT ![gone - 1] = FALSE]
    /\ pc' = "join"
    /\ UNCHANGED <<made, gone, client, status, shared, wolVars, daw, bipv6ns, ns, hit, disturbed, sigVars, alive>>

\* Mutant: the thread is let go instead of joined.
Detach ==
    /\ At("join")
    /\ gone' = gone + 1 /\ pc' = "destroy"
    /\ UNCHANGED <<made, client, status, shared, wolVars, dawVars, sigVars, alive>>

Join ==
    /\ At("join")
    /\ IF gone = 0 THEN wol = "exited" ELSE daw[gone - 1] = "exited"
    /\ gone' = gone + 1 /\ pc' = "destroy"
    /\ UNCHANGED <<made, client, status, shared, wolVars, dawVars, sigVars, alive>>

\* `pc' was declared before `guards' and is destroyed after it.
Close ==
    /\ At("destroy") /\ gone = made
    /\ capture' = "closed" /\ pc' = "left"
    /\ UNCHANGED <<made, gone, client, status, asked, pcaps, mutex, wolVars, dawVars, sigVars, alive>>

----------------------------------------------------------------------------
(* wol_watcher_thread_main                                                 *)

\* A magic packet for this host breaks the Wol_watcher's own capture.
MagicPacket ==
    /\ alive /\ wol = "loop"
    /\ wolAsked' = wolAsked \cup {"duplicate_address"}
    /\ UNCHANGED <<host, shared, wol, dawVars, sigVars, alive>>

WolLoopEnds ==
    /\ alive /\ wol = "loop"
    /\ \E reason \in wolAsked :
           wol' = IF reason = "duplicate_address" THEN "break" ELSE "exited"
    /\ UNCHANGED <<host, shared, wolAsked, dawVars, sigVars, alive>>

WolBreaks ==
    /\ alive /\ wol = "break"
    /\ BreakLoop("duplicate_address")
    /\ wol' = "exited"
    /\ UNCHANGED <<host, capture, pcaps, mutex, wolAsked, dawVars, sigVars, alive>>

\* PCAP_ERROR: loop() throws and nothing catches the exception.
WolThrows ==
    /\ alive /\ wol = "loop"
    /\ "abort" \in Faults
    /\ alive' = FALSE
    /\ UNCHANGED <<host, shared, wolVars, dawVars, sigVars>>

----------------------------------------------------------------------------
(* daw_thread_main_ipv6 around daw_thread_main_non_root                    *)

DawAt(i, label) == alive /\ daw[i] = label /\ stack[i] = <<>>

DawGoto(i, label) == daw' = [daw EXCEPT ![i] = label]

\* Where the thread goes after its loop: through the guard bipv6ns, if it has one.
DawEnd(i) == IF i \in bipv6ns THEN "unblock" ELSE "exited"

\* What a probe says.  IPv4: the exit status of arping, 0 if it was killed;
\* IPv6: the MACs ndisc6 prints, whatever its exit status.
Reply(i) ==
    IF Addresses[i] \in V6 THEN SUBSET {"own", "other"}
    ELSE IF hit[i] = "kill" THEN {0} ELSE {0, 1, 2}

Occupied(i, reply) ==
    IF Addresses[i] \in V6 THEN \E mac \in reply : mac # "own" ELSE reply = 1

\* take_action for the rule of watcher i sees exit status 0; `rules' are those
\* the command leaves if it does its work.  A killed command has done it or not.
TakeAction(i, possible, rules) ==
    \/ hit[i] = "no" /\ possible /\ ns' = rules
    \/ hit[i] = "kill" /\ ns' \in {ns, rules}

\* take_action throws: the command failed, or the wait for it was interrupted
\* while it went on by itself.
TakeActionThrows(i, fails, rules) ==
    \/ hit[i] = "no" /\ fails /\ UNCHANGED ns
    \/ hit[i] = "intr" /\ ns' \in {ns, rules}

\* spawn has returned or thrown: the next command is not hit yet.
Spawned(i) == hit' = [hit EXCEPT ![i] = "no"]

\* The constructor of bipv6ns; its exception ends the watcher.
DawBlock(i) ==
    /\ DawAt(i, "block")
    /\ \/ /\ TakeAction(i, TRUE, ns \cup {i})
          /\ bipv6ns' = bipv6ns \cup {i}
          /\ DawGoto(i, "test") /\ UNCHANGED loop
       \/ /\ TakeActionThrows(i, "watcher" \in Faults, ns \cup {i})
          /\ loop' = [loop EXCEPT ![i] = FALSE]
          /\ DawGoto(i, "signal") /\ UNCHANGED bipv6ns
    /\ Spawned(i)
    /\ UNCHANGED <<host, shared, wolVars, disturbed, sigVars, alive>>

\* Mutant: a watcher that is stopped leaves without destroying bipv6ns.
DawTestLeaves(i) ==
    /\ DawAt(i, "test")
    /\ DawGoto(i, IF loop[i] THEN "probe" ELSE "exited")
    /\ UNCHANGED <<host, shared, wolVars, loop, bipv6ns, ns, hit, disturbed, sigVars, alive>>

DawTest(i) ==
    /\ DawAt(i, "test")
    /\ DawGoto(i, IF loop[i] THEN "probe" ELSE DawEnd(i))
    /\ UNCHANGED <<host, shared, wolVars, loop, bipv6ns, ns, hit, disturbed, sigVars, alive>>

\* is_ip_occupied, and the sleep after it.
DawProbe(i) ==
    /\ DawAt(i, "probe")
    /\ \/ /\ hit[i] # "intr"
          /\ \E reply \in Reply(i) :
                 IF Occupied(i, reply)
                 THEN loop' = [loop EXCEPT ![i] = FALSE] /\ DawGoto(i, "duplicate_address")
                 ELSE DawGoto(i, "test") /\ UNCHANGED loop
       \/ /\ "watcher" \in Faults \/ hit[i] = "intr"
          /\ loop' = [loop EXCEPT ![i] = FALSE]
          /\ DawGoto(i, "signal")
    /\ Spawned(i)
    /\ UNCHANGED <<host, shared, wolVars, bipv6ns, ns, disturbed, sigVars, alive>>

\* The break_loop after a duplicate address, and the one in the handlers.
DawBreak(i) ==
    /\ \E reason \in {"duplicate_address", "signal"} :
           DawAt(i, reason) /\ BreakLoop(reason)
    /\ DawGoto(i, DawEnd(i))
    /\ UNCHANGED <<host, capture, pcaps, mutex, wolVars, loop, bipv6ns, ns, hit, disturbed, sigVars, alive>>

\* The destructor of bipv6ns; it may not throw.  A rule that is not there
\* cannot be deleted.
DawUnblock(i) ==
    /\ DawAt(i, "unblock")
    /\ \/ /\ TakeAction(i, i \in ns, ns \ {i})
          /\ bipv6ns' = bipv6ns \ {i}
          /\ DawGoto(i, "exited") /\ UNCHANGED alive
       \/ /\ TakeActionThrows(i, i \notin ns \/ "abort" \in Faults, ns \ {i})
          /\ alive' = FALSE /\ UNCHANGED <<daw, bipv6ns>>
    /\ Spawned(i)
    /\ UNCHANGED <<host, shared, wolVars, loop, disturbed, sigVars>>

----------------------------------------------------------------------------
(* signal_handler.  sa_mask is empty: while the handler of one signal runs *)
(* in a thread only that signal is blocked there, another one is handled   *)
(* on top of it.                                                           *)

Active == {r \in Threads \X Signals : handler[r] # "idle"}

\* Thread t starts to handle a signal.
Handle(t, s) ==
    /\ alive /\ pc # "left" /\ handler[<<t, s>>] = "idle"
    /\ served + Cardinality(Active) < MaxSignals
    /\ handler' = [handler EXCEPT ![<<t, s>>] = "lock"]
    /\ stack' = [stack EXCEPT ![t] = Append(@, s)]
    /\ UNCHANGED <<host, shared, wolVars, served, alive>>

Deliver(s) == Handle(MainThread, s) /\ UNCHANGED dawVars

\* Thread t waits for a command in wait_until_pid_exits.
Waits(t) == IF t = 0 THEN NextIsDaw ELSE t \in Watchers /\ daw[t] \in {"block", "probe", "unblock"}

\* ... which the signal kills, so that the thread raises the signal for itself,
\* or the thread is interrupted in waitpid by its own handler of the signal.
Hit(t, s) ==
    /\ Waits(t) /\ stack[t] = <<>> /\ hit[t] = "no"
    /\ \E fault \in {"kill", "intr"} \cap Faults : hit' = [hit EXCEPT ![t] = fault]
    /\ disturbed' = IF t # 0 /\ daw[t] # "probe" THEN disturbed \cup {t} ELSE disturbed
    /\ Handle(t, s)
    /\ UNCHANGED <<daw, loop, bipv6ns, ns>>

HandlerAt(t, s, label) ==
    alive /\ stack[t] # <<>> /\ stack[t][Len(stack[t])] = s /\ handler[<<t, s>>] = label

HandlerLock(t, s) ==
    /\ HandlerAt(t, s, "lock")
    /\ mutex = "free"
    /\ mutex' = "handler"
    /\ handler' = [handler EXCEPT ![<<t, s>>] = "iterate"]
    /\ UNCHANGED <<host, capture, asked, pcaps, wolVars, dawVars, stack, served, alive>>

HandlerReturn(t, s) ==
    /\ mutex' = "free"
    /\ handler' = [handler EXCEPT ![<<t, s>>] = "idle"]
    /\ stack' = [stack EXCEPT ![t] = SubSeq(@, 1, Len(@) - 1)]

\* The list has this capture or not; the break of a capture and the end of
\* the list are steps of their own.
HandlerIterate(t, s) ==
    /\ HandlerAt(t, s, "iterate")
    /\ IF pcaps
       THEN /\ handler' = [handler EXCEPT ![<<t, s>>] = "call"]
            /\ UNCHANGED <<mutex, stack, served>>
       ELSE HandlerReturn(t, s) /\ served' = served + 1
    /\ UNCHANGED <<host, capture, asked, pcaps, wolVars, dawVars, alive>>


HandlerCall(t, s) ==
    /\ HandlerAt(t, s, "call")
    /\ BreakLoop("signal")
    /\ HandlerReturn(t, s) /\ served' = served + 1
    /\ UNCHANGED <<host, capture, pcaps, wolVars, dawVars, alive>>

----------------------------------------------------------------------------
Terminated ==
    /\ ~alive \/ (pc = "left" /\ Active = {})
    /\ UNCHANGED vars

HostStep ==
    \/ Open \/ StartWol \/ LockToEmplace \/ Emplace \/ StartDaw \/ AllMade \/ SetFilter
    \/ Broken \/ StopWol \/ LockToErase \/ Erase \/ StopDaw \/ Join \/ Close

WolStep == WolLoopEnds \/ WolBreaks

DawStep(i) == DawBlock(i) \/ DawTest(i) \/ DawProbe(i) \/ DawBreak(i) \/ DawUnblock(i)

HandlerStep(t) ==
    \E s \in Signals : HandlerLock(t, s) \/ HandlerIterate(t, s) \/ HandlerCall(t, s)

Next ==
    \/ HostStep \/ Captured
    \/ WolStep \/ MagicPacket \/ WolThrows
    \/ \E i \in Watchers : DawStep(i)
    \/ \E s \in Signals : Deliver(s) \/ \E t \in Threads : Hit(t, s)
    \/ \E t \in Threads : HandlerStep(t)
    \/ Terminated

Spec == Init /\ [][Next]_vars

ThreadStep(t) ==
    \/ HandlerStep(t)
    \/ t = 0 /\ HostStep
    \/ t \in Watchers /\ DawStep(t)

\* Every thread runs when it can, be it a handler on top of it, and every
\* command ends.  Packets and signals need not come.
FairSpec == Spec /\ WF_vars(WolStep) /\ \A t \in Threads : WF_vars(ThreadStep(t))

----------------------------------------------------------------------------
(* Properties                                                              *)

DawRunning(i) == daw[i] \notin {"none", "exited"}

\* Type correctness of wait_and_listen, its watchers and the signal handler; a
\* captured packet always has a source address.
TypeOK ==
    /\ pc \in {"open", "make", "emplace", "filter", "loop", "destroy", "join", "erase", "left"}
    /\ capture \in {"none", "open", "closed"}
    /\ made \in 0 .. Len(Addresses) + 2
    /\ gone \in 0 .. made
    /\ asked \subseteq {"duplicate_address", "signal"}
    /\ client \in Clients
    /\ status \in {"none", "threw", "signal_received", "duplicate_address"}
    /\ pcaps \in BOOLEAN
    /\ mutex \in {"free", "host", "handler"}
    /\ wol \in {"none", "loop", "break", "exited"}
    /\ wolAsked \subseteq {"duplicate_address", "unset"}
    /\ daw \in [Watchers -> {"none", "block", "test", "probe", "duplicate_address", "signal",
                             "unblock", "exited"}]
    /\ loop \in [Watchers -> BOOLEAN]
    /\ bipv6ns \subseteq Watchers /\ ns \subseteq Watchers /\ disturbed \subseteq Watchers
    /\ hit \in [Threads -> {"no", "kill", "intr"}]
    /\ handler \in [Threads \X Signals -> {"idle", "lock", "iterate", "call"}]
    /\ stack \in [Threads -> Seq(Signals)]
    /\ served \in Nat
    /\ alive \in BOOLEAN

\* Whoever holds a reference to the capture of wait_and_listen and may use it
\* (a watcher's thread that has not ended, the list `pcaps', a signal handler
\* on its way to break_loop) finds it constructed and not yet destroyed, also
\* when wait_and_listen is left through an exception.
CaptureOutlivesUsers ==
    alive /\ (\/ wol \in {"loop", "break"}
              \/ \E i \in Watchers : DawRunning(i)
              \/ pcaps
              \/ \E r \in Threads \X Signals : handler[r] = "call") => capture = "open"

\* When wait_and_listen is left, by a result or by an exception, a watcher has
\* left its ip6tables rule behind only if a signal killed or interrupted the
\* very command that added or deleted it: not because of signals that come at
\* any other time, not because of another watcher, and wherever its loop was.
NoRuleLeft == alive /\ pc = "left" => ns \subseteq disturbed

\* Signal handlers come to their end: whenever some run, in whichever threads,
\* there comes a time at which none does (signals are bounded and do not follow
\* each other for ever).  None waits for the mutex for ever.
HandlerReturns == Active # {} ~> (Active = {} \/ ~alive)

\* wait_and_listen returns once its capture has been broken: the loop ends and
\* every thread it joins comes to its end.
AskedReturns == asked # {} ~> (pc = "left" \/ ~alive)

\* Where watchHost's thread is, in the coarser steps of WatchHost.
WatchLabel ==
    CASE pc = "open" \/ (pc = "make" /\ made = 0)            -> "open"
      [] pc \in {"make", "emplace"} /\ made = 1              -> "register"
      [] pc \in {"make", "filter"} /\ made > 1               -> "watch"
      [] pc = "loop"                                         -> "capture"
      [] pc \in {"destroy", "join", "erase"} /\ made > 0     -> "leave"
      [] pc = "left" /\ status = "none"                      -> "block"
      [] \/ pc = "left" /\ status # "none"
         \/ pc = "destroy" /\ made = 0                       -> "unwind"

\* ... and the reasons it has there: Leave forgets them.
Heard == IF pc = "left" THEN {} ELSE asked

\* What a signal does to a command of the watchers is a failure of it there.
SeenFaults ==
    Faults \cup (IF {"kill", "intr"} \cap Faults = {} THEN {} ELSE {"pcap", "watcher", "abort"})

One(v) == [x \in {"host"} |-> v]

W == INSTANCE WatchHost WITH
    IPs <- Clients, PortNos <- {}, Hosts <- {"host"}, Addresses <- One(Addresses),
    Ports <- One(<<>>), PingTries <- 0, Faults <- SeenFaults,
    rules <- <<>>, addrs <- {}, signaled <- served > 0, signals <- served,
    asked <- One(Heard), pc <- One(WatchLabel),
    locks <- One(<<>>), freed <- One(0), atIp <- One(1), atStep <- One(1),
    client <- One(client), status <- One(status), tries <- One(0)

\* Every step of wait_and_listen, its watchers and the signal handler is a step
\* of WatchHost or invisible to it.  A signal takes effect there when its
\* handler breaks the capture, or finds that it is not in the list.
ImplementsWatchHost == [][W!Next]_(W!vars)
=============================================================================
