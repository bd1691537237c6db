# A TLA+ verification of sleep-proxy

sleep-proxy keeps a sleeping host reachable: while the host sleeps, watchHost
puts the host's addresses on this machine, shields them with firewall rules and
waits for a TCP SYN to one of the watched ports; then it takes everything down
again, wakes the host with a magic packet and replays the SYN.

All paths below are relative to the repository's root.

## 1. Inventory

| Component | State | Operations | Interacts with | What makes it correct |
|---|---|---|---|---|
| watchHost, `src/watchHost.cpp` | one thread per host, its flag `loop` | `thread_main`, `ping_ips`, `main` | calls `emulate_host`; raises SIGTERM when it throws | a signal ends all threads; an error in one host leaves the system clean |
| emulate_host, wait_and_listen, `src/sleep-proxy/libsleep_proxy.cpp` | the vector `locks`, the guard `block_icmp`; the globals `signaled`, `pcaps`, `pcaps_mutex` | `setup_firewall_and_ips`, `wait_and_listen`, `ping_and_wait`, `replay_data`, `signal_handler` | spawns commands through guards; owns a capture and its watchers; broken by the signal handler | firewall before address; nothing left behind; hand-over without error messages to the client |
| Scope_guard, `src/sleep-proxy/scope_guard.cpp`, `src/include/scope_guard.h` | `freed`, the functor | constructor, destructor, `free`, `take_action` | `spawn`; the kernel's tables | what was acquired is released exactly once |
| Pcap_wrapper, `src/sleep-proxy/pcap_wrapper.cpp` | `pc`, `loop_thread`, `loop_end_reason` | `loop`, `break_loop`, `set_filter`, `inject` | a thread in `pcap_loop`; `break_loop` from other threads, callbacks and signal handlers | a break ends the loop; the reason is genuine |
| Wol_watcher, `src/sleep-proxy/wol_watcher.cpp` | a capture and a thread | start, `stop`, `break_on_magic_packet` | breaks its own capture, then the main one | breaks the main capture when somebody else wakes the host |
| Duplicate_address_watcher, `src/sleep-proxy/duplicate_address_watcher.cpp` | `loop`, a thread per address, the IPv6 guard | start, `stop_watcher`, `is_ip_occupied` | spawns arping or ndisc6, breaks the main capture | breaks the capture when the host is back |
| spawn, `src/sleep-proxy/spawn_process.cpp`, `file_descriptor.cpp` | pipes, a pid | `spawn_wrapper`, `wait_until_pid_exits`, `read` | waits for a child; raises the signal that killed it | the exit status tells what the command did |
| Args, int_utils, ip_address | - | parsing | - | accepts what is documented, rejects the rest |
| packet_parser, ethernet, ip, wol | - | parsing and building packets | used by the capture's callback and by the replay | a captured SYN is understood and replayed unchanged |
| emulateHost, `src/emulateHost.cpp` | - | one `emulate_host` call in the main thread | the signal handler runs in the thread that emulates | a signal ends it |
| log, to_string, socket, waker, sniffer | - | output, thin wrappers | - | not behaviour of interest |

The hard behaviours are: a signal that arrives anywhere; breaks of a capture
that race its start, its end and each other; commands that fail, are killed or
are waited for with an interrupted waitpid; several hosts that share the
kernel's tables, a client or an address; destructors that may not throw.  The
list `hazards` in PROJECT.json names them line by line.

## 2. Modules

| Module | Models |
|---|---|
| `Network` | the four resources a guard holds, iptables `-I`/`-D`, and what netfilter does with a packet. External, from how `scope_guard.cpp` uses it |
| `CaptureLoop` | abstract: what one call of `Pcap_wrapper::loop` promises |
| `PcapWrapper` | `loop` and `break_loop` statement by statement, libpcap and pthreads as far as they are used |
| `WatchHost` | `thread_main`, `emulate_host`, `wait_and_listen`, the guards, the signal handler, the watchers as actors that break a capture |
| `Listening` | `wait_and_listen` statement by statement with its guards, the threads of Wol_watcher and of every Duplicate_address_watcher, `pcaps_mutex` and the signal handlers; shown to implement `WatchHost` |
| `SpawnProcess` | `get_self_pipes`, `spawn_wrapper`, `wait_until_pid_exits`, `File_descriptor::read` and destructors over the process's descriptor table |
| `IntUtils`, `IpAddress`, `Args` | `str_to_integral`, `parse_ip` and printing of addresses, `read_commandline` and `read_file` line by line |
| `PacketParser`, `MagicPacket`, `NeighborRule` | link layer, VLAN and IP headers, the replayed frame; magic packets; the u32 rule of `Block_ipv6_neighbor_solicitation` |
| `MCPcapWrapper`, `MCWatchHost`, `MCListening`, `MCSpawnProcess`, `MCParsing` | small instances for TLC |
| `NetworkProofs`, `PcapWrapperProofs`, `WatchHostProofs`, `SpawnProcessProofs` | theorems and proofs about the module of the name |
| `ListeningProofs` | the same, and that `Listening` implements `WatchHost` |
| `PacketProofs`, `ParsingProofs` | the packets, and the numbers, addresses and files of `MCParsing` |
| `ShieldProofs` | the order of the firewall rules in `WatchHost` |

How they fit together: `PcapWrapper` implements `CaptureLoop`; `WatchHost` and
`Listening` use a capture as `CaptureLoop` promises it; `Listening` implements
the steps of `WatchHost` from the opening of the capture to the end of
`wait_and_listen`.  The parsers are operators with their reference definitions
beside them; `Args` is a state machine, as options and lines are read in order.

**PcapWrapper.**  A step is what happens between two points where another
thread can come in; the critical sections under `loop_end_reson_mutex` are
single steps.  `loop_thread = std::thread{...}` is two steps, as the new thread
runs before its handle is stored; `join()` is two steps, as `pthread_join`
returns before the handle is cleared.  A cancelled thread ends in `poll` or in
the callback and never writes `ret_val`.  pthread_cancel of a joined thread is
undefined: the model chooses whether it crashes.

**WatchHost.**  `pc[h]` is where the thread of host h is, one label per
statement that spawns a command, blocks or changes shared state.  The vector
of guards is the sequence `locks[h]`, `freed[h]` counts the elements that are
destroyed already; `block_icmp` exists while `pc[h]` is in the scope `Blocked`.
A spawned command is one step with two kinds of outcome: `TakeAction` (exit
status 0) and `TakeActionThrows`.  An exception in a destructor, in `ping_ips` or
in the thread of the Wol_watcher (fault "abort") ends the process (`alive = FALSE`).  The capture
of h is replaced by the promise of `CaptureLoop`: `asked[h]` holds the reasons
given so far, and the capture ends with one of them (`Broken`), with a packet
(`Captured`) or with an exception (`CaptureThrows`).  The theorem `Refinement`
of `PcapWrapperProofs` is what justifies this.

**Listening.**  The vector `guards` is the pair `made`, `gone`: how many elements
were constructed and how many are destroyed.  The first is the Wol_watcher, the
second the entry in the list `pcaps`, the others the Duplicate_address_watchers;
they are destroyed in that order, each waiting for its thread or for the mutex.
`daw[i]` and `wol` are where the other threads are.  A signal handler runs on top
of the thread t it interrupted: `handler[<<t, s>>]` is where it is, `stack[t]` holds
the handlers that run in t, and only the innermost takes steps.  A signal to the
process goes to the main thread (`Deliver`): with `HandlerInHost` that is the one of
the host (emulateHost), otherwise another (watchHost's main).  A signal of a kind
whose handler runs in a thread is blocked there, one of the other kind is not,
as `setup_signals` leaves `sa_mask` empty.

While a thread waits for a command in `wait_until_pid_exits` (`Waits`), a signal can
hit it (`Hit`, faults "kill" and "intr"): it kills the command, and the thread then
raises the same signal for itself, or the thread handles the signal and waitpid
returns EINTR.  `hit[t]` remembers this until `spawn` has returned or thrown.  The
killed command counts as a success whether it did its work or not; after an
interrupted wait `take_action` throws, and the command does its work or not.  So
every ip6tables command of a watcher has four outcomes, in `DawBlock` and in
`DawUnblock`: done, failed, killed, abandoned.  The guard (`bipv6ns`) and the rule
(`ns`) are separate, as they may differ after such a command; `disturbed` is a history
of the watchers whose own ip6tables command was hit.  Two watchers of one host
never have the same address, as a second `ip addr add` of it fails before
wait_and_listen, so their rules are different.

`ImplementsWatchHost` maps the labels to the coarser ones of WatchHost; there, a
signal takes effect when its handler breaks the capture or finds none.  WatchHost
knows the watchers' commands by their failures only: a hit one is, with
`SeenFaults`, a failing set-up, watcher or destructor.

**SpawnProcess.**  Descriptor numbers are shared by the threads: `table[f]` says
whose pipe f is an end of.  The tuple of `get_self_pipes` is moved and its locals
dropped in steps of their own (`temp`, `pair`).  The command writes while there is
room in the pipe; `spawn_wrapper` waits for its end before anybody reads, so a
command that prints more than the pipe holds waits for ever.  No command of the
program prints that much; the run allows it and says what holds otherwise.

**Parsing.**  A text is a sequence of characters (numbers) or of words and
delimiters (addresses), a line of a file is a sequence of words, a packet is a
sequence of bytes.  An exception is a value (`Threw`, `Exception`).  A read beyond
the end of a buffer may give any byte.  `strtoull` accumulates digits from the left;
what a number denotes is defined apart from it, as the sum of the digits times the
powers of ten of their places (`Denotes`).  `split` cuts at the bounds of the pieces in
their order; the library's inet_pton and inet_ntop are functions of words, of which
`WordsAssumption` asks that a printed address is read as the same one.  What a file
means (`MeantBy`) is defined on the whole file, by counting host lines, and not by
reading it line by line as `Args` does.

What can go wrong outside the program is the constant `Faults`, described in the
modules; a run or a theorem says which faults it admits.

Each `Mutant` in the modules is a plausible slip in the definition that follows
it.  None is part of a specification; PROJECT.json pairs each with the property
that notices it.

## 3. Runs

| Run | Expected | Checks | Instance |
|---|---|---|---|
| `pcap` | pass | `TypeOK`, `EndReasonIsGenuine`, `KeepsPromise`, `BreakEndsLoop` | signal handler, a watcher and a break from the callback, loops for one packet and for ever |
| `watch` | pass | `TypeOK`, `CleanExit`, `WakeAfterRelease`, `HandoverSilenced`, `ShieldedUntilRelease` | two hosts, own addresses, a shared client, two signals, faults add, pcap, wake, watcher |
| `watch_live` | pass | `HeardSignalEndsThread`, `AskedLoopEnds` | two hosts, two signals, fault pcap, fair threads |
| `watch_faults` | pass | `KernelFollowsGuards` | two hosts with the same address and client, one signal, all faults |
| `listening` | pass | `TypeOK`, `CaptureOutlivesUsers`, `NoRuleLeft`, `ImplementsWatchHost`, `HandlerReturns`, `AskedReturns` | an IPv4 and an IPv6 address, two signals of one kind, faults pcap, watcher, abort, kill, intr, fair threads |
| `spawn` | pass | `TypeOK`, `OneOwner`, `OutputIsOwn`, `SpawnEnds` | two threads, two calls each, four descriptors, a pipe of two bytes, up to three bytes of output, all faults |
| `parsing` | pass | `NumbersExact`, `AddressesExact`, `ConfigUnderstood`, `PacketsUnderstood`, `ReplaysFaithful`, `MagicPacketsForUs`, `SolicitationsForUs` | see below |
| `pcap_stale` | violation | `BreakIsSafe` | one break |
| `watch_deaf` | violation | `SignalTerminates` | one host, no fault |
| `watch_killed` | violation | `CleanExit` | one host, fault kill |
| `watch_exposed` | violation | `AlwaysShielded` | one host, no fault |
| `listening_nested` | violation | `HandlerReturns` | one address, SIGINT and SIGTERM, no fault |

**What the violations show.**

* `pcap_stale`: break_loop sees a joinable thread, loop() joins it, and then
  break_loop cancels the joined thread.  The signal handler does this.
* `watch_deaf`: a signal that comes after `thread_main` tested `is_signaled()` and
  before the capture is in `pcaps` is recorded in the flag and not looked at
  again; the thread then listens until a packet comes.  What does hold is
  `HeardSignalEndsThread`: at every other moment the signal ends the thread.
* `watch_killed`: Ctrl-C also kills the iptables command that is running.
  `wait_until_pid_exits` returns 0 for it, so the guard believes it holds a rule;
  deleting that rule fails in a destructor, and the process terminates with its
  addresses and rules in place.
* `watch_exposed`: the guards of an address are destroyed in the order they were
  created, the rules before the address.  What does hold is
  `ShieldedUntilRelease`: from the first address until the destruction starts.
* `listening_nested`: the handler of SIGTERM interrupts the handler of SIGINT
  while that one holds `pcaps_mutex`, and waits for it for ever.  With signals
  of one kind only, `listening` shows that every handler returns.  In
  emulateHost (`HandlerInHost = TRUE`) one signal is enough: it may interrupt
  the construction or the destruction of the guard that holds the mutex.

**Bounds.**  Two hosts are enough for two holders of one rule, for two
hand-overs at a time and for a host that fails while the other is in any phase.
One address with one port gives every kind of guard and every order between
them; the loops over addresses and ports are covered for any length by the
proofs.  Two signals (one in `watch_faults` and in the violations) allow a second one
that finds a capture registered since the first.  `PingTries` is 1 (a
ping answered, a ping not answered, no ping left), in `watch_live` 0, as the
pings add nothing to its properties.  `MaxSignals` and `PingTries` are the only
bounds.  In `pcap` the calls are one per kind of caller.

In `listening` one address of each family gives both kinds of watcher and two of
them at a time; the proofs cover any number.  Two signals are enough for one
that hits the command that adds a rule and one that hits its deletion, and for
handlers in two threads that want the mutex at the same time.  In `spawn` two threads are
enough for a number closed by one and reused by the other; the outputs 0 to 3
against a capacity of 2 lie on both sides of the limit, and with a `Chunk` of 1 a
read takes several turns.

`parsing` takes, one by one: all texts of up to three characters out of digits,
`-`, a hexadecimal and another letter, with the numbers around 65535, `UINT_MAX`
and `ULLONG_MAX` (these two scaled to 99999 and 999999, as TLC's integers have 32
bits; uint8_t and uint16_t are exact); all address texts of up to three
tokens, and those with two delimiters; files of up to four lines under seven
command lines; packets of both link types and both IP versions, with and without
VLAN tag and IP options, and all their prefixes; magic packets for MACs that
overlap with the six bytes before them, at three positions; rules and targets
that differ in one byte at each place.  `NoDigits` is what the C library returns
for a text without digits; the run takes glibc's 0.  The words of all numbers up to
129 are spelled out (`Characters`), so that every subnet can be printed.
`ReplaysFaithful` is about untagged packets: the frame of a tagged one keeps the
tag in its payload.  A line "hostname x" starts a new section, as every
line that begins with "host" does; `ConfigUnderstood` says what is read and not
that it should be so.

`BreakWakesPoll` is TRUE in all runs: libpcap 1.10 wakes a `pcap_loop` that waits
in poll.  With an older libpcap a break between the start of the thread and the
assignment of its handle relies on a packet or pcap's read timeout.

**Fairness.**  `FairSpec` of PcapWrapper lets every thread that is able to go on do
so, and assumes nothing of packets, errors and calls.  `FairSpec` of WatchHost is
weak fairness of each thread's own steps: the operating system schedules the
threads, and each command, ping and join ends.  Packets, watchers and signals
need not come.  `FairSpec` of Listening asks the same of every thread (or of the
handler that runs on top of it), and that every command of a watcher ends.
`FairSpec` of SpawnProcess asks it of the threads and of commands that can go
on.  `spawn` may stop (CHECK_DEADLOCK FALSE): every thread that waits for a
command with more output than its pipe holds stays there; so may
`listening_nested`, whose deadlock is the finding.

## 4. Proofs

| Theorem | States |
|---|---|
| `PcapWrapperProofs!TypeCorrect`, `GenuineEnd`, `Refinement` | `Spec => []TypeOK`, `Spec => []EndReasonIsGenuine`, `Spec => KeepsPromise`, for any set of break_loop calls and reasons |
| `WatchHostProofs!TypeCorrect` | `Spec => []TypeOK`, all faults |
| `WatchHostProofs!KernelAgrees` | `Spec => []KernelFollowsGuards`, all faults |
| `WatchHostProofs!NeverAborts` | `Spec => []alive` with the faults of `Benign` excluded |
| `WatchHostProofs!LeavesNothing` | `Spec => []CleanExit` with the faults of `Benign` excluded |
| `WatchHostProofs!WakesReleased` | `Spec => []WakeAfterRelease` with the faults of `Benign` excluded, if no address is configured for two hosts (`Disjoint`) |
| `WatchHostProofs!StaysSilent` | `Spec => []HandoverSilenced` if no signal disturbs a command |
| `ShieldProofs!StaysShielded` | `Spec => []ShieldedUntilRelease` if no signal disturbs a command and no address is configured twice, for two hosts (`Disjoint`) or for one (`Distinct`) |
| `ListeningProofs!TypeCorrect`, `OutlivesUsers`, `LeavesNoRule` | `Spec => []TypeOK`, `Spec => []CaptureOutlivesUsers`, `Spec => []NoRuleLeft`, all faults (also killed and interrupted commands), nested handlers included |
| `ListeningProofs!Implements` | `Spec => ImplementsWatchHost`, the same |
| `SpawnProcessProofs!TypeCorrect`, `DescriptorsOwned`, `ReadsOwnOutput` | `Spec => []TypeOK`, `Spec => []OneOwner`, `Spec => []OutputIsOwn`, all faults |
| `ParsingProofs!ConfigIsUnderstood` | `Spec => []ConfigUnderstood` (Spec of Args), for any command lines and files |
| `ParsingProofs!NumbersAreExact` | `NumbersExact` for any text and any type that strtoull can hold |
| `ParsingProofs!AddressesAreExact` | `AddressesExact` for any text of words and separators |
| `PacketProofs!PacketsAreUnderstood`, `PacketsAreReplayed` | `PacketsUnderstood` and `ReplaysFaithful` for any packet with the fixed part of an IP header, at least, behind any link layer header |
| `PacketProofs!MagicPacketsAreForUs` | `MagicPacketsForUs` for all MACs whose first byte is not 0xff and headers of up to 96 bytes |
| `PacketProofs!SolicitationsAreForUs` | `SolicitationsForUs` for any two IPv6 addresses |

Those of WatchHost hold for any finite set of hosts, any non-empty lists of addresses, any
lists of ports and any clients, also shared ones (`HostsAssumption`), those of
Listening for any list of addresses and with the handlers in any thread
(`ListeningAssumption`), those of PcapWrapper under `BreakersAssumption`, those of
SpawnProcess for any threads, descriptors, pipes and read buffers
(`SpawnAssumption`; `None` is the mark of a free descriptor and so no thread), those
about files under `InputsAssumption` (files are lines, lines are words; "h" and "s" are
the options and not files), those about numbers and addresses under `NumbersAssumption`
(strtoull holds a uint8_t, a text without digits is 0 or an exception) and
`WordsAssumption` (inet_ntop and to_string print what is read back; no word is a
separator).

*PcapWrapper.*  `IInv` adds to the types what ties `ret_val` to the packets and
breaks that produced it: "captured" was written after a packet, "broken" and
"unwritten" after the end of the thread need a break_loop call that has given
its reason already, because the reason is stored before the flag and before the
cancellation.  Without this, `EndReasonIsGenuine` is not inductive.

*WatchHost.*  The types need the bounds `Cursor` (the loops of
setup_firewall_and_ips stay inside their lists) and `Vector` (the vector of
guards is empty outside the take-over and destroyed front to back).  The centre
is the `Ledger`: as long as the process lives and no signal has disturbed a
command, for every resource the number of copies in the kernel is the number of
guards that hold it.  Three lemmas describe how a step may treat the guards:
`BalancedKept`, `BalancedAdd` and `BalancedDel`; they rest on the lemmas of
`NetworkProofs` about the copies after `Insert` and `DeleteFirst`.  From the ledger
it follows that a guard finds what it deletes (`HeldIsInstalled`), hence that no
destructor throws (`NeverAborts`), and that with all threads at their end, and so
no guard left, the tables are empty (`LeavesNothing`).  `WakesReleased` adds the
invariant `OwnGuards`: the vector of a host holds resources of its own addresses
only; so with its vector empty, whatever is installed for them would be held by
another host, which `Disjoint` excludes.

`Benign` excludes: a delete command that fails although the resource is there, a
ping that cannot be spawned, a failing capture of the Wol_watcher, and a signal
that kills the running command or interrupts its waitpid.  Each of these can
leave rules behind; for the killed command `watch_killed` shows it.

*Listening.*  `IInv` has four parts beside the types.  `Progress` ties the place of
the host's thread to the vector of guards and to the life of the capture.
`ThreadsInGuards` says that a thread runs only between the construction and the
destruction of its own guard: the destructor joins.  `RulesInGuards` says that bipv6ns
exists only while its thread runs, and that the rule is installed exactly while it
exists, unless an ip6tables command of this watcher was hit.
`Exclusion` says what `pcaps_mutex` protects: while a handler is about to call
break_loop no one changes the list, so its entry is still there.  A guard not
yet destroyed means a capture not yet closed, hence `CaptureOutlivesUsers`; a
thread that has ended means no bipv6ns, and so no rule but a disturbed one, hence
`NoRuleLeft`.  A disturbed rule can really stay: TLC refutes the property
without its exception.  Neither is inductive
without the other parts.

*Shield.*  `ShieldedUntilRelease` is about what netfilter does with a packet, hence
about the order of the rules in one chain that all hosts use.  `Guarded` adds to the
ledger: the vector of a host holds exactly the guards that
setup_firewall_and_ips has made so far (`Filled`), and in the chain no REJECT rule of
an address stands before a DROP rule of it (`Ordered`).  `-I` keeps this order
because the REJECT rules of an address are made first, when it has no DROP rules yet;
`-D` keeps it whatever it deletes (`DropsFirstInsert`, `DropsFirstDelete`).  With the
ledger, a rule whose guard is in the vector is in the chain, and the first one that
matches is the right one (`VerdictIs`).  `Disjoint` and `Distinct` are needed: where an
address is configured twice, the second set-up puts its REJECT rule before the
DROP rules of the first, and the SYNs that should wake the host are rejected.  Killed or abandoned commands are excluded, as the ledger is wrong after them.

*Refinement of WatchHost.*  The labels of Listening are mapped to those of WatchHost
(`WatchLabel`), the guards that are made or destroyed to nothing that WatchHost
sees.  What makes each step one of WatchHost or a stutter is `RInv`: the capture is
in the list exactly from its guard on, so a handler that finds the list empty does
what WatchHost's Signal does to a host that is not registered (`Listed`); an exception
leaves the status that WatchHost's Throw needs (`Thrown`); a watcher reports the
reason `signal` only after an exception of its own, and handlers are not more than
signals (`Sober`).  Each action has its lemma (`Sim...`).  The refinement is one of
safety: what WatchHost is proved to do with captures that end out of nowhere holds
with the threads that end them.

*SpawnProcess.*  `IInv` says at each place of a thread which of its two holders, the
locals of get_self_pipes or the tuple of the caller, has the ends of the pipe
(`Descriptors`); that the table of the process says the same of every number
(`Owned`), so a number is free if and only if no one will close it; and that a
running command is waited for, writes into the pipe of its own thread, and that what
it wrote is in the pipe or has been read (`Output`).  `OutputIsOwn` follows as read()
ends with an empty pipe and no command can write any more.

*Packets.*  The run checks samples; the theorems are about any value of `sample` that
is a packet (`IsIp`, `IsLink`), a MAC, an address of the right length.  The lemmas go
from the bytes up: what a concatenation, a part and a rest of a sequence hold, what
one parser makes of a header with anything behind it, and what all of them make of a
packet and of each of its beginnings.  A beginning is enough when it has the fixed part of
the IP header, 20 bytes of IPv4 or 40 of IPv6: `parse_ipv4` takes the header length from
the first byte and does not test that the options are there, so a packet cut inside
them is a connection like the whole one (`IpBegun`).  For magic packets the point is that the pattern
is searched at all offsets: six bytes in a row of it, behind its beginning,
have a first byte of the MAC among them (`FirstByteInWindow`), which is not 0xff, so a
match cannot begin before the six bytes 0xff of the payload.  With 0xff as the first byte (a multicast
address, which no network card has) this fails: a packet for the same bytes in
rotated order behind a 0xff is taken as one's own.

*Parsing.*  Texts and files have any length, so these proofs need induction.  The
library's induction theorems take a predicate, which the provers cannot
instantiate; `Induction` says the same of a set of numbers, from the library's
theorem that the order of the naturals is well-founded (`Least`).  The recursive
functions of IntUtils are of one kind, each value a multiple of the one before plus a
summand; `Computable` shows that such a function exists and `ComputedType` what its values
are.

*Numbers.*  `LeftToRight` is the induction: after k of n digits, what strtoull has
accumulated, times the power of ten of the n - k digits to come, is the sum of the
first k places.  At k = n the two ways to read a number agree; what is left is
the order of the tests in `stoull_with_checks` and `str_to_integral`.

*Addresses.*  `SplitNone`, `SplitOne` and `SplitFirst` say what `split` makes of a text with
no delimiter, with one, and where its first piece ends.  So, of a text that passes
the tests of parse_ip, the part before "%" has at most two pieces, the second a
single word (`PartsOf`), and get_subnet gives a number within the limit
(`SubnetInRange`).  What with_subnet prints has two pieces again, the number is
read back by `NumbersAreExact`'s lemma, the address by `WordsAssumption` (`PrintedIs`).

*Files.*  `ConfigInv` says what has been read at each point: before the first host no
line counts (`Skips`); in a section, `ret_val` holds the hosts before it as the whole file
means them, and `section` what the lines of this host so far say (`Collects`).  A line
is added to what it says by `SaidStep`, which needs that a line behind all others
keeps their ranks and comes last in its list (`NthKept`, `NthAdded`); the next host line
closes the section because the rank of all lines behind it is greater (`BodyStep`).
Between files (`Answered`) the result is that of the last file read, and all files read
are valid.

Only model-checked: the liveness properties (fairness and ENABLED are beyond the
prover).

## 5. Not modelled, and the plan

Written so far, in this order: `Network`, `CaptureLoop`, `PcapWrapper` (the capture
and its promise); `WatchHost` and its ledger; `Listening` (watchers, IPv6 guard,
mutex and signal handlers); `SpawnProcess`; the parsers.

All invariants and action properties of the passing runs are proved.  What is left is the
refinement of WatchHost's take_action by SpawnProcess, which today are tied together
by their outcomes only.

Left out, and why:

* emulateHost's `main` is one call of `emulate_host` in a try block; what is
  special about it, the handler in the host's own thread, is a case of `Listening`.
* The text of BPF filters and of commands: their meaning is that of tcpdump and
  iptables.  The exception is the u32 rule, which the program computes.
* The signed variant of `str_to_integral`: the program does not use it.
* The difference between `len` and `caplen` of a captured packet: captures are
  opened with a snapshot length of 65000 bytes, beyond any SYN.
* A command that dies of a signal the program does not handle: the program raises
  the same signal and is gone (fault "die" of SpawnProcess).
* Sockets, the tools waker and sniffer: straight-line code around system calls.
* Log texts, the Python prototype and the packaging.

## 6. How to run

    tlc -config watch.cfg MCWatchHost
    tlc -config listening.cfg MCListening
    tlc -config spawn.cfg MCSpawnProcess
    tlc -config parsing.cfg MCParsing
    tlapm WatchHostProofs.tla

The proofs of a module are checked by calling tlapm with its own file.
