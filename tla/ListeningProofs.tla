-------------------------- MODULE ListeningProofs --------------------------
(***************************************************************************)
(* Proofs about Listening, for any addresses, signals and faults, with the *)
(* signal handler in any thread: the capture outlives everyone who uses    *)
(* it, the watchers leave no rule behind, and wait_and_listen, its         *)
(* watchers and the signal handler do what WatchHost says of them: every   *)
(* step is one of WatchHost's or changes nothing that WatchHost sees.      *)
(***************************************************************************)
EXTENDS Listening, FiniteSetTheorems, TLAPS

\* The type invariant in three parts: the host with what it shares, the threads
\* of the watchers, the signal handlers.
HostType ==
    /\ pc \in {"open", "make", "emplace", "filter", "loop", "destroy", "join", "erase", "left"}
    /\ capture \in {"none", "open", "closed"}
    /\ made \in 0 .. Len(Addresses) + 2
    /\ gone \in 0 .. made
    /\ asked \subseteq {"duplicate_address", "signal"}
    /\ client \in Clients
    /\ status \in {"none", "threw", "signal_received", "duplicate_address"}
    /\ pcaps \in BOOLEAN
    /\ mutex \in {"free", "host", "handler"}
    /\ wol \in {"none", "loop", "break", "exited"}
    /\ wolAsked \subseteq {"duplicate_address", "unset"}
    /\ alive \in BOOLEAN

DawType ==
    /\ daw \in [Watchers -> {"none", "block", "test", "probe", "duplicate_address", "signal",
                             "unblock", "exited"}]
    /\ loop \in [Watchers -> BOOLEAN]
    /\ bipv6ns \subseteq Watchers /\ ns \subseteq Watchers /\ disturbed \subseteq Watchers
    /\ hit \in [Threads -> {"no", "kill", "intr"}]

SigType ==
    /\ handler \in [Threads \X Signals -> {"idle", "lock", "iterate", "call"}]
    /\ stack \in [Threads -> Seq(Signals)]
    /\ served \in Nat

\* The members of the vector `guards' and where the thread of the host is.
Progress ==
    /\ capture = "open" <=> pc \notin {"open", "left"}
    /\ pc = "open" => made = 0
    /\ pc \in {"open", "make", "emplace", "filter", "loop"} => gone = 0
    /\ pc = "emplace" => made = 1
    /\ pc = "erase" => gone = 1 /\ made >= 2
    /\ pc = "join" => gone < made /\ gone # 1
    /\ pc = "left" => gone = made

\* A thread runs only between the construction and the destruction of its
\* guard.
ThreadsInGuards ==
    /\ wol \in {"loop", "break"} => made >= 1 /\ gone = 0
    /\ \A i \in Watchers : DawRunning(i) => i + 2 <= made /\ gone < i + 2

\* bipv6ns lives only while its thread runs, and the rule is installed exactly
\* while it lives, as long as no signal hits the command of either.
RulesInGuards ==
    /\ \A i \in bipv6ns : DawRunning(i) /\ daw[i] # "block"
    /\ \A i \in Watchers : daw[i] = "unblock" => i \in bipv6ns
    /\ \A i \in Watchers : i \notin disturbed => (i \in ns <=> i \in bipv6ns)
    /\ \A i \in Watchers : hit[i] # "no" =>
           daw[i] = "probe" \/ (daw[i] \in {"block", "unblock"} /\ i \in disturbed)

Runs == Threads \X Signals

InSection(r) == handler[r] \in {"iterate", "call"}

\* pcaps_mutex protects the list against its changes by the host.
Exclusion ==
    /\ pc \in {"emplace", "erase"} => mutex = "host"
    /\ \A r \in Runs : InSection(r) => mutex = "handler"
    /\ \A r, q \in Runs : InSection(r) /\ InSection(q) => r = q
    /\ \A r \in Runs : handler[r] = "call" => pcaps
    /\ pcaps => made >= 2 /\ gone < 2

IInv == TypeOK /\ Progress /\ ThreadsInGuards /\ RulesInGuards /\ Exclusion

----------------------------------------------------------------------------
\* The number of addresses, and how the watchers are numbered.
LEMMA Numbering ==
    /\ Len(Addresses) \in Nat
    /\ Watchers = 1 .. Len(Addresses)
    /\ Watchers \subseteq Threads /\ 0 \in Threads /\ 0 \notin Watchers
    /\ MainThread \in Threads
BY ListeningAssumption DEF Watchers, Threads, MainThread

LEMMA InitInv == Init => IInv
<1> SUFFICES ASSUME Init PROVE IInv
    OBVIOUS
<1>1. pcaps \in BOOLEAN /\ alive \in BOOLEAN
  BY Zenon DEF Init
<1>2. loop \in [Watchers -> BOOLEAN]
  BY Zenon DEF Init
<1>3. TypeOK
  BY <1>1, <1>2, Numbering, ListeningAssumption DEF Init, TypeOK
<1>4. Progress /\ Exclusion
  BY DEF Init, Progress, Exclusion, InSection, Runs
<1>5. ThreadsInGuards /\ RulesInGuards
  BY Numbering DEF Init, ThreadsInGuards, RulesInGuards, DawRunning
<1> QED BY <1>3, <1>4, <1>5 DEF IInv

\* The thread of the host keeps the invariant, action by action.
LEMMA HostInv == IInv /\ (HostStep \/ Captured) => IInv'
<1> SUFFICES ASSUME IInv, HostStep \/ Captured PROVE IInv'
    OBVIOUS
<1> USE Numbering, ListeningAssumption
<1> USE DEF IInv, At, Throw, host, shared, wolVars, dawVars, sigVars
<1>t. HostType /\ DawType /\ SigType
  BY DEF TypeOK, HostType, DawType, SigType
<1>s. SigType'
  <2>1. UNCHANGED <<handler, stack, served>>
    BY DEF HostStep, Open, StartWol, LockToEmplace, Emplace, StartDaw, AllMade, SetFilter, Broken,
           Captured, StopWol, LockToErase, Erase, StopDaw, Join, Close
  <2> QED BY <1>t, <2>1 DEF SigType
<1>d. ASSUME HostType', DawType' PROVE TypeOK'
  BY <1>s, <1>d DEF TypeOK, HostType, DawType, SigType
<1>0. RulesInGuards'
  <2>1. CASE StartDaw
    <3>1. made - 1 \in Watchers /\ daw[made - 1] \in {"none", "exited"}
      BY <2>1 DEF StartDaw, NextIsDaw, TypeOK, ThreadsInGuards, DawRunning
    <3>2. /\ UNCHANGED <<bipv6ns, ns, disturbed>>
          /\ hit' \in [Threads -> {"no", "kill", "intr"}]
          /\ \A i \in Watchers : hit'[i] = hit[i]
      BY <1>t, <2>1 DEF StartDaw, DawType
    <3>3. \A i \in Watchers :
              daw'[i] = daw[i] \/ (i = made - 1 /\ daw'[i] \in {"block", "test"})
      <4>1. \/ daw' = [daw EXCEPT ![made - 1] = IF Addresses[made - 1] \in V6 THEN "block" ELSE "test"]
            \/ daw' = daw
        BY <2>1 DEF StartDaw
      <4> QED BY <1>t, <4>1 DEF DawType
    <3>4. made - 1 \notin bipv6ns /\ hit[made - 1] = "no"
      BY <3>1 DEF RulesInGuards, DawRunning
    <3>5. RulesInGuards /\ bipv6ns \subseteq Watchers
      BY <1>t DEF DawType
    <3>6. \A i \in bipv6ns' : DawRunning(i)' /\ daw'[i] # "block"
      BY <3>2, <3>3, <3>4, <3>5 DEF RulesInGuards, DawRunning
    <3>7. \A i \in Watchers : daw'[i] = "unblock" => i \in bipv6ns'
      BY <3>2, <3>3, <3>5 DEF RulesInGuards
    <3>8. \A i \in Watchers : i \notin disturbed' => (i \in ns' <=> i \in bipv6ns')
      BY <3>2, <3>5 DEF RulesInGuards
    <3>9. \A i \in Watchers : hit'[i] # "no" =>
              daw'[i] = "probe" \/ (daw'[i] \in {"block", "unblock"} /\ i \in disturbed')
      BY <3>2, <3>3, <3>4, <3>5 DEF RulesInGuards
    <3> QED BY <3>6, <3>7, <3>8, <3>9 DEF RulesInGuards
  <2>2. UNCHANGED <<daw, bipv6ns, ns, hit, disturbed>> \/ StartDaw
    BY DEF HostStep, Open, StartWol, LockToEmplace, Emplace, AllMade, SetFilter, Broken, Captured,
           StopWol, LockToErase, Erase, StopDaw, Join, Close
  <2>3. CASE UNCHANGED <<daw, bipv6ns, ns, hit, disturbed>>
    BY <2>3 DEF RulesInGuards, DawRunning
  <2> QED BY <2>1, <2>2, <2>3
<1>1. CASE Open
  <2>1. TypeOK' BY <1>1 DEF Open, TypeOK
  <2>2. Progress' BY <1>1 DEF Open, TypeOK, Progress
  <2>3. ThreadsInGuards' BY <1>1 DEF Open, ThreadsInGuards, DawRunning
  <2>4. Exclusion' BY <1>1 DEF Open, Exclusion, InSection
  <2> QED BY <1>0, <2>1, <2>2, <2>3, <2>4
<1>2. CASE StartWol
  <2>1. TypeOK'
    <3>1. DawType' BY <1>t, <1>2 DEF StartWol, DawType
    <3>2. HostType' BY <1>t, <1>2 DEF StartWol, HostType
    <3> QED BY <1>d, <3>1, <3>2
  <2>2. Progress' BY <1>2 DEF StartWol, TypeOK, Progress
  <2>3. ThreadsInGuards'
    <3>1. wol' \in {"loop", "break"} => made' >= 1 /\ gone' = 0
      BY <1>2 DEF StartWol, TypeOK, Progress, ThreadsInGuards
    <3>2. ASSUME NEW i \in Watchers, DawRunning(i)' PROVE i + 2 <= made' /\ gone' < i + 2
      <4>1. DawRunning(i) BY <1>2, <3>2 DEF StartWol, DawRunning
      <4> QED BY <1>2, <4>1 DEF StartWol, TypeOK, ThreadsInGuards
    <3> QED BY <3>1, <3>2 DEF ThreadsInGuards
  <2>4. Exclusion' BY <1>2 DEF StartWol, TypeOK, Exclusion, InSection
  <2> QED BY <1>0, <2>1, <2>2, <2>3, <2>4
<1>3. CASE LockToEmplace
  <2>1. TypeOK' BY <1>3 DEF LockToEmplace, TypeOK
  <2>2. Progress' BY <1>3 DEF LockToEmplace, TypeOK, Progress
  <2>3. ThreadsInGuards' BY <1>3 DEF LockToEmplace, ThreadsInGuards, DawRunning
  <2>4. Exclusion' BY <1>3 DEF LockToEmplace, Exclusion, InSection
  <2> QED BY <1>0, <2>1, <2>2, <2>3, <2>4
<1>4. CASE Emplace
  <2>0. pcaps' \in BOOLEAN BY <1>4, Zenon DEF Emplace
  <2>1. TypeOK'
    <3>1. DawType' BY <1>t, <1>4 DEF Emplace, DawType
    <3>2. HostType' BY <1>t, <1>4, <2>0 DEF Emplace, HostType, Progress
    <3> QED BY <1>d, <3>1, <3>2
  <2>2. Progress' BY <1>4 DEF Emplace, TypeOK, Progress
  <2>3. ThreadsInGuards'
    <3>1. wol' \in {"loop", "break"} => made' >= 1 /\ gone' = 0
      BY <1>4 DEF Emplace, Progress, ThreadsInGuards
    <3>2. ASSUME NEW i \in Watchers, DawRunning(i)' PROVE i + 2 <= made' /\ gone' < i + 2
      <4>1. DawRunning(i) BY <1>4, <3>2 DEF Emplace, DawRunning
      <4> QED BY <1>4, <4>1 DEF Emplace, TypeOK, Progress, ThreadsInGuards
    <3> QED BY <3>1, <3>2 DEF ThreadsInGuards
  <2>4. Exclusion' BY <1>4 DEF Emplace, TypeOK, Progress, Exclusion, InSection
  <2> QED BY <1>0, <2>1, <2>2, <2>3, <2>4
<1>5. CASE StartDaw
  <2>1. TypeOK'
    <3>0. loop' \in [Watchers -> BOOLEAN]
      BY <1>t, <1>5, Zenon DEF StartDaw, DawType
    <3>1. DawType' BY <1>t, <1>5, <3>0 DEF StartDaw, DawType
    <3>2. made' \in 0 .. Len(Addresses) + 2 /\ gone' \in 0 .. made'
      BY <1>t, <1>5 DEF StartDaw, NextIsDaw, HostType
    <3>3. HostType' BY <1>t, <1>5, <3>2 DEF StartDaw, HostType
    <3> QED BY <1>d, <3>1, <3>3
  <2>2. Progress' BY <1>5 DEF StartDaw, NextIsDaw, TypeOK, Progress
  <2>3. ThreadsInGuards'
    <3>1. wol' \in {"loop", "break"} => made' >= 1 /\ gone' = 0
      BY <1>5 DEF StartDaw, NextIsDaw, TypeOK, ThreadsInGuards
    <3>2. ASSUME NEW i \in Watchers, DawRunning(i)' PROVE i + 2 <= made' /\ gone' < i + 2
      <4>1. CASE i = made - 1 /\ made' = made + 1
        BY <1>5, <4>1 DEF StartDaw, NextIsDaw, TypeOK, Progress
      <4>2. CASE ~(i = made - 1 /\ made' = made + 1)
        <5>1. DawRunning(i) BY <1>5, <3>2, <4>2 DEF StartDaw, TypeOK, DawRunning
        <5> QED BY <1>5, <5>1 DEF StartDaw, TypeOK, ThreadsInGuards
      <4> QED BY <4>1, <4>2
    <3> QED BY <3>1, <3>2 DEF ThreadsInGuards
  <2>4. Exclusion'
    <3>1. /\ UNCHANGED <<handler, mutex, pcaps, gone>> /\ (made' = made \/ made' = made + 1)
          /\ made \in Nat /\ pc = "make" /\ pc' \in {"make", "destroy"}
      BY <1>t, <1>5 DEF StartDaw, NextIsDaw, HostType
    <3> QED BY <3>1 DEF Exclusion, InSection
  <2> QED BY <1>0, <2>1, <2>2, <2>3, <2>4
<1>6. CASE AllMade
  <2>1. TypeOK' BY <1>6 DEF AllMade, TypeOK
  <2>2. Progress' BY <1>6 DEF AllMade, TypeOK, Progress
  <2>3. ThreadsInGuards' BY <1>6 DEF AllMade, ThreadsInGuards, DawRunning
  <2>4. Exclusion' BY <1>6 DEF AllMade, Exclusion, InSection
  <2> QED BY <1>0, <2>1, <2>2, <2>3, <2>4
<1>7. CASE SetFilter
  <2>1. TypeOK' BY <1>7 DEF SetFilter, TypeOK
  <2>2. Progress' BY <1>7 DEF SetFilter, TypeOK, Progress
  <2>3. ThreadsInGuards' BY <1>7 DEF SetFilter, ThreadsInGuards, DawRunning
  <2>4. Exclusion' BY <1>7 DEF SetFilter, Exclusion, InSection
  <2> QED BY <1>0, <2>1, <2>2, <2>3, <2>4
<1>8. CASE Broken
  <2>1. TypeOK' BY <1>8 DEF Broken, TypeOK
  <2>2. Progress' BY <1>8 DEF Broken, TypeOK, Progress
  <2>3. ThreadsInGuards' BY <1>8 DEF Broken, ThreadsInGuards, DawRunning
  <2>4. Exclusion' BY <1>8 DEF Broken, Exclusion, InSection
  <2> QED BY <1>0, <2>1, <2>2, <2>3, <2>4
<1>9. CASE Captured
  <2>1. TypeOK' BY <1>9 DEF Captured, TypeOK
  <2>2. Progress' BY <1>9 DEF Captured, TypeOK, Progress
  <2>3. ThreadsInGuards' BY <1>9 DEF Captured, ThreadsInGuards, DawRunning
  <2>4. Exclusion' BY <1>9 DEF Captured, Exclusion, InSection
  <2> QED BY <1>0, <2>1, <2>2, <2>3, <2>4
<1>10. CASE StopWol
  <2>1. TypeOK' BY <1>10 DEF StopWol, TypeOK
  <2>2. Progress' BY <1>10 DEF StopWol, TypeOK, Progress
  <2>3. ThreadsInGuards' BY <1>10 DEF StopWol, ThreadsInGuards, DawRunning
  <2>4. Exclusion' BY <1>10 DEF StopWol, Exclusion, InSection
  <2> QED BY <1>0, <2>1, <2>2, <2>3, <2>4
<1>11. CASE LockToErase
  <2>1. TypeOK' BY <1>11 DEF LockToErase, TypeOK
  <2>2. Progress' BY <1>11 DEF LockToErase, TypeOK, Progress
  <2>3. ThreadsInGuards' BY <1>11 DEF LockToErase, ThreadsInGuards, DawRunning
  <2>4. Exclusion' BY <1>11 DEF LockToErase, Exclusion, InSection
  <2> QED BY <1>0, <2>1, <2>2, <2>3, <2>4
<1>12. CASE Erase
  <2>0. pcaps' \in BOOLEAN BY <1>12, Zenon DEF Erase
  <2>1. TypeOK'
    <3>1. DawType' BY <1>t, <1>12 DEF Erase, DawType
    <3>2. HostType' BY <1>t, <1>12, <2>0 DEF Erase, HostType, Progress
    <3> QED BY <1>d, <3>1, <3>2
  <2>2. Progress' BY <1>12 DEF Erase, TypeOK, Progress
  <2>3. ThreadsInGuards' BY <1>12 DEF Erase, TypeOK, Progress, ThreadsInGuards, DawRunning
  <2>4. Exclusion' BY <1>12 DEF Erase, TypeOK, Progress, Exclusion, InSection
  <2> QED BY <1>0, <2>1, <2>2, <2>3, <2>4
<1>13. CASE StopDaw
  <2>1. TypeOK' BY <1>13 DEF StopDaw, TypeOK
  <2>2. Progress' BY <1>13 DEF StopDaw, TypeOK, Progress
  <2>3. ThreadsInGuards' BY <1>13 DEF StopDaw, ThreadsInGuards, DawRunning
  <2>4. Exclusion' BY <1>13 DEF StopDaw, Exclusion, InSection
  <2> QED BY <1>0, <2>1, <2>2, <2>3, <2>4
<1>14. CASE Join
  <2>1. TypeOK'
    <3>1. DawType' BY <1>t, <1>14 DEF Join, DawType
    <3>2. HostType' BY <1>t, <1>14 DEF Join, HostType, Progress
    <3> QED BY <1>d, <3>1, <3>2
  <2>2. Progress' BY <1>14 DEF Join, TypeOK, Progress
  <2>3. ThreadsInGuards'
    <3>1. wol' \in {"loop", "break"} => made' >= 1 /\ gone' = 0
      BY <1>14 DEF Join, TypeOK, Progress, ThreadsInGuards
    <3>2. ASSUME NEW i \in Watchers, DawRunning(i)' PROVE i + 2 <= made' /\ gone' < i + 2
      <4>1. DawRunning(i) BY <1>14, <3>2 DEF Join, DawRunning
      <4>2. i + 2 <= made /\ gone < i + 2 BY <4>1 DEF ThreadsInGuards
      <4>3. gone # 0 => i # gone - 1 BY <1>14, <4>1 DEF Join, DawRunning
      <4> QED BY <1>14, <4>2, <4>3 DEF Join, TypeOK
    <3> QED BY <3>1, <3>2 DEF ThreadsInGuards
  <2>4. Exclusion' BY <1>14 DEF Join, TypeOK, Progress, Exclusion, InSection
  <2> QED BY <1>0, <2>1, <2>2, <2>3, <2>4
<1>15. CASE Close
  <2>1. TypeOK' BY <1>15 DEF Close, TypeOK
  <2>2. Progress' BY <1>15 DEF Close, TypeOK, Progress
  <2>3. ThreadsInGuards' BY <1>15 DEF Close, ThreadsInGuards, DawRunning
  <2>4. Exclusion' BY <1>15 DEF Close, Exclusion, InSection
  <2> QED BY <1>0, <2>1, <2>2, <2>3, <2>4
<1> QED BY <1>1, <1>2, <1>3, <1>4, <1>5, <1>6, <1>7, <1>8, <1>9, <1>10, <1>11, <1>12, <1>13,
           <1>14, <1>15 DEF HostStep

\* The thread of the Wol_watcher, and its exceptions.
LEMMA WolInv == IInv /\ (WolStep \/ MagicPacket \/ WolThrows) => IInv'
<1> SUFFICES ASSUME IInv, WolStep \/ MagicPacket \/ WolThrows PROVE IInv'
    OBVIOUS
<1> USE Numbering, ListeningAssumption
<1> USE DEF IInv, host, shared, wolVars, dawVars, sigVars
<1>0. RulesInGuards'
  <2>1. UNCHANGED <<daw, bipv6ns, ns, hit, disturbed>>
    BY DEF WolStep, WolLoopEnds, WolBreaks, MagicPacket, WolThrows
  <2> QED BY <2>1 DEF RulesInGuards, DawRunning
<1>1. CASE WolLoopEnds
  <2>1. TypeOK' BY <1>1 DEF WolLoopEnds, TypeOK
  <2>2. Progress' BY <1>1 DEF WolLoopEnds, Progress
  <2>3. ThreadsInGuards' BY <1>1 DEF WolLoopEnds, ThreadsInGuards, DawRunning
  <2>4. Exclusion' BY <1>1 DEF WolLoopEnds, Exclusion, InSection
  <2> QED BY <1>0, <2>1, <2>2, <2>3, <2>4
<1>2. CASE WolBreaks
  <2>1. TypeOK' BY <1>2 DEF WolBreaks, BreakLoop, TypeOK
  <2>2. Progress' BY <1>2 DEF WolBreaks, Progress
  <2>3. ThreadsInGuards' BY <1>2 DEF WolBreaks, ThreadsInGuards, DawRunning
  <2>4. Exclusion' BY <1>2 DEF WolBreaks, Exclusion, InSection
  <2> QED BY <1>0, <2>1, <2>2, <2>3, <2>4
<1>3. CASE MagicPacket
  <2>1. TypeOK' BY <1>3 DEF MagicPacket, TypeOK
  <2>2. Progress' BY <1>3 DEF MagicPacket, Progress
  <2>3. ThreadsInGuards' BY <1>3 DEF MagicPacket, ThreadsInGuards, DawRunning
  <2>4. Exclusion' BY <1>3 DEF MagicPacket, Exclusion, InSection
  <2> QED BY <1>0, <2>1, <2>2, <2>3, <2>4
<1>4. CASE WolThrows
  <2>0. alive' \in BOOLEAN BY <1>4, Zenon DEF WolThrows
  <2>1. TypeOK' BY <1>4, <2>0 DEF WolThrows, TypeOK
  <2>2. Progress' BY <1>4 DEF WolThrows, Progress
  <2>3. ThreadsInGuards' BY <1>4 DEF WolThrows, ThreadsInGuards, DawRunning
  <2>4. Exclusion' BY <1>4 DEF WolThrows, Exclusion, InSection
  <2> QED BY <1>0, <2>1, <2>2, <2>3, <2>4
<1> QED BY <1>1, <1>2, <1>3, <1>4 DEF WolStep

\* A step of a watcher's thread goes to a label that only a running thread has,
\* or ends it; what it may do to the flag, to the guard and to the rule.
LEMMA DawInv == ASSUME IInv, NEW i \in Watchers, DawStep(i) PROVE IInv'
<1> DEFINE Running == {"test", "probe", "duplicate_address", "signal", "unblock"}
<1> USE Numbering, ListeningAssumption
<1>0. TypeOK /\ ThreadsInGuards /\ RulesInGuards
  BY DEF IInv
<1>1. /\ UNCHANGED <<host, capture, pcaps, mutex, wolVars, sigVars, disturbed>>
      /\ DawRunning(i)
  BY DEF DawStep, DawBlock, DawTest, DawProbe, DawBreak, DawUnblock, DawAt, DawRunning,
         host, shared, wolVars, sigVars
<1>2. \/ daw' = daw
      \/ \E label \in Running \cup {"exited"} : daw' = [daw EXCEPT ![i] = label]
  BY DEF DawStep, DawBlock, DawTest, DawProbe, DawBreak, DawUnblock, DawGoto, DawEnd
<1>3. asked' \subseteq {"duplicate_address", "signal"}
  BY DEF DawStep, DawBlock, DawTest, DawProbe, DawBreak, DawUnblock, BreakLoop, shared, IInv, TypeOK
<1>4. loop' \in [Watchers -> BOOLEAN]
  BY Zenon DEF DawStep, DawBlock, DawTest, DawProbe, DawBreak, DawUnblock, IInv, TypeOK
<1>5. alive' \in BOOLEAN
  BY Zenon DEF DawStep, DawBlock, DawTest, DawProbe, DawBreak, DawUnblock, IInv, TypeOK
<1>6. /\ ns \ {i} \subseteq ns' /\ ns' \subseteq ns \cup {i}
      /\ bipv6ns \ {i} \subseteq bipv6ns' /\ bipv6ns' \subseteq bipv6ns \cup {i}
  BY DEF DawStep, DawBlock, DawTest, DawProbe, DawBreak, DawUnblock, TakeAction, TakeActionThrows
<1>7. hit' = hit \/ hit' = [hit EXCEPT ![i] = "no"]
  BY DEF DawStep, DawBlock, DawTest, DawProbe, DawBreak, DawUnblock, Spawned
<1>8. TypeOK'
  <2>1. HostType /\ DawType /\ SigType
    BY <1>0 DEF TypeOK, HostType, DawType, SigType
  <2>2. HostType' /\ SigType'
    BY <1>1, <1>3, <1>5, <2>1 DEF HostType, SigType, host, wolVars, sigVars
  <2>3. daw' \in [Watchers -> {"none", "block", "test", "probe", "duplicate_address", "signal",
                               "unblock", "exited"}]
    BY <1>2, <2>1 DEF DawType
  <2>4. hit' \in [Threads -> {"no", "kill", "intr"}]
    BY <1>7, <2>1 DEF DawType
  <2>5. bipv6ns' \subseteq Watchers /\ ns' \subseteq Watchers /\ disturbed' \subseteq Watchers
    BY <1>1, <1>6, <2>1 DEF DawType
  <2>6. DawType'
    BY <1>4, <2>3, <2>4, <2>5 DEF DawType
  <2> QED BY <2>2, <2>6 DEF TypeOK, HostType, DawType, SigType
<1>9. Progress' /\ Exclusion'
  BY <1>1 DEF IInv, Progress, Exclusion, InSection, host, wolVars, sigVars
<1>10. ThreadsInGuards'
  <2>1. wol' \in {"loop", "break"} => made' >= 1 /\ gone' = 0
    BY <1>1 DEF IInv, ThreadsInGuards, host, wolVars
  <2>2. ASSUME NEW j \in Watchers, DawRunning(j)' PROVE j + 2 <= made' /\ gone' < j + 2
    <3>1. DawRunning(j)
      BY <1>1, <1>2, <2>2 DEF IInv, TypeOK, DawRunning
    <3> QED BY <1>1, <3>1 DEF IInv, ThreadsInGuards, host
  <2> QED BY <2>1, <2>2 DEF ThreadsInGuards
<1>11. /\ i \in bipv6ns' => daw'[i] \in Running
       /\ daw'[i] = "unblock" => i \in bipv6ns'
       /\ i \notin disturbed => (i \in ns' <=> i \in bipv6ns')
       /\ hit'[i] = "no"
  <2>0. /\ daw \in [Watchers -> {"none", "block", "test", "probe", "duplicate_address", "signal",
                                "unblock", "exited"}]
        /\ hit \in [Threads -> {"no", "kill", "intr"}] /\ i \in Threads
        /\ i \in bipv6ns => daw[i] \in Running
        /\ daw[i] = "unblock" => i \in bipv6ns
        /\ i \notin disturbed => (i \in ns <=> i \in bipv6ns)
        /\ hit[i] # "no" => daw[i] = "probe" \/ (daw[i] \in {"block", "unblock"} /\ i \in disturbed)
    BY <1>0 DEF TypeOK, RulesInGuards, DawRunning
  <2>1. CASE DawBlock(i)
    BY <2>0, <2>1 DEF DawBlock, DawAt, DawGoto, TakeAction, TakeActionThrows, Spawned
  <2>2. CASE DawTest(i)
    BY <2>0, <2>2 DEF DawTest, DawAt, DawGoto, DawEnd
  <2>3. CASE DawProbe(i)
    BY <2>0, <2>3 DEF DawProbe, DawAt, DawGoto, Spawned
  <2>4. CASE DawBreak(i)
    BY <2>0, <2>4 DEF DawBreak, DawAt, DawGoto, DawEnd
  <2>5. CASE DawUnblock(i)
    BY <2>0, <2>5 DEF DawUnblock, DawAt, DawGoto, TakeAction, TakeActionThrows, Spawned
  <2> QED BY <2>1, <2>2, <2>3, <2>4, <2>5 DEF DawStep
<1>12. ASSUME NEW j \in Watchers, j # i
       PROVE  /\ daw'[j] = daw[j] /\ hit'[j] = hit[j]
              /\ j \in ns' <=> j \in ns
              /\ j \in bipv6ns' <=> j \in bipv6ns
  BY <1>0, <1>2, <1>6, <1>7, <1>12 DEF TypeOK
<1>13. RulesInGuards'
  <2>0. bipv6ns' \subseteq Watchers
    BY <1>8 DEF TypeOK
  <2>1. \A j \in bipv6ns' : DawRunning(j)' /\ daw'[j] # "block"
    BY <1>0, <1>11, <1>12, <2>0 DEF RulesInGuards, DawRunning
  <2>2. \A j \in Watchers : daw'[j] = "unblock" => j \in bipv6ns'
    BY <1>0, <1>11, <1>12 DEF RulesInGuards
  <2>3. \A j \in Watchers : j \notin disturbed' => (j \in ns' <=> j \in bipv6ns')
    BY <1>0, <1>1, <1>11, <1>12 DEF RulesInGuards
  <2>4. \A j \in Watchers : hit'[j] # "no" =>
            daw'[j] = "probe" \/ (daw'[j] \in {"block", "unblock"} /\ j \in disturbed')
    BY <1>0, <1>1, <1>11, <1>12 DEF RulesInGuards
  <2> QED BY <2>1, <2>2, <2>3, <2>4 DEF RulesInGuards
<1> QED BY <1>8, <1>9, <1>10, <1>13 DEF IInv

\* A thread starts to handle a signal: it is not in the list yet.
LEMMA HandleInv ==
    ASSUME IInv, NEW t \in Threads, NEW s \in Signals, Handle(t, s)
    PROVE  /\ Progress' /\ Exclusion' /\ UNCHANGED <<host, shared, wolVars, served, alive>>
           /\ handler' \in [Runs -> {"idle", "lock", "iterate", "call"}]
           /\ stack' \in [Threads -> Seq(Signals)]
<1>1. <<t, s>> \in Runs /\ UNCHANGED <<host, shared, wolVars, served, alive>>
  BY DEF Handle, Runs
<1>2. /\ handler \in [Runs -> {"idle", "lock", "iterate", "call"}]
      /\ handler' = [handler EXCEPT ![<<t, s>>] = "lock"]
      /\ stack \in [Threads -> Seq(Signals)]
      /\ stack' = [stack EXCEPT ![t] = Append(@, s)]
  BY DEF Handle, IInv, TypeOK, Runs
<1>3. /\ handler' \in [Runs -> {"idle", "lock", "iterate", "call"}]
      /\ stack' \in [Threads -> Seq(Signals)]
  BY <1>1, <1>2
<1>4. Progress'
  BY <1>1 DEF IInv, Progress, host, shared
<1>5. Exclusion'
  BY <1>1, <1>2 DEF IInv, Exclusion, InSection, host, shared
<1> QED BY <1>1, <1>3, <1>4, <1>5

LEMMA DeliverInv == ASSUME IInv, NEW s \in Signals, Deliver(s) PROVE IInv'
<1>1. Handle(MainThread, s) /\ UNCHANGED dawVars
  BY DEF Deliver
<1>2. /\ Progress' /\ Exclusion' /\ UNCHANGED <<host, shared, wolVars, served, alive>>
      /\ handler' \in [Runs -> {"idle", "lock", "iterate", "call"}]
      /\ stack' \in [Threads -> Seq(Signals)]
  BY <1>1, HandleInv, Numbering
<1>3. TypeOK'
  BY <1>1, <1>2 DEF IInv, TypeOK, Runs, host, shared, wolVars, dawVars
<1>4. ThreadsInGuards' /\ RulesInGuards'
  BY <1>1, <1>2 DEF IInv, ThreadsInGuards, RulesInGuards, DawRunning, host, wolVars, dawVars
<1> QED BY <1>2, <1>3, <1>4 DEF IInv

\* A signal hits a command: the thread that waits for it is known to be disturbed.
LEMMA HitInv == ASSUME IInv, NEW t \in Threads, NEW s \in Signals, Hit(t, s) PROVE IInv'
<1>1. /\ Progress' /\ Exclusion' /\ UNCHANGED <<host, shared, wolVars, served, alive>>
      /\ handler' \in [Runs -> {"idle", "lock", "iterate", "call"}]
      /\ stack' \in [Threads -> Seq(Signals)]
  BY HandleInv DEF Hit
<1>2. /\ UNCHANGED <<daw, loop, bipv6ns, ns>> /\ Waits(t) /\ hit[t] = "no"
      /\ disturbed' = IF t # 0 /\ daw[t] # "probe" THEN disturbed \cup {t} ELSE disturbed
      /\ \E fault \in {"kill", "intr"} : hit' = [hit EXCEPT ![t] = fault]
  BY DEF Hit
<1>3. t # 0 => t \in Watchers /\ daw[t] \in {"block", "probe", "unblock"}
  BY <1>2 DEF Waits
<1>4. TypeOK'
  BY <1>1, <1>2, <1>3 DEF IInv, TypeOK, Runs, host, shared, wolVars
<1>5. ThreadsInGuards'
  BY <1>1, <1>2 DEF IInv, ThreadsInGuards, DawRunning, host, wolVars
<1>6. RulesInGuards'
  <2>1. \A j \in Watchers : j \notin disturbed' => j \notin disturbed
    BY <1>2
  <2>2. \A j \in Watchers : hit'[j] # "no" => hit[j] # "no" \/ (j = t /\ t # 0)
    BY <1>2, Numbering DEF IInv, TypeOK
  <2>3. \A j \in Watchers : hit'[j] # "no" =>
            daw[j] = "probe" \/ (daw[j] \in {"block", "unblock"} /\ j \in disturbed')
    BY <1>2, <1>3, <2>2 DEF IInv, RulesInGuards
  <2> QED BY <1>2, <2>1, <2>3 DEF IInv, RulesInGuards, DawRunning
<1> QED BY <1>1, <1>4, <1>5, <1>6 DEF IInv

\* The signal handlers: the mutex keeps all but one of them out of the list.
LEMMA HandlerInv ==
    ASSUME IInv, NEW t \in Threads, NEW s \in Signals,
           HandlerLock(t, s) \/ HandlerIterate(t, s) \/ HandlerCall(t, s)
    PROVE  IInv'
<1>0. /\ <<t, s>> \in Runs
      /\ handler \in [Runs -> {"idle", "lock", "iterate", "call"}]
      /\ stack \in [Threads -> Seq(Signals)] /\ served \in Nat
  BY DEF IInv, TypeOK, Runs
<1>1. UNCHANGED <<host, capture, pcaps, wolVars, dawVars, alive>>
  BY DEF HandlerLock, HandlerIterate, HandlerCall
<1>2. Progress' /\ ThreadsInGuards' /\ RulesInGuards'
  BY <1>1 DEF IInv, Progress, ThreadsInGuards, RulesInGuards, DawRunning, host, wolVars, dawVars
<1>3. ASSUME /\ asked' \subseteq {"duplicate_address", "signal"}
             /\ mutex' \in {"free", "host", "handler"}
             /\ handler' \in [Runs -> {"idle", "lock", "iterate", "call"}]
             /\ stack' \in [Threads -> Seq(Signals)] /\ served' \in Nat
      PROVE  TypeOK'
  BY <1>1, <1>3 DEF IInv, TypeOK, Runs, host, wolVars, dawVars
<1>4. ASSUME HandlerReturn(t, s), InSection(<<t, s>>), served' = served + 1,
             asked' \subseteq {"duplicate_address", "signal"}, stack[t] # <<>>
      PROVE  IInv'
  <2>1. /\ handler' = [handler EXCEPT ![<<t, s>>] = "idle"] /\ mutex' = "free"
        /\ stack' = [stack EXCEPT ![t] = SubSeq(stack[t], 1, Len(stack[t]) - 1)]
    BY <1>4 DEF HandlerReturn
  <2>2. SubSeq(stack[t], 1, Len(stack[t]) - 1) \in Seq(Signals)
    <3>1. stack[t] \in Seq(Signals)
      BY <1>0
    <3> QED BY <1>4, <3>1
  <2>3. TypeOK'
    BY <1>0, <1>3, <1>4, <2>1, <2>2
  <2>4. Exclusion'
    BY <1>0, <1>1, <1>4, <2>1 DEF IInv, Exclusion, InSection, host
  <2> QED BY <1>2, <2>3, <2>4 DEF IInv
<1>5. CASE HandlerLock(t, s)
  <2>1. /\ handler' = [handler EXCEPT ![<<t, s>>] = "iterate"] /\ mutex = "free" /\ mutex' = "handler"
        /\ UNCHANGED <<asked, stack, served>>
    BY <1>5 DEF HandlerLock
  <2>2. TypeOK'
    BY <1>0, <1>3, <2>1 DEF IInv, TypeOK
  <2>3. Exclusion'
    BY <1>0, <1>1, <2>1 DEF IInv, Exclusion, InSection, host
  <2> QED BY <1>2, <2>2, <2>3 DEF IInv
<1>6. CASE HandlerIterate(t, s)
  <2>1. HandlerAt(t, s, "iterate") /\ UNCHANGED asked
    BY <1>6 DEF HandlerIterate
  <2>2. handler[<<t, s>>] = "iterate" /\ stack[t] # <<>>
    BY <2>1 DEF HandlerAt
  <2>3. CASE pcaps
    <3>1. handler' = [handler EXCEPT ![<<t, s>>] = "call"] /\ UNCHANGED <<mutex, stack, served>>
      BY <1>6, <2>3 DEF HandlerIterate
    <3>2. TypeOK'
      BY <1>0, <1>3, <2>1, <3>1 DEF IInv, TypeOK
    <3>3. Exclusion'
      BY <1>0, <1>1, <2>2, <2>3, <3>1 DEF IInv, Exclusion, InSection, host
    <3> QED BY <1>2, <3>2, <3>3 DEF IInv
  <2>4. CASE ~pcaps
    <3>1. HandlerReturn(t, s) /\ served' = served + 1
      BY <1>6, <2>4 DEF HandlerIterate
    <3> QED BY <1>4, <2>1, <2>2, <3>1 DEF IInv, TypeOK, InSection
  <2> QED BY <2>3, <2>4
<1>7. CASE HandlerCall(t, s)
  <2>1. /\ handler[<<t, s>>] = "call" /\ stack[t] # <<>> /\ BreakLoop("signal")
        /\ HandlerReturn(t, s) /\ served' = served + 1
    BY <1>7 DEF HandlerCall, HandlerAt
  <2>2. asked' \subseteq {"duplicate_address", "signal"}
    BY <2>1 DEF BreakLoop, IInv, TypeOK
  <2> QED BY <1>4, <2>1, <2>2 DEF InSection
<1> QED BY <1>5, <1>6, <1>7

LEMMA NextInv == IInv /\ [Next]_vars => IInv'
<1> SUFFICES ASSUME IInv, [Next]_vars PROVE IInv'
    OBVIOUS
<1>1. CASE UNCHANGED vars
  BY <1>1 DEF IInv, TypeOK, Progress, ThreadsInGuards, RulesInGuards, DawRunning, Exclusion,
              InSection, vars, host, shared, wolVars, dawVars, sigVars
<1>2. CASE Terminated
  BY <1>1, <1>2 DEF Terminated
<1> QED BY <1>1, <1>2, HostInv, WolInv, DawInv, DeliverInv, HitInv, HandlerInv DEF Next, HandlerStep

\* The strengthened invariant holds throughout.
THEOREM Invariant == Spec => []IInv
BY InitInv, NextInv, PTL DEF Spec

\* All variables of wait_and_listen, its watchers and the signal handlers keep
\* their types, for any number of addresses and signals.
THEOREM TypeCorrect == Spec => []TypeOK
<1>1. IInv => TypeOK BY DEF IInv
<1> QED BY <1>1, Invariant, PTL

\* The capture of wait_and_listen lives as long as anyone may use it: threads
\* of watchers, the list `pcaps' and signal handlers, nested ones included.
THEOREM OutlivesUsers == Spec => []CaptureOutlivesUsers
<1>1. IInv => CaptureOutlivesUsers
  BY Numbering DEF IInv, TypeOK, Progress, ThreadsInGuards, Exclusion, CaptureOutlivesUsers, Runs
<1> QED BY <1>1, Invariant, PTL

\* When wait_and_listen is left, only a watcher one of whose ip6tables commands
\* was killed or interrupted by a signal can have left its rule behind: for any
\* number of IPv6 addresses and signals and under all faults of the module.
THEOREM LeavesNoRule == Spec => []NoRuleLeft
<1>1. IInv => NoRuleLeft
  BY Numbering DEF IInv, TypeOK, Progress, ThreadsInGuards, RulesInGuards, NoRuleLeft
<1> QED BY <1>1, Invariant, PTL

----------------------------------------------------------------------------
(* What the refinement mapping rests on, besides IInv                      *)

Listens == {"make", "emplace", "filter", "loop"}

(* The capture is in the list from the second guard on, as long as its     *)
(* loop has not ended: a handler that does not find it there does not have *)
(* to break it.                                                            *)
Listed ==
    /\ pc \in Listens => (pcaps <=> made >= 2)
    /\ pc \in {"filter", "loop"} => made >= 2

(* An exception leaves the vector at once, and without an exception the    *)
(* vector is not left empty.                                               *)
Thrown ==
    /\ pc \in Listens \cup {"open"} => status = "none"
    /\ pc = "destroy" /\ made = 0 => status = "threw"

(* WatchHost sees commands that signals hit as failures.                   *)
Struck == {"pcap", "watcher", "abort"} \subseteq SeenFaults

(* Nobody breaks the capture before the first guard is made, a watcher     *)
(* reports a signal only after an exception of its own, commands are hit   *)
(* only where signals do that, and no more signals are handled than sent.  *)
Sober ==
    /\ made = 0 => asked = {}
    /\ \A i \in Watchers : daw[i] = "signal" => "watcher" \in SeenFaults
    /\ \A t \in Threads : hit[t] # "no" => Struck
    /\ \A i \in disturbed : Struck
    /\ served + Cardinality(Active) <= MaxSignals

RInv == IInv /\ Listed /\ Thrown /\ Sober

LEMMA SeenMore == Faults \subseteq SeenFaults
  BY DEF SeenFaults

(* Only finitely many handlers can be active.                              *)
LEMMA ActiveFinite == IsFiniteSet(Active) /\ Cardinality(Active) \in Nat
  <1>1. IsFiniteSet(Threads)
    <2>1. Len(Addresses) + 1 \in Int
      BY Numbering
    <2> QED BY <2>1, FS_Interval DEF Threads
  <1>2. IsFiniteSet({"SIGINT", "SIGTERM"})
    <2>1. IsFiniteSet({} \cup {"SIGINT"})
      BY FS_EmptySet, FS_AddElement
    <2>2. IsFiniteSet(({} \cup {"SIGINT"}) \cup {"SIGTERM"})
      BY <2>1, FS_AddElement
    <2>3. {"SIGINT", "SIGTERM"} = ({} \cup {"SIGINT"}) \cup {"SIGTERM"}
      OBVIOUS
    <2> QED BY <2>2, <2>3
  <1>3. IsFiniteSet(Signals)
    BY <1>2, ListeningAssumption, FS_Subset
  <1>4. IsFiniteSet(Threads \X Signals)
    BY <1>1, <1>3, FS_Product
  <1>5. IsFiniteSet(Active)
    BY <1>4, FS_Subset DEF Active
  <1> QED BY <1>5, FS_CardinalityType

LEMMA MapInit == Init => RInv
  <1> SUFFICES ASSUME Init PROVE RInv
    OBVIOUS
  <1>1. IInv
    BY InitInv
  <1>2. Listed /\ Thrown
    BY DEF Init, Listed, Thrown, Listens
  <1>3. Active = {}
    BY DEF Init, Active
  <1>4. Cardinality(Active) = 0
    BY <1>3, FS_EmptySet
  <1>5. Sober
    BY <1>4, ListeningAssumption DEF Init, Sober
  <1> QED BY <1>1, <1>2, <1>5 DEF RInv

LEMMA MapHost == ASSUME RInv, HostStep \/ Captured PROVE Listed' /\ Thrown' /\ Sober'
  <1>0. /\ IInv /\ Listed /\ Thrown /\ Sober /\ made \in Nat /\ gone \in Nat
        /\ made \in 0 .. Len(Addresses) + 2 /\ Len(Addresses) \in Nat
    BY Numbering DEF RInv, IInv, TypeOK
  <1> USE <1>0 DEF At, Throw, Listens, host, shared, sigVars, wolVars, dawVars
  <1>1. UNCHANGED <<served, handler, disturbed>> /\ asked' = asked /\ (made' = 0 => made = 0)
    BY DEF HostStep, Open, StartWol, LockToEmplace, Emplace, StartDaw, AllMade, SetFilter, Broken,
           StopWol, LockToErase, Erase, StopDaw, Join, Close, Captured
  <1>2. ASSUME NEW i \in Watchers, daw'[i] = "signal" PROVE daw[i] = "signal"
    <2>1. daw' = daw \/ StartDaw
      BY DEF HostStep, Open, StartWol, LockToEmplace, Emplace, AllMade, SetFilter, Broken,
             StopWol, LockToErase, Erase, StopDaw, Join, Close, Captured
    <2>2. CASE StartDaw
      BY <1>2, <2>2 DEF StartDaw, IInv, TypeOK
    <2> QED BY <1>2, <2>1, <2>2
  <1>h. \A t \in Threads : hit'[t] # "no" => hit[t] # "no"
    <2>1. hit' = hit \/ hit' = [hit EXCEPT ![0] = "no"]
      BY DEF HostStep, Open, StartWol, LockToEmplace, Emplace, StartDaw, AllMade, SetFilter, Broken,
             StopWol, LockToErase, Erase, StopDaw, Join, Close, Captured
    <2> QED BY <2>1 DEF IInv, TypeOK
  <1>3. Sober'
    <2>1. Active' = Active
      BY <1>1 DEF Active
    <2> QED BY <1>1, <1>2, <1>h, <2>1 DEF Sober
  <1>4. CASE Open \/ StartWol \/ LockToEmplace
    BY <1>3, <1>4 DEF Open, StartWol, LockToEmplace, Listed, Thrown, IInv, Progress, Exclusion
  <1>5. CASE Emplace \/ StartDaw \/ AllMade \/ SetFilter
    BY <1>3, <1>5 DEF Emplace, StartDaw, NextIsDaw, AllMade, SetFilter, Listed, Thrown
  <1>6. CASE Broken \/ Captured
    BY <1>3, <1>6 DEF Broken, Captured, Listed, Thrown
  <1>7. CASE StopWol \/ LockToErase \/ Erase \/ StopDaw \/ Join \/ Close
    BY <1>3, <1>7 DEF StopWol, LockToErase, Erase, StopDaw, Join, Close, Listed, Thrown, IInv, Progress
  <1> QED BY <1>4, <1>5, <1>6, <1>7 DEF HostStep

LEMMA MapWatchers ==
  ASSUME RInv, (WolStep \/ MagicPacket \/ WolThrows) \/ \E i \in Watchers : DawStep(i)
  PROVE  Listed' /\ Thrown' /\ Sober'
  <1>0. IInv /\ Listed /\ Thrown /\ Sober
    BY DEF RInv
  <1> USE DEF host, shared, sigVars, wolVars, dawVars
  <1>1. UNCHANGED <<pc, made, status, pcaps, served, handler, disturbed>>
    BY DEF WolStep, WolLoopEnds, WolBreaks, MagicPacket, WolThrows, DawStep, DawBlock, DawTest,
           DawProbe, DawBreak, DawUnblock
  <1>2. Listed' /\ Thrown'
    BY <1>0, <1>1 DEF Listed, Thrown
  <1>3. asked' # asked => made # 0
    <2>1. CASE WolStep \/ MagicPacket \/ WolThrows
      BY <1>0, <2>1 DEF WolStep, WolLoopEnds, WolBreaks, MagicPacket, WolThrows, IInv, ThreadsInGuards
    <2>2. ASSUME NEW i \in Watchers, DawStep(i), asked' # asked PROVE made # 0
      <3>1. DawRunning(i)
        BY <2>2 DEF DawStep, DawBlock, DawTest, DawProbe, DawBreak, DawUnblock, DawAt, DawRunning
      <3> QED BY <1>0, <3>1, Numbering DEF IInv, ThreadsInGuards
    <2> QED BY <2>1, <2>2
  <1>4. ASSUME NEW j \in Watchers, daw'[j] = "signal" PROVE "watcher" \in SeenFaults
    <2>1. CASE WolStep \/ MagicPacket \/ WolThrows
      BY <1>0, <1>4, <2>1 DEF WolStep, WolLoopEnds, WolBreaks, MagicPacket, WolThrows, Sober
    <2>2. ASSUME NEW i \in Watchers, DawStep(i) PROVE "watcher" \in SeenFaults
      <3>0. daw \in [Watchers -> {"none", "block", "test", "probe", "duplicate_address", "signal",
                                  "unblock", "exited"}]
        BY <1>0 DEF IInv, TypeOK
      <3>1. daw[j] = "signal" \/ "watcher" \in Faults \/ hit[i] = "intr"
        <4>1. \/ daw' = daw
              \/ \E label \in {"test", "probe", "duplicate_address", "unblock", "exited"} :
                     daw' = [daw EXCEPT ![i] = label]
              \/ "watcher" \in Faults \/ hit[i] = "intr"
          BY <2>2 DEF DawStep, DawBlock, DawTest, DawProbe, DawBreak, DawUnblock, DawGoto,
                      DawEnd, TakeActionThrows
        <4> QED BY <1>4, <3>0, <4>1
      <3>2. hit[i] # "no" => Struck
        BY <1>0, Numbering DEF Sober
      <3> QED BY <1>0, <3>1, <3>2, SeenMore DEF Sober, Struck
    <2> QED BY <2>1, <2>2
  <1>h. \A t \in Threads : hit'[t] # "no" => hit[t] # "no"
    <2>1. hit' = hit \/ \E i \in Watchers : hit' = [hit EXCEPT ![i] = "no"]
      BY DEF WolStep, WolLoopEnds, WolBreaks, MagicPacket, WolThrows, DawStep, DawBlock, DawTest,
             DawProbe, DawBreak, DawUnblock, Spawned
    <2> QED BY <1>0, <2>1 DEF IInv, TypeOK
  <1>5. Sober'
    <2>1. Active' = Active
      BY <1>1 DEF Active
    <2> QED BY <1>0, <1>1, <1>3, <1>4, <1>h, <2>1 DEF Sober
  <1> QED BY <1>2, <1>5

(* One more handler is active, and the bound allows for it.                *)
LEMMA MapHandle ==
  ASSUME RInv, NEW t \in Threads, NEW s \in Signals, Handle(t, s)
  PROVE  served' + Cardinality(Active') <= MaxSignals
  <1>1. /\ handler \in [Threads \X Signals -> {"idle", "lock", "iterate", "call"}]
        /\ handler[<<t, s>>] = "idle" /\ handler' = [handler EXCEPT ![<<t, s>>] = "lock"]
        /\ served \in Nat /\ served' = served /\ served + Cardinality(Active) < MaxSignals
    BY DEF Handle, RInv, IInv, TypeOK
  <1>2. Active' = Active \cup {<<t, s>>} /\ <<t, s>> \notin Active
    BY <1>1 DEF Active
  <1>3. Cardinality(Active') = Cardinality(Active) + 1
    BY <1>2, ActiveFinite, FS_AddElement
  <1> QED BY <1>1, <1>3, ActiveFinite, ListeningAssumption

LEMMA MapSignals ==
  ASSUME RInv, NEW s \in Signals, NEW t \in Threads, Deliver(s) \/ Hit(t, s)
  PROVE  Listed' /\ Thrown' /\ Sober'
  <1>0. IInv /\ Listed /\ Thrown /\ Sober
    BY DEF RInv
  <1>1. UNCHANGED <<pc, made, status, pcaps, asked, daw>>
    BY DEF Deliver, Hit, Handle, host, shared, dawVars
  <1>2. Listed' /\ Thrown'
    BY <1>0, <1>1 DEF Listed, Thrown
  <1>3. served' + Cardinality(Active') <= MaxSignals
    BY MapHandle, Numbering DEF Deliver, Hit
  <1>4. (UNCHANGED <<hit, disturbed>>) \/ Struck
    BY DEF Deliver, Hit, dawVars, Struck, SeenFaults
  <1>5. Sober'
    BY <1>0, <1>1, <1>3, <1>4 DEF Sober
  <1> QED BY <1>2, <1>5

(* A handler that has gone through the list is counted as served instead.  *)
LEMMA MapReturn ==
  ASSUME RInv, NEW t \in Threads, NEW s \in Signals, HandlerReturn(t, s),
         handler[<<t, s>>] # "idle", served' = served + 1
  PROVE  served' + Cardinality(Active') <= MaxSignals /\ served < MaxSignals
  <1>1. /\ handler \in [Threads \X Signals -> {"idle", "lock", "iterate", "call"}]
        /\ handler' = [handler EXCEPT ![<<t, s>>] = "idle"]
        /\ served \in Nat /\ served + Cardinality(Active) <= MaxSignals
    BY DEF HandlerReturn, RInv, IInv, TypeOK, Sober
  <1>2. Active' = Active \ {<<t, s>>} /\ <<t, s>> \in Active
    BY <1>1 DEF Active
  <1>3. Cardinality(Active') = Cardinality(Active) - 1
    BY <1>2, ActiveFinite, FS_RemoveElement
  <1>4. Cardinality(Active) >= 1
    <2>1. Active # {}
      BY <1>2
    <2> QED BY <2>1, ActiveFinite, FS_EmptySet
  <1> QED BY <1>1, <1>3, <1>4, ActiveFinite, ListeningAssumption

LEMMA MapHandlers ==
  ASSUME RInv, NEW t \in Threads, NEW s \in Signals,
         HandlerLock(t, s) \/ HandlerIterate(t, s) \/ HandlerCall(t, s)
  PROVE  Listed' /\ Thrown' /\ Sober'
  <1>0. IInv /\ Listed /\ Thrown /\ Sober /\ <<t, s>> \in Runs
        /\ handler \in [Threads \X Signals -> {"idle", "lock", "iterate", "call"}]
    BY DEF RInv, IInv, TypeOK, Runs
  <1>1. UNCHANGED <<pc, made, status, pcaps, daw, hit, disturbed>>
    BY DEF HandlerLock, HandlerIterate, HandlerCall, host, dawVars
  <1>2. Listed' /\ Thrown'
    BY <1>0, <1>1 DEF Listed, Thrown
  <1>3. made = 0 => asked' = asked
    BY <1>0 DEF HandlerLock, HandlerIterate, HandlerCall, HandlerAt, IInv, Exclusion
  <1>4. served' + Cardinality(Active') <= MaxSignals
    <2>1. CASE HandlerReturn(t, s) /\ served' = served + 1 /\ handler[<<t, s>>] # "idle"
      BY <2>1, MapReturn
    <2>2. ASSUME NEW label \in {"iterate", "call"}, handler[<<t, s>>] # "idle",
                 handler' = [handler EXCEPT ![<<t, s>>] = label], served' = served
          PROVE  served' + Cardinality(Active') <= MaxSignals
      <3>1. Active' = Active
        BY <1>0, <2>2 DEF Active
      <3> QED BY <1>0, <2>2, <3>1 DEF Sober
    <2> QED BY <2>1, <2>2 DEF HandlerLock, HandlerIterate, HandlerCall, HandlerAt
  <1>5. Sober'
    BY <1>0, <1>1, <1>3, <1>4 DEF Sober
  <1> QED BY <1>2, <1>5

LEMMA MapStep == RInv /\ [Next]_vars => RInv'
  <1> SUFFICES ASSUME RInv, [Next]_vars PROVE RInv'
    OBVIOUS
  <1>1. IInv'
    BY NextInv DEF RInv
  <1>2. CASE UNCHANGED vars
    <2>0. UNCHANGED <<host, shared, dawVars, sigVars>> /\ Active' = Active
      BY <1>2 DEF vars, sigVars, Active
    <2>1. Listed' /\ Thrown' /\ Sober'
      BY <2>0 DEF RInv, Listed, Thrown, Sober, host, shared, dawVars, sigVars
    <2> QED BY <1>1, <2>1 DEF RInv
  <1>3. CASE Next
    <2>1. Listed' /\ Thrown' /\ Sober'
      BY <1>2, <1>3, MapHost, MapWatchers, MapSignals, MapHandlers, Numbering
      DEF Next, HandlerStep, Terminated, RInv
    <2> QED BY <1>1, <2>1 DEF RInv
  <1> QED BY <1>2, <1>3

----------------------------------------------------------------------------
(* The steps of WatchHost, seen through the mapping                        *)

LEMMA OneExcept == ASSUME NEW a, NEW b PROVE [One(a) EXCEPT !["host"] = b] = One(b)
  BY DEF One

LEMMA OneAt == ASSUME NEW a PROVE One(a)["host"] = a
  BY DEF One

(* What WatchHost does not see.                                            *)
LEMMA Unseen ==
  ASSUME WatchLabel' = WatchLabel, Heard' = Heard, UNCHANGED <<served, alive, client, status>>
  PROVE  UNCHANGED W!vars
  <1>1. UNCHANGED W!kernel /\ UNCHANGED W!sig
    BY DEF W!kernel, W!sig
  <1>2. UNCHANGED W!own
    BY DEF W!own
  <1> QED BY <1>1, <1>2 DEF W!vars

LEMMA SimOpen ==
  ASSUME alive, WatchLabel = "open", Heard' = Heard, UNCHANGED <<served, alive, client>>,
         \/ WatchLabel' = "register" /\ status' = status
         \/ "pcap" \in SeenFaults /\ WatchLabel' = "unwind" /\ status' = "threw"
  PROVE  W!Open("host")
  BY OneExcept, OneAt DEF W!Open, W!At, W!Goto, W!Throw, W!kernel, W!sig

LEMMA SimRegister ==
  ASSUME alive, WatchLabel = "register", WatchLabel' = "watch", Heard' = Heard,
         UNCHANGED <<served, alive, client, status>>
  PROVE  W!Register("host")
  BY OneExcept, OneAt DEF W!Register, W!At, W!Goto, W!kernel, W!sig, W!own

LEMMA SimWatch ==
  ASSUME alive, WatchLabel = "watch", Heard' = Heard, UNCHANGED <<served, alive, client>>,
         \/ WatchLabel' = "capture" /\ status' = status
         \/ "pcap" \in SeenFaults /\ WatchLabel' = "leave" /\ status' = "threw"
  PROVE  W!Watch("host")
  BY OneExcept, OneAt DEF W!Watch, W!At, W!Goto, W!Throw, W!kernel, W!sig

LEMMA SimBroken ==
  ASSUME alive, WatchLabel = "capture", WatchLabel' = "leave", Heard' = Heard,
         UNCHANGED <<served, alive, client>>,
         NEW reason \in Heard, status' = W!StatusOf(reason)
  PROVE  W!Broken("host")
  BY OneExcept, OneAt DEF W!Broken, W!At, W!Goto, W!kernel, W!sig

LEMMA SimCaptured ==
  ASSUME alive, WatchLabel = "capture", WatchLabel' = "leave", Heard' = Heard,
         UNCHANGED <<served, alive, status>>, client' \in Clients
  PROVE  W!Captured("host")
  BY OneExcept, OneAt DEF W!Captured, W!At, W!Goto, W!kernel, W!sig

LEMMA SimCaptureThrows ==
  ASSUME alive, WatchLabel = "capture", WatchLabel' = "leave", Heard' = Heard,
         UNCHANGED <<served, alive, client>>, "pcap" \in SeenFaults, status' = "threw"
  PROVE  W!CaptureThrows("host")
  BY OneExcept, OneAt DEF W!CaptureThrows, W!At, W!Goto, W!Throw, W!kernel, W!sig

LEMMA SimLeave ==
  ASSUME alive, WatchLabel = "leave", Heard' = {}, UNCHANGED <<served, alive, client, status>>,
         WatchLabel' = IF status = "none" THEN "block" ELSE "unwind"
  PROVE  W!Leave("host")
  BY OneExcept, OneAt DEF W!Leave, W!At, W!Goto, W!kernel, W!own

LEMMA SimBreak ==
  ASSUME alive, WatchLabel \in {"register", "watch", "capture"}, WatchLabel' = WatchLabel,
         NEW reason, Heard' = Heard \cup {reason}, UNCHANGED <<served, alive, client, status>>
  PROVE  /\ reason = "duplicate_address" => W!WolBreak("host")
         /\ /\ WatchLabel # "register"
            /\ reason = "duplicate_address" \/ (reason = "signal" /\ "watcher" \in SeenFaults)
            => W!DawBreak("host")
  <1>1. W!BreakLoop("host", reason)
    BY OneExcept, OneAt DEF W!BreakLoop, W!kernel, W!own
  <1> QED BY <1>1, OneAt DEF W!WolBreak, W!DawBreak, W!At

LEMMA SimAborts ==
  ASSUME alive, WatchLabel \in {"register", "watch", "capture", "leave"}, "abort" \in SeenFaults,
         alive' = FALSE, WatchLabel' = WatchLabel, Heard' = Heard,
         UNCHANGED <<served, client, status>>
  PROVE  W!WatcherAborts("host")
  BY OneAt DEF W!WatcherAborts, W!At, W!kernel, W!sig, W!own

(* The signal handler has gone through the list.                           *)
LEMMA SimSignal ==
  ASSUME alive, WatchLabel # "done", WatchLabel' = WatchLabel,
         served \in Nat, served < MaxSignals, served' = served + 1,
         Heard' = IF WatchLabel \in {"watch", "capture"} THEN Heard \cup {"signal"} ELSE Heard,
         UNCHANGED <<alive, client, status>>
  PROVE  W!Signal
  <1>1. ~W!AllDone
    BY OneAt DEF W!AllDone
  <1>2. W!Registered("host") <=> WatchLabel \in {"watch", "capture"}
    BY OneAt DEF W!Registered
  <1>3. W!signal_handler
    <2>1. (served > 0)' = TRUE
      BY ListeningAssumption
    <2>2. One(Heard)' = [h \in {"host"} |-> IF W!Registered(h) THEN One(Heard)[h] \cup {"signal"}
                                            ELSE One(Heard)[h]]
      BY <1>2, OneAt DEF One
    <2> QED BY <2>1, <2>2 DEF W!signal_handler
  <1>4. W!Signalled
    BY <1>3 DEF W!Signalled
  <1>5. UNCHANGED W!kernel /\ UNCHANGED W!own
    BY DEF W!kernel, W!own
  <1> QED BY <1>1, <1>4, <1>5 DEF W!Signal

----------------------------------------------------------------------------
(* Step simulation                                                         *)

Simulated == W!Next \/ UNCHANGED W!vars

LEMMA HostSimulated == ASSUME RInv, HostStep \/ Captured PROVE Simulated
  <1>0. /\ TypeOK /\ Progress /\ Listed /\ Thrown /\ Sober
        /\ made \in Nat /\ gone \in Nat /\ gone <= made /\ Len(Addresses) \in Nat
    BY Numbering DEF RInv, IInv, TypeOK
  <1>1. alive /\ UNCHANGED <<alive, asked, served>>
    BY DEF HostStep, Open, StartWol, LockToEmplace, Emplace, StartDaw, AllMade, SetFilter, Broken,
           StopWol, LockToErase, Erase, StopDaw, Join, Close, Captured, At, shared, sigVars
  <1>2. ASSUME W!Step("host") \/ W!Environment("host") PROVE Simulated
    BY <1>2 DEF Simulated, W!Next
  <1>3. Heard = (IF pc = "left" THEN {} ELSE asked) /\ Heard' = (IF pc' = "left" THEN {} ELSE asked)
    BY <1>1 DEF Heard
  <1>l. ASSUME W!Open("host") \/ W!Register("host") \/ W!Watch("host") \/ W!Broken("host")
                 \/ W!Captured("host") \/ W!CaptureThrows("host") \/ W!Leave("host")
        PROVE  Simulated
    BY <1>2, <1>l DEF W!Step, W!Environment
  <1> USE DEF At, Throw, host, shared
  <1>4. CASE Open
    <2>1. pc = "open" /\ status = "none" /\ made = 0 /\ made' = 0 /\ asked = {} /\ client' = client
      BY <1>0, <1>4 DEF Open, Progress, Thrown, Sober
    <2>2. WatchLabel = "open" /\ Heard' = Heard
      BY <1>3, <2>1 DEF WatchLabel
    <2>3. CASE pc' = "make" /\ status' = status
      <3>1. WatchLabel' = "open"
        BY <2>1, <2>3 DEF WatchLabel
      <3> QED BY <1>1, <2>1, <2>2, <2>3, <3>1, Unseen DEF Simulated
    <2>4. CASE "pcap" \in SeenFaults /\ pc' = "left" /\ status' = "threw"
      <3>1. WatchLabel' = "unwind"
        BY <2>4 DEF WatchLabel
      <3> QED BY <1>1, <1>l, <2>1, <2>2, <2>4, <3>1, SimOpen
    <2> QED BY <1>4, <2>3, <2>4, SeenMore DEF Open
  <1>5. CASE StartWol
    <2>1. pc = "make" /\ status = "none" /\ made = 0 /\ asked = {} /\ client' = client
      BY <1>0, <1>5 DEF StartWol, Thrown, Sober, Listens
    <2>2. WatchLabel = "open" /\ Heard' = Heard
      BY <1>3, <2>1 DEF WatchLabel
    <2>3. \/ WatchLabel' = "register" /\ status' = status
          \/ "pcap" \in SeenFaults /\ WatchLabel' = "unwind" /\ status' = "threw"
      <3>1. CASE made' = 1 /\ pc' = pc /\ status' = status
        BY <2>1, <3>1 DEF WatchLabel
      <3>2. CASE "pcap" \in SeenFaults /\ pc' = "destroy" /\ status' = "threw" /\ made' = made
        BY <2>1, <3>2 DEF WatchLabel
      <3> QED BY <1>5, <3>1, <3>2, SeenMore DEF StartWol
    <2> QED BY <1>1, <1>l, <2>1, <2>2, <2>3, SimOpen
  <1>6. CASE LockToEmplace
    <2>1. pc = "make" /\ pc' = "emplace" /\ made = 1 /\ UNCHANGED <<made, client, status>>
      BY <1>6 DEF LockToEmplace
    <2>2. WatchLabel' = WatchLabel /\ Heard' = Heard
      BY <1>3, <2>1 DEF WatchLabel
    <2> QED BY <1>1, <2>1, <2>2, Unseen DEF Simulated
  <1>7. CASE Emplace
    <2>1. pc = "emplace" /\ pc' = "make" /\ made = 1 /\ made' = 2 /\ UNCHANGED <<client, status>>
      BY <1>0, <1>7 DEF Emplace, Progress
    <2>2. WatchLabel = "register" /\ WatchLabel' = "watch" /\ Heard' = Heard
      BY <1>3, <2>1 DEF WatchLabel
    <2> QED BY <1>1, <1>l, <2>1, <2>2, SimRegister
  <1>8. CASE StartDaw
    <2>1. pc = "make" /\ made > 1 /\ client' = client
      BY <1>0, <1>8 DEF StartDaw, NextIsDaw
    <2>2. WatchLabel = "watch"
      BY <1>0, <2>1 DEF WatchLabel
    <2>3. CASE made' = made + 1 /\ UNCHANGED <<pc, status>>
      <3>1. WatchLabel' = "watch" /\ Heard' = Heard
        BY <1>0, <1>3, <2>1, <2>3 DEF WatchLabel
      <3> QED BY <1>1, <2>1, <2>2, <2>3, <3>1, Unseen DEF Simulated
    <2>4. CASE "pcap" \in SeenFaults /\ pc' = "destroy" /\ status' = "threw" /\ made' = made
      <3>1. WatchLabel' = "leave" /\ Heard' = Heard
        BY <1>0, <1>3, <2>1, <2>4 DEF WatchLabel
      <3> QED BY <1>1, <1>l, <2>1, <2>2, <2>4, <3>1, SimWatch
    <2>5. hit[0] # "no" => Struck
      BY <1>0, Numbering DEF Sober
    <2> QED BY <1>8, <2>3, <2>4, <2>5, SeenMore DEF StartDaw, Struck
  <1>9. CASE AllMade
    <2>1. pc = "make" /\ pc' = "filter" /\ made > 1 /\ UNCHANGED <<made, client, status>>
      BY <1>0, <1>9 DEF AllMade
    <2>2. WatchLabel' = WatchLabel /\ Heard' = Heard
      BY <1>0, <1>3, <2>1 DEF WatchLabel
    <2> QED BY <1>1, <2>1, <2>2, Unseen DEF Simulated
  <1>10. CASE SetFilter
    <2>1. pc = "filter" /\ made > 1 /\ UNCHANGED <<made, client>>
      BY <1>0, <1>10 DEF SetFilter, Listed
    <2>2. WatchLabel = "watch"
      BY <1>0, <2>1 DEF WatchLabel
    <2>3. CASE pc' = "loop" /\ status' = status
      <3>1. WatchLabel' = "capture" /\ Heard' = Heard
        BY <1>3, <2>1, <2>3 DEF WatchLabel
      <3> QED BY <1>1, <1>l, <2>1, <2>2, <2>3, <3>1, SimWatch
    <2>4. CASE "pcap" \in SeenFaults /\ pc' = "destroy" /\ status' = "threw"
      <3>1. WatchLabel' = "leave" /\ Heard' = Heard
        BY <1>0, <1>3, <2>1, <2>4 DEF WatchLabel
      <3> QED BY <1>1, <1>l, <2>1, <2>2, <2>4, <3>1, SimWatch
    <2> QED BY <1>10, <2>3, <2>4, SeenMore DEF SetFilter
  <1>11. CASE Broken
    <2>1. pc = "loop" /\ pc' = "destroy" /\ made > 1 /\ UNCHANGED <<made, client>>
      BY <1>0, <1>11 DEF Broken, Listed
    <2>2. WatchLabel = "capture" /\ WatchLabel' = "leave" /\ Heard' = Heard /\ Heard = asked
      BY <1>0, <1>3, <2>1 DEF WatchLabel
    <2>3. PICK reason \in asked :
              status' = IF reason = "signal" THEN "signal_received" ELSE "duplicate_address"
      BY <1>11 DEF Broken
    <2>4. reason \in Heard /\ status' = W!StatusOf(reason)
      BY <1>0, <2>2, <2>3 DEF TypeOK, W!StatusOf
    <2> QED BY <1>1, <1>l, <2>1, <2>2, <2>4, SimBroken
  <1>12. CASE Captured
    <2>1. pc = "loop" /\ pc' = "destroy" /\ made > 1 /\ made' = made
      BY <1>0, <1>12 DEF Captured, Listed
    <2>2. WatchLabel = "capture" /\ WatchLabel' = "leave" /\ Heard' = Heard
      BY <1>0, <1>3, <2>1 DEF WatchLabel
    <2> QED BY <1>1, <1>l, <1>12, <2>2, SeenMore, SimCaptured, SimCaptureThrows DEF Captured
  <1>13. CASE StopWol \/ LockToErase \/ Erase \/ StopDaw \/ Join
    <2>1. /\ pc \in {"destroy", "join", "erase"} /\ pc' \in {"destroy", "join", "erase"}
          /\ made > 0 /\ UNCHANGED <<made, client, status>>
      BY <1>0, <1>13 DEF StopWol, LockToErase, Erase, StopDaw, Join, Progress
    <2>2. WatchLabel' = WatchLabel /\ Heard' = Heard
      BY <1>0, <1>3, <2>1 DEF WatchLabel
    <2> QED BY <1>1, <2>1, <2>2, Unseen DEF Simulated
  <1>14. CASE Close
    <2>1. pc = "destroy" /\ pc' = "left" /\ UNCHANGED <<made, client, status>>
      BY <1>14 DEF Close
    <2>2. WatchLabel' = (IF status = "none" THEN "block" ELSE "unwind") /\ Heard' = {}
      BY <1>3, <2>1 DEF WatchLabel
    <2>3. CASE made = 0
      <3>1. status = "threw" /\ asked = {} /\ WatchLabel = "unwind" /\ Heard = {}
        BY <1>0, <1>3, <2>1, <2>3 DEF WatchLabel, Thrown, Sober
      <3> QED BY <1>1, <2>1, <2>2, <3>1, Unseen DEF Simulated
    <2>4. CASE made # 0
      <3>1. WatchLabel = "leave"
        BY <1>0, <2>1, <2>4 DEF WatchLabel
      <3> QED BY <1>1, <1>l, <2>1, <2>2, <3>1, SimLeave
    <2> QED BY <2>3, <2>4
  <1> QED BY <1>4, <1>5, <1>6, <1>7, <1>8, <1>9, <1>10, <1>11, <1>12, <1>13, <1>14 DEF HostStep

(* Where the thread of the host is while a watcher runs.                   *)
LEMMA WatcherLabel ==
  ASSUME RInv
  PROVE  /\ wol \in {"loop", "break"} => WatchLabel \in {"register", "watch", "capture", "leave"}
         /\ wol \in {"loop", "break"} /\ pc \in Listens => WatchLabel # "leave"
         /\ \A i \in Watchers : DawRunning(i) => WatchLabel \in {"watch", "capture", "leave"}
         /\ \A i \in Watchers : DawRunning(i) /\ pc \in Listens => WatchLabel # "leave"
  <1>0. /\ TypeOK /\ Progress /\ ThreadsInGuards /\ Listed
        /\ made \in Nat /\ gone \in Nat /\ gone <= made
    BY Numbering DEF RInv, IInv, TypeOK
  <1>1. ASSUME made >= 1, gone < made
        PROVE  /\ WatchLabel \in {"register", "watch", "capture", "leave"}
               /\ pc \in Listens => WatchLabel # "leave"
               /\ made >= 2 => WatchLabel # "register"
    BY <1>0, <1>1 DEF TypeOK, Progress, Listed, WatchLabel, Listens
  <1>2. wol \in {"loop", "break"} => made >= 1 /\ gone < made
    BY <1>0 DEF ThreadsInGuards
  <1>3. ASSUME NEW i \in Watchers, DawRunning(i) PROVE made >= 2 /\ gone < made
    BY <1>0, <1>3, Numbering DEF ThreadsInGuards
  <1> QED BY <1>0, <1>1, <1>2, <1>3

LEMMA WatchersSimulated ==
  ASSUME RInv, (WolStep \/ MagicPacket \/ WolThrows) \/ \E i \in Watchers : DawStep(i)
  PROVE  Simulated
  <1> USE DEF host, shared, sigVars, wolVars, dawVars
  <1>1. alive /\ UNCHANGED <<pc, made, client, status, served>>
    BY DEF WolStep, WolLoopEnds, WolBreaks, MagicPacket, WolThrows, DawStep, DawBlock, DawTest,
           DawProbe, DawBreak, DawUnblock, DawAt
  <1>2. WatchLabel' = WatchLabel
    BY <1>1 DEF WatchLabel
  <1>3. ASSUME UNCHANGED <<asked, alive>> PROVE Simulated
    BY <1>1, <1>2, <1>3, Unseen DEF Simulated, Heard
  <1>4. ASSUME W!WolBreak("host") \/ W!DawBreak("host") \/ W!WatcherAborts("host") PROVE Simulated
    BY <1>4 DEF Simulated, W!Next, W!Environment
  <1>5. ASSUME NEW reason, BreakLoop(reason), UNCHANGED alive
        PROVE  (UNCHANGED <<asked, alive>>) \/ (pc \in Listens /\ Heard' = Heard \cup {reason})
    BY <1>1, <1>5 DEF BreakLoop, Heard, Listens
  <1>6. CASE WolLoopEnds \/ MagicPacket
    BY <1>3, <1>6 DEF WolLoopEnds, MagicPacket
  <1>7. CASE WolBreaks
    <2>1. BreakLoop("duplicate_address") /\ UNCHANGED alive /\ wol = "break"
      BY <1>7 DEF WolBreaks
    <2>2. CASE pc \in Listens /\ Heard' = Heard \cup {"duplicate_address"}
      <3>1. WatchLabel \in {"register", "watch", "capture"}
        BY <2>1, <2>2, WatcherLabel
      <3> QED BY <1>1, <1>2, <1>4, <2>1, <2>2, <3>1, SimBreak
    <2> QED BY <1>3, <1>5, <2>1, <2>2
  <1>8. CASE WolThrows
    <2>1. Heard' = Heard /\ "abort" \in SeenFaults /\ alive' = FALSE /\ wol = "loop"
      BY <1>1, <1>8, SeenMore DEF WolThrows, Heard
    <2> QED BY <1>1, <1>2, <1>4, <2>1, WatcherLabel, SimAborts
  <1>9. ASSUME NEW i \in Watchers, DawStep(i) PROVE Simulated
    <2>1. DawRunning(i)
      BY <1>9 DEF DawStep, DawBlock, DawTest, DawProbe, DawBreak, DawUnblock, DawAt, DawRunning
    <2>2. CASE DawBlock(i) \/ DawTest(i) \/ DawProbe(i)
      BY <1>3, <2>2 DEF DawBlock, DawTest, DawProbe
    <2>3. CASE DawBreak(i)
      <3>1. PICK reason \in {"duplicate_address", "signal"} : daw[i] = reason /\ BreakLoop(reason)
        BY <2>3 DEF DawBreak, DawAt
      <3>2. UNCHANGED alive
        BY <2>3 DEF DawBreak
      <3>3. reason = "signal" => "watcher" \in SeenFaults
        BY <3>1 DEF RInv, Sober
      <3>4. CASE pc \in Listens /\ Heard' = Heard \cup {reason}
        <4>1. WatchLabel \in {"watch", "capture"}
          BY <2>1, <3>4, WatcherLabel
        <4> QED BY <1>1, <1>2, <1>4, <3>2, <3>3, <3>4, <4>1, SimBreak
      <3> QED BY <1>3, <1>5, <3>1, <3>2, <3>4
    <2>4. CASE DawUnblock(i)
      <3>1. CASE UNCHANGED alive
        BY <1>3, <2>4, <3>1 DEF DawUnblock
      <3>2. CASE "abort" \in SeenFaults /\ alive' = FALSE
        <4>1. Heard' = Heard
          BY <1>1, <2>4 DEF DawUnblock, Heard
        <4> QED BY <1>1, <1>2, <1>4, <2>1, <3>2, <4>1, WatcherLabel, SimAborts
      <3>3. UNCHANGED alive \/ (alive' = FALSE /\ ("abort" \in Faults \/ i \notin ns \/ hit[i] = "intr"))
        BY <2>4 DEF DawUnblock, TakeActionThrows
      <3>4. i \notin ns => i \in disturbed
        BY <2>4 DEF DawUnblock, DawAt, RInv, IInv, RulesInGuards
      <3>5. i \in disturbed \/ hit[i] = "intr" => Struck
        BY Numbering DEF RInv, Sober
      <3> QED BY <3>1, <3>2, <3>3, <3>4, <3>5, SeenMore DEF Struck
    <2> QED BY <1>9, <2>2, <2>3, <2>4 DEF DawStep
  <1> QED BY <1>6, <1>7, <1>8, <1>9 DEF WolStep

(* A signal that starts to be handled, or hits a command, is not seen yet. *)
LEMMA SignalsSimulated ==
  ASSUME NEW s \in Signals, NEW t \in Threads, Deliver(s) \/ Hit(t, s)
  PROVE  Simulated
  <1>1. UNCHANGED <<pc, made, client, status, asked, served, alive>>
    BY DEF Deliver, Hit, Handle, host, shared
  <1>2. WatchLabel' = WatchLabel /\ Heard' = Heard
    BY <1>1 DEF WatchLabel, Heard
  <1> QED BY <1>1, <1>2, Unseen DEF Simulated

LEMMA HandlersSimulated ==
  ASSUME RInv, NEW t \in Threads, NEW s \in Signals,
         HandlerLock(t, s) \/ HandlerIterate(t, s) \/ HandlerCall(t, s)
  PROVE  Simulated
  <1>0. /\ TypeOK /\ Progress /\ Exclusion /\ Listed /\ Thrown /\ Sober
        /\ made \in Nat /\ gone \in Nat /\ gone <= made /\ <<t, s>> \in Runs
    BY Numbering DEF RInv, IInv, TypeOK, Runs
  <1> USE DEF host, shared
  <1>1. alive /\ UNCHANGED <<pc, made, client, status, alive>>
    BY DEF HandlerLock, HandlerIterate, HandlerCall, HandlerAt
  <1>2. WatchLabel' = WatchLabel
    BY <1>1 DEF WatchLabel
  <1>3. CASE UNCHANGED <<asked, served>>
    BY <1>1, <1>2, <1>3, Unseen DEF Simulated, Heard
  <1>4. CASE /\ HandlerIterate(t, s) \/ HandlerCall(t, s)
             /\ HandlerReturn(t, s) /\ served' = served + 1
    <2>1. served \in Nat /\ served < MaxSignals
      <3>1. handler[<<t, s>>] # "idle"
        BY <1>4 DEF HandlerIterate, HandlerCall, HandlerAt
      <3> QED BY <1>0, <1>4, <3>1, MapReturn DEF TypeOK
    <2>2. WatchLabel \in {"watch", "capture"} <=> pcaps /\ pc \in Listens
      BY <1>0 DEF WatchLabel, TypeOK, Listed, Listens, Progress, Exclusion, Thrown
    <2>3. WatchLabel # "done"
      BY <1>0 DEF WatchLabel, TypeOK, Listed, Progress, Exclusion, Thrown, Listens
    <2>4. Heard' = IF WatchLabel \in {"watch", "capture"} THEN Heard \cup {"signal"} ELSE Heard
      <3>1. CASE HandlerIterate(t, s)
        <4>1. ~pcaps /\ asked' = asked
          BY <1>0, <1>4, <3>1 DEF HandlerIterate, TypeOK
        <4> QED BY <1>1, <2>2, <4>1 DEF Heard
      <3>2. CASE HandlerCall(t, s)
        <4>1. pcaps /\ BreakLoop("signal")
          BY <1>0, <3>2 DEF HandlerCall, HandlerAt, Exclusion
        <4> QED BY <1>1, <2>2, <4>1 DEF Heard, BreakLoop, Listens
      <3> QED BY <1>4, <3>1, <3>2
    <2>5. W!Signal
      BY <1>1, <1>2, <1>4, <2>1, <2>3, <2>4, SimSignal
    <2> QED BY <2>5 DEF Simulated, W!Next
  <1> QED BY <1>3, <1>4 DEF HandlerLock, HandlerIterate, HandlerCall

LEMMA StepSimulated == RInv /\ [Next]_vars => [W!Next]_(W!vars)
  <1> SUFFICES ASSUME RInv, [Next]_vars PROVE Simulated
    BY DEF Simulated
  <1>1. CASE UNCHANGED vars
    <2>1. UNCHANGED <<pc, made, client, status, served, asked, alive>>
      BY <1>1 DEF vars, host, shared, sigVars
    <2>2. WatchLabel' = WatchLabel /\ Heard' = Heard
      BY <2>1 DEF WatchLabel, Heard
    <2> QED BY <2>1, <2>2, Unseen DEF Simulated
  <1>2. CASE Next
    BY <1>1, <1>2, HostSimulated, WatchersSimulated, SignalsSimulated, HandlersSimulated, Numbering
    DEF Next, HandlerStep, Terminated
  <1> QED BY <1>1, <1>2

(* The property ImplementsWatchHost of the runs: whatever the order in     *)
(* which the host's thread, its watchers and nested signal handlers move,  *)
(* what they do to the capture, to the process and to the outcome is what  *)
(* WatchHost allows.  What is proved of WatchHost for a capture that ends  *)
(* out of nowhere so holds for the threads that really end it.             *)
THEOREM Implements == Spec => ImplementsWatchHost
  BY MapInit, MapStep, StepSimulated, PTL DEF Spec, ImplementsWatchHost
=============================================================================
