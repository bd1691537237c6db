---------------------------- MODULE PcapWrapper ----------------------------
(***************************************************************************)
(* Pcap_wrapper::loop and Pcap_wrapper::break_loop, statement by statement *)
(* where another thread can come in between.  loop() starts a thread for   *)
(* pcap_loop, keeps its handle in the member loop_thread and joins it; any *)
(* number of break_loop calls run beside it: from the signal handler, from *)
(* the watchers, and, for the loop of the Wol_watcher, from the callback   *)
(* itself.  Critical sections under loop_end_reson_mutex are single steps. *)
(*                                                                         *)
(* External: libpcap and pthreads.  pcap_breakloop sets a flag that        *)
(* pcap_loop tests before it waits and after a callback, and clears when   *)
(* it acts on it; newer versions of libpcap also wake a pcap_loop that     *)
(* waits in poll (BreakWakesPoll).  A cancelled thread ends at the next    *)
(* cancellation point: poll, or a system call of the callback.             *)
(***************************************************************************)
EXTENDS Naturals

CONSTANTS
    Breakers,          \* the break_loop calls
    Ler,               \* Ler[b]: the reason call b gives
    CallbackBreakers,  \* the calls made by the callback of loop()
    Counts,            \* the values of loop's parameter count: 1, or 0 for ever
    BreakWakesPoll     \* pcap_breakloop wakes poll

Loop_end_reason == {"unset", "packets_captured", "signal", "duplicate_address", "error"}

ASSUME BreakersAssumption ==
    /\ Ler \in [Breakers -> {"unset", "signal", "duplicate_address"}]
    /\ CallbackBreakers \subseteq Breakers
    /\ Counts \subseteq {0, 1}
    /\ BreakWakesPoll \in BOOLEAN

VARIABLES
    loop_end_reason,  \* the member of that name
    loop_thread,      \* the member holds a handle: joinable()
    lpc,              \* where loop() is
    count,            \* its parameter
    ret_val,          \* "unwritten" (1), "captured" (0), "error" (-1), "broken" (-2)
    result,           \* what loop() returned: a reason, "threw" or "none" yet
    thread,           \* where the thread in pcap_loop is
    break_loop,       \* libpcap's flag
    cancelled,        \* a cancellation of the thread is pending
    delivered,        \* a packet has been handed to the callback
    bpc,              \* bpc[b]: where break_loop call b is
    crashed           \* pthread_cancel was called on a thread that was joined

looping == <<loop_end_reason, loop_thread, lpc, count, result>>
libpcap == <<ret_val, thread, break_loop, cancelled, delivered>>
vars    == <<looping, libpcap, bpc, crashed>>

Init ==
    /\ loop_end_reason = "unset"
    /\ loop_thread = FALSE
    /\ lpc = "idle"
    /\ count \in Counts
    /\ ret_val = "unwritten"
    /\ result = "none"
    /\ thread = "none"
    /\ break_loop = FALSE
    /\ cancelled = FALSE
    /\ delivered = FALSE
    /\ bpc = [b \in Breakers |-> "idle"]
    /\ crashed = FALSE

----------------------------------------------------------------------------
(* loop()                                                                  *)

\* std::thread{loop_f, ...}: the thread runs before its handle is stored.
StartThread ==
    /\ lpc = "idle"
    /\ lpc' = "assign"
    /\ thread' = "test"
    /\ UNCHANGED <<loop_end_reason, loop_thread, count, result, ret_val, break_loop,
                   cancelled, delivered, bpc, crashed>>

\* loop_thread = ...
AssignThread ==
    /\ lpc = "assign"
    /\ lpc' = "join"
    /\ loop_thread' = TRUE
    /\ UNCHANGED <<loop_end_reason, count, result, libpcap, bpc, crashed>>

\* loop_thread.join(): pthread_join returns, then the handle is cleared.
JoinThread ==
    /\ lpc = "join"
    /\ thread = "exited"
    /\ lpc' = "clear"
    /\ thread' = "joined"
    /\ UNCHANGED <<loop_end_reason, loop_thread, count, result, ret_val, break_loop,
                   cancelled, delivered, bpc, crashed>>

ClearThread ==
    /\ lpc = "clear"
    /\ lpc' = "classify"
    /\ loop_thread' = FALSE
    /\ UNCHANGED <<loop_end_reason, count, result, libpcap, bpc, crashed>>

\* Mutants of the switch: the return code of pcap_loop stored as the reason,
\* and ret_val initialised with 0.
ClassifyRaw ==
    /\ lpc = "classify"
    /\ lpc' = "done"
    /\ loop_end_reason' = ret_val
    /\ result' = IF ret_val = "error" THEN "threw" ELSE loop_end_reason'
    /\ UNCHANGED <<loop_thread, count, libpcap, bpc, crashed>>

ClassifyZero ==
    /\ lpc = "classify"
    /\ lpc' = "done"
    /\ loop_end_reason' = CASE ret_val \in {"captured", "unwritten"} -> "packets_captured"
                            [] ret_val = "error"    -> "error"
                            [] OTHER                -> loop_end_reason
    /\ result' = IF ret_val = "error" THEN "threw" ELSE loop_end_reason'
    /\ UNCHANGED <<loop_thread, count, libpcap, bpc, crashed>>

\* The switch on ret_val, under the mutex.
Classify ==
    /\ lpc = "classify"
    /\ lpc' = "done"
    /\ loop_end_reason' = CASE ret_val = "captured" -> "packets_captured"
                            [] ret_val = "error"    -> "error"
                            [] OTHER                -> loop_end_reason
    /\ result' = IF ret_val = "error" THEN "threw" ELSE loop_end_reason'
    /\ UNCHANGED <<loop_thread, count, libpcap, bpc, crashed>>

----------------------------------------------------------------------------
(* break_loop(ler)                                                         *)

\* A break_loop call of the callback is under way: the callback has not ended.
InCallback == \E b \in CallbackBreakers : bpc[b] \in {"flag", "joinable", "cancel"}

\* Mutant: the reason is not stored.
BreakNoReason(b) ==
    /\ bpc[b] = "idle"
    /\ b \in CallbackBreakers => thread = "callback" /\ ~InCallback
    /\ bpc' = [bpc EXCEPT ![b] = "flag"]
    /\ UNCHANGED <<looping, libpcap, crashed>>

\* loop_end_reason = ler, under the mutex.
BreakReason(b) ==
    /\ bpc[b] = "idle"
    /\ b \in CallbackBreakers => thread = "callback" /\ ~InCallback
    /\ bpc' = [bpc EXCEPT ![b] = "flag"]
    /\ loop_end_reason' = Ler[b]
    /\ UNCHANGED <<loop_thread, lpc, count, result, libpcap, crashed>>

\* Mutant: pcap_breakloop is not called.
BreakNoFlag(b) ==
    /\ bpc[b] = "flag"
    /\ bpc' = [bpc EXCEPT ![b] = "joinable"]
    /\ UNCHANGED <<looping, libpcap, crashed>>

\* pcap_breakloop
BreakFlag(b) ==
    /\ bpc[b] = "flag"
    /\ bpc' = [bpc EXCEPT ![b] = "joinable"]
    /\ break_loop' = TRUE
    /\ UNCHANGED <<looping, ret_val, thread, cancelled, delivered, crashed>>

\* if (loop_thread.joinable())
BreakJoinable(b) ==
    /\ bpc[b] = "joinable"
    /\ bpc' = [bpc EXCEPT ![b] = IF loop_thread THEN "cancel" ELSE "done"]
    /\ UNCHANGED <<looping, libpcap, crashed>>

\* pthread_cancel(loop_thread.native_handle()): nothing protects the handle
\* from the join; with a joined thread the behaviour is undefined, and the
\* process may crash.
BreakCancel(b) ==
    /\ bpc[b] = "cancel"
    /\ bpc' = [bpc EXCEPT ![b] = "done"]
    /\ cancelled' = (cancelled \/ thread \in {"test", "poll", "callback"})
    /\ crashed' \in IF thread = "joined" THEN BOOLEAN ELSE {crashed}
    /\ UNCHANGED <<looping, ret_val, thread, break_loop, delivered>>

----------------------------------------------------------------------------
(* The thread in pcap_loop                                                 *)

Exit(ret) == ret_val' = ret /\ thread' = "exited"

\* The flag is seen before waiting.
TestFlag ==
    /\ thread = "test"
    /\ IF break_loop
       THEN Exit("broken") /\ break_loop' = FALSE
       ELSE thread' = "poll" /\ UNCHANGED <<ret_val, break_loop>>
    /\ UNCHANGED <<looping, cancelled, delivered, bpc, crashed>>

\* poll returns because pcap_breakloop woke it.
PollWoken ==
    /\ thread = "poll"
    /\ BreakWakesPoll /\ break_loop
    /\ thread' = "test"
    /\ UNCHANGED <<looping, ret_val, break_loop, cancelled, delivered, bpc, crashed>>

\* A packet passes the filter: callback_wrapper calls the callback.
Packet ==
    /\ thread = "poll"
    /\ thread' = "callback"
    /\ delivered' = TRUE
    /\ UNCHANGED <<looping, ret_val, break_loop, cancelled, bpc, crashed>>

\* The callback returns; the flag may be looked at before the count or after.
CallbackReturns ==
    /\ thread = "callback" /\ ~InCallback
    /\ \/ break_loop /\ Exit("broken") /\ break_loop' = FALSE
       \/ count = 1 /\ Exit("captured") /\ UNCHANGED break_loop
       \/ count = 0 /\ thread' = "test" /\ UNCHANGED <<ret_val, break_loop>>
    /\ UNCHANGED <<looping, cancelled, delivered, bpc, crashed>>

\* The interface goes down, or the like.
PcapError ==
    /\ thread = "poll"
    /\ Exit("error")
    /\ UNCHANGED <<looping, break_loop, cancelled, delivered, bpc, crashed>>

\* A pending cancellation takes effect: ret_val is never written.
Cancelled ==
    /\ cancelled
    /\ thread = "poll" \/ (thread = "callback" /\ ~InCallback)
    /\ thread' = "exited"
    /\ UNCHANGED <<looping, ret_val, break_loop, cancelled, delivered, bpc, crashed>>

----------------------------------------------------------------------------
LoopStep == AssignThread \/ JoinThread \/ ClearThread \/ Classify

BreakStep(b) == BreakFlag(b) \/ BreakJoinable(b) \/ BreakCancel(b)

ThreadStep == TestFlag \/ PollWoken \/ CallbackReturns \/ Cancelled

Ended ==
    /\ lpc = "done"
    /\ \A b \in Breakers : bpc[b] = "done" \/ b \in CallbackBreakers
    /\ UNCHANGED vars

\* A crash is recorded and the others go on, as they do when the undefined
\* call happens to return.
Next ==
    \/ StartThread \/ LoopStep \/ ThreadStep \/ Packet \/ PcapError
    \/ \E b \in Breakers : BreakReason(b) \/ BreakStep(b)
    \/ Ended

Spec == Init /\ [][Next]_vars

\* Every thread that can go on does so in the end; packets, errors and the
\* calls of loop() and break_loop() need not come.
FairSpec ==
    /\ Spec
    /\ WF_vars(LoopStep)
    /\ WF_vars(ThreadStep)
    /\ \A b \in Breakers : WF_vars(BreakStep(b))

----------------------------------------------------------------------------
(* Properties                                                              *)

\* Type correctness of the members of Pcap_wrapper and of the libpcap handle.
TypeOK ==
    /\ loop_end_reason \in Loop_end_reason
    /\ loop_thread \in BOOLEAN
    /\ lpc \in {"idle", "assign", "join", "clear", "classify", "done"}
    /\ count \in Counts
    /\ ret_val \in {"unwritten", "captured", "error", "broken"}
    /\ result \in Loop_end_reason \cup {"none", "threw"}
    /\ thread \in {"none", "test", "poll", "callback", "exited", "joined"}
    /\ break_loop \in BOOLEAN
    /\ cancelled \in BOOLEAN
    /\ delivered \in BOOLEAN
    /\ bpc \in [Breakers -> {"idle", "flag", "joinable", "cancel", "done"}]
    /\ crashed \in BOOLEAN

\* The reasons that break_loop calls have given so far.
Given == {Ler[b] : b \in {x \in Breakers : bpc[x] # "idle"}}

\* loop() never reports an end that did not happen: packets_captured only if
\* the callback got a packet, any other reason only if a break_loop call gave
\* it.  In particular "no reason given why pcap has been stopped" is never
\* logged for a loop nobody breaks with `unset'.
EndReasonIsGenuine ==
    result \notin {"none", "threw"} =>
        IF result = "packets_captured" THEN delivered ELSE result \in Given

\* The same as a specification: loop() and break_loop() implement the promise
\* of module CaptureLoop.
Promise == INSTANCE CaptureLoop WITH
    Reasons   <- {Ler[b] : b \in Breakers},
    asked     <- Given,
    delivered <- delivered,
    result    <- result

KeepsPromise == Promise!Spec

\* A finished break_loop call ends a loop that is running or is started later,
\* however the two threads interleave.
BreakEndsLoop ==
    \A b \in Breakers : bpc[b] = "done" /\ lpc # "idle" ~> lpc = "done"

\* break_loop, and with it the signal handler, never brings the process down:
\* the README's "terminate upon SIGTERM and SIGINT gracefully".
BreakIsSafe == ~crashed
=============================================================================
