---------------------------- MODULE CaptureLoop ----------------------------
(***************************************************************************)
(* What one call of Pcap_wrapper::loop promises its caller, and what the   *)
(* users of a Pcap_wrapper (wait_and_listen, wol_watcher_thread_main, the  *)
(* signal handler, the watchers) rely on: the call ends with               *)
(* packets_captured only after a packet was handed to the callback, with   *)
(* another reason only if a break_loop call gave that very reason, or with *)
(* an exception.  break_loop may be called at any time, before the loop    *)
(* starts and after it has ended.                                          *)
(***************************************************************************)
CONSTANT Reasons      \* the values break_loop is called with

VARIABLES
    asked,        \* the reasons given by break_loop calls so far
    delivered,    \* a packet has been handed to the callback
    result        \* what loop() returned; "none" before, "threw" an exception

vars == <<asked, delivered, result>>

Init ==
    /\ asked = {}
    /\ delivered = FALSE
    /\ result = "none"

Break ==
    /\ \E reason \in Reasons : asked' = asked \cup {reason}
    /\ UNCHANGED <<delivered, result>>

Deliver ==
    /\ result = "none"
    /\ delivered' = TRUE
    /\ UNCHANGED <<asked, result>>

End ==
    /\ result = "none"
    /\ \/ result' \in asked
       \/ delivered /\ result' = "packets_captured"
       \/ result' = "threw"
    /\ UNCHANGED <<asked, delivered>>

Next == Break \/ Deliver \/ End

Spec == Init /\ [][Next]_vars
=============================================================================
