------------------------- MODULE PcapWrapperProofs -------------------------
(***************************************************************************)
(* Proofs about module PcapWrapper, for any set of break_loop calls and    *)
(* any reasons they give.                                                  *)
(***************************************************************************)
EXTENDS PcapWrapper, TLAPS

(* Someone has begun to break the loop.                                    *)
Breaking == \E b \in Breakers : bpc[b] # "idle"

(***************************************************************************)
(* The inductive invariant.  Reason: from the first break_loop call until  *)
(* the classification, the stored reason is one that was given: this is    *)
(* what setting the reason before raising the flag buys.  Cause: a thread  *)
(* that ended without a packet and without an error ended because of a     *)
(* break_loop call.                                                        *)
(***************************************************************************)
Reason ==
    lpc # "done" /\ Breaking => loop_end_reason \in Given

Cause ==
    /\ break_loop \/ cancelled \/ ret_val = "broken" => Breaking
    /\ thread \in {"exited", "joined"} /\ ret_val = "unwritten" => cancelled
    /\ ret_val = "captured" \/ thread = "callback" => delivered

Phase ==
    /\ lpc \in {"clear", "classify", "done"} => thread = "joined"
    /\ lpc = "idle" => thread = "none"
    /\ result = "none" <=> lpc # "done"

IInv == TypeOK /\ Reason /\ Cause /\ Phase /\ EndReasonIsGenuine

LEMMA InitIInv == Init => IInv
  BY BreakersAssumption
  DEF Init, IInv, TypeOK, Loop_end_reason, Reason, Cause, Phase, EndReasonIsGenuine, Breaking

(* No step but BreakReason changes who has begun to break the loop.        *)
LEMMA GivenKept ==
  ASSUME NEW b \in Breakers, TypeOK, BreakStep(b)
  PROVE  Given' = Given /\ (Breaking' <=> Breaking)
  <1>1. bpc[b] # "idle" /\ \E s \in {"joinable", "cancel", "done"} : bpc' = [bpc EXCEPT ![b] = s]
    BY DEF BreakStep, BreakFlag, BreakJoinable, BreakCancel
  <1>2. \A x \in Breakers : bpc'[x] # "idle" <=> bpc[x] # "idle"
    BY <1>1 DEF TypeOK
  <1> QED
    BY <1>2 DEF Given, Breaking

LEMMA GivenGrows ==
  ASSUME NEW b \in Breakers, TypeOK, BreakReason(b)
  PROVE  Given' = Given \cup {Ler[b]} /\ Breaking'
  <1>1. bpc[b] = "idle" /\ bpc' = [bpc EXCEPT ![b] = "flag"]
    BY DEF BreakReason
  <1>2. \A x \in Breakers : bpc'[x] # "idle" <=> bpc[x] # "idle" \/ x = b
    BY <1>1 DEF TypeOK
  <1> QED
    BY <1>2 DEF Given, Breaking

(* Type correctness is kept by every step.                                 *)
LEMMA TypeStep == TypeOK /\ [Next]_vars => TypeOK'
  <1> SUFFICES ASSUME TypeOK, [Next]_vars PROVE TypeOK'
    OBVIOUS
  <1> USE BreakersAssumption DEF TypeOK, Loop_end_reason, looping, libpcap
  <1>1. CASE StartThread
    BY <1>1 DEF StartThread
  <1>2. CASE AssignThread
    BY <1>2 DEF AssignThread
  <1>3. CASE JoinThread
    BY <1>3 DEF JoinThread
  <1>4. CASE ClearThread
    <2>1. loop_thread' \in BOOLEAN
      BY <1>4, Zenon DEF ClearThread
    <2> QED BY <1>4, <2>1 DEF ClearThread
  <1>5. CASE Classify
    BY <1>5 DEF Classify
  <1>6. CASE TestFlag
    <2>1. break_loop' \in BOOLEAN
      BY <1>6, Zenon DEF TestFlag
    <2> QED BY <1>6, <2>1 DEF TestFlag, Exit
  <1>7. CASE PollWoken
    BY <1>7 DEF PollWoken
  <1>8. CASE Packet
    BY <1>8 DEF Packet
  <1>9. CASE CallbackReturns
    <2>1. break_loop' \in BOOLEAN
      BY <1>9, Zenon DEF CallbackReturns
    <2> QED BY <1>9, <2>1 DEF CallbackReturns, Exit
  <1>10. CASE PcapError
    BY <1>10 DEF PcapError, Exit
  <1>11. CASE Cancelled
    BY <1>11 DEF Cancelled
  <1>12. ASSUME NEW b \in Breakers, BreakReason(b) PROVE TypeOK'
    BY <1>12 DEF BreakReason
  <1>13. ASSUME NEW b \in Breakers, BreakFlag(b) PROVE TypeOK'
    BY <1>13 DEF BreakFlag
  <1>14. ASSUME NEW b \in Breakers, BreakJoinable(b) PROVE TypeOK'
    BY <1>14 DEF BreakJoinable
  <1>15. ASSUME NEW b \in Breakers, BreakCancel(b) PROVE TypeOK'
    BY <1>15 DEF BreakCancel
  <1>16. CASE UNCHANGED vars
    BY <1>16 DEF vars
  <1> QED
    BY <1>1, <1>2, <1>3, <1>4, <1>5, <1>6, <1>7, <1>8, <1>9, <1>10, <1>11, <1>12,
       <1>13, <1>14, <1>15, <1>16
    DEF Next, LoopStep, ThreadStep, BreakStep, Ended

(* Every step keeps the inductive invariant.                               *)
LEMMA StepIInv == IInv /\ [Next]_vars => IInv'
  <1> SUFFICES ASSUME IInv, [Next]_vars PROVE IInv'
    OBVIOUS
  <1>0. TypeOK /\ TypeOK'
    BY TypeStep DEF IInv
  <1> USE <1>0 DEF IInv, Reason, Cause, Phase, EndReasonIsGenuine, looping, libpcap
  <1> DEFINE Same == bpc' = bpc
  <1>s. ASSUME Same PROVE Given' = Given /\ (Breaking' <=> Breaking)
    BY <1>s DEF Given, Breaking
  <1>1. CASE StartThread
    BY <1>1, <1>s DEF StartThread, TypeOK
  <1>2. CASE LoopStep
    <2>1. CASE Classify
      <3>1. Same
        BY <2>1 DEF Classify
      <3>2. CASE ret_val = "captured"
        BY <2>1, <3>1, <3>2, <1>s DEF Classify
      <3>3. CASE ret_val = "error"
        BY <2>1, <3>1, <3>3, <1>s DEF Classify
      <3>4. CASE ret_val \in {"unwritten", "broken"}
        <4>1. loop_end_reason \in Given
          BY <2>1, <3>4 DEF Classify
        <4>2. loop_end_reason # "packets_captured" /\ loop_end_reason # "none" /\ loop_end_reason # "threw"
          BY <4>1, BreakersAssumption DEF Given
        <4> QED BY <2>1, <3>1, <3>4, <4>1, <4>2, <1>s DEF Classify
      <3> QED BY <3>2, <3>3, <3>4 DEF TypeOK
    <2>2. CASE AssignThread \/ JoinThread \/ ClearThread
      BY <2>2, <1>s DEF AssignThread, JoinThread, ClearThread
    <2> QED BY <1>2, <2>1, <2>2 DEF LoopStep
  <1>3. CASE ThreadStep \/ Packet \/ PcapError
    <2>1. Same /\ UNCHANGED looping /\ lpc \notin {"idle", "clear", "classify", "done"}
      BY <1>3 DEF ThreadStep, TestFlag, PollWoken, CallbackReturns, Cancelled, Packet, PcapError, Exit, TypeOK
    <2>2. Cause'
      BY <1>3, <2>1, <1>s
      DEF ThreadStep, TestFlag, PollWoken, CallbackReturns, Cancelled, Packet, PcapError, Exit
    <2> QED BY <2>1, <2>2, <1>s
  <1>4. ASSUME NEW b \in Breakers, BreakReason(b) PROVE IInv'
    BY <1>4, GivenGrows DEF BreakReason
  <1>5. ASSUME NEW b \in Breakers, BreakStep(b) PROVE IInv'
    <2>1. Given' = Given /\ Breaking /\ Breaking'
      BY <1>5, GivenKept DEF BreakStep, BreakFlag, BreakJoinable, BreakCancel, Breaking
    <2> QED
      BY <1>5, <2>1 DEF BreakStep, BreakFlag, BreakJoinable, BreakCancel
  <1>6. CASE UNCHANGED vars
    BY <1>6, <1>s DEF vars
  <1> QED
    BY <1>1, <1>2, <1>3, <1>4, <1>5, <1>6 DEF Next, Ended

(* The inductive invariant holds in every state of every behaviour.        *)
THEOREM Invariance == Spec => []IInv
  BY InitIInv, StepIInv, PTL DEF Spec

(* The members of Pcap_wrapper keep their types, whoever breaks the loop.  *)
THEOREM TypeCorrect == Spec => []TypeOK
  <1>1. IInv => TypeOK
    BY DEF IInv
  <1> QED BY <1>1, Invariance, PTL

(* loop() never reports an end that did not happen, for any number of      *)
(* break_loop calls at any moments.                                        *)
THEOREM GenuineEnd == Spec => []EndReasonIsGenuine
  <1>1. IInv => EndReasonIsGenuine
    BY DEF IInv
  <1> QED BY <1>1, Invariance, PTL

----------------------------------------------------------------------------
(* Every step of loop(), break_loop() and libpcap is a step of the promise *)
(* or changes nothing the promise speaks of.                               *)
LEMMA PromiseStep == IInv /\ [Next]_vars => [Promise!Next]_(Promise!vars)
  <1> SUFFICES ASSUME IInv, [Next]_vars PROVE [Promise!Next]_(Promise!vars)
    OBVIOUS
  <1>0. TypeOK
    BY DEF IInv
  <1> USE <1>0 DEF looping, libpcap, Promise!vars
  <1>s. ASSUME bpc' = bpc PROVE Given' = Given
    BY <1>s DEF Given
  <1>1. CASE StartThread \/ AssignThread \/ JoinThread \/ ClearThread
    BY <1>1, <1>s DEF StartThread, AssignThread, JoinThread, ClearThread
  <1>2. CASE Classify
    <2>1. result = "none" /\ UNCHANGED <<Given, delivered>>
      BY <1>2, <1>s DEF Classify, IInv, Phase
    <2>2. \/ result' \in Given
          \/ delivered /\ result' = "packets_captured"
          \/ result' = "threw"
      BY <1>2 DEF Classify, IInv, Cause, Phase, Reason, TypeOK
    <2> QED BY <2>1, <2>2 DEF Promise!Next, Promise!End
  <1>3. CASE ThreadStep \/ PcapError
    BY <1>3, <1>s DEF ThreadStep, TestFlag, PollWoken, CallbackReturns, Cancelled, PcapError, Exit
  <1>4. CASE Packet
    <2>1. result = "none" /\ UNCHANGED <<Given, result>> /\ delivered' = TRUE
      BY <1>4, <1>s DEF Packet, IInv, Phase
    <2> QED BY <2>1 DEF Promise!Next, Promise!Deliver
  <1>5. ASSUME NEW b \in Breakers, BreakReason(b) PROVE Promise!Next
    <2>1. Given' = Given \cup {Ler[b]} /\ UNCHANGED <<delivered, result>>
      BY <1>5, GivenGrows DEF BreakReason
    <2>2. Ler[b] \in {Ler[x] : x \in Breakers}
      OBVIOUS
    <2> QED BY <2>1, <2>2 DEF Promise!Next, Promise!Break
  <1>6. ASSUME NEW b \in Breakers, BreakStep(b) PROVE UNCHANGED Promise!vars
    BY <1>6, GivenKept DEF BreakStep, BreakFlag, BreakJoinable, BreakCancel
  <1>7. CASE UNCHANGED vars
    BY <1>7, <1>s DEF vars
  <1> QED
    BY <1>1, <1>2, <1>3, <1>4, <1>5, <1>6, <1>7 DEF Next, LoopStep, Ended

(* loop() and break_loop() implement the promise that wait_and_listen, the *)
(* watchers and the signal handler rely on.                                *)
THEOREM Refinement == Spec => KeepsPromise
  <1>1. Init => Promise!Init
    BY DEF Init, Promise!Init, Given
  <1> QED
    BY <1>1, PromiseStep, Invariance, PTL DEF Spec, KeepsPromise, Promise!Spec
=============================================================================
