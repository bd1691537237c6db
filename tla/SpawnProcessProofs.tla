------------------------- MODULE SpawnProcessProofs -------------------------
(***************************************************************************)
(* Proofs about module SpawnProcess, for any number of threads, commands   *)
(* and descriptors, and for pipes and read buffers of any size.            *)
(***************************************************************************)
EXTENDS SpawnProcess, FiniteSetTheorems, TLAPS

----------------------------------------------------------------------------
(* The inductive invariant                                                 *)

Slots == (Fds \cup {NoFd}) \X (Fds \cup {NoFd})

Command == [runs : {"none", "runs", "exited", "failed", "killed", "died"},
            out : Threads \cup {None}, left : Nat, size : Nat]

Types ==
    /\ table \in [Fds -> Threads \cup {None}]
    /\ pipe \in [Threads -> Seq(Threads)]
    /\ pc \in [Threads -> {"idle", "move", "drop", "spawn", "wait", "read", "close"}]
    /\ calls \in [Threads -> Nat]
    /\ temp \in [Threads -> Slots]
    /\ pair \in [Threads -> Slots]
    /\ got \in [Threads -> Seq(Threads)]
    /\ result \in [Threads -> {"none", "returned", "threw"}]
    /\ child \in [Threads -> Command]
    /\ wrote \in [Threads -> Nat]
    /\ alive \in BOOLEAN

Empty == <<NoFd, NoFd>>

Open(p) == p[1] \in Fds /\ p[2] \in Fds /\ p[1] # p[2]

(* Where a thread keeps the ends of its pipe: in the locals of             *)
(* get_self_pipes until they are moved out, then in the tuple of the       *)
(* caller, which is destroyed first to last.                               *)
Descriptors(t) ==
    /\ pc[t] = "idle" => temp[t] = Empty /\ pair[t] = Empty
    /\ pc[t] = "move" => Open(temp[t]) /\ pair[t] = Empty
    /\ pc[t] \in {"drop", "spawn", "wait", "read"} => temp[t] = Empty /\ Open(pair[t])
    /\ pc[t] = "close" => temp[t] = Empty /\ (pair[t][1] = pair[t][2] => pair[t] = Empty)

(* The table of the process says the same as the File_descriptors.         *)
Owned == \A t \in Threads : \A f \in Fds : table[f] = t <=> f \in Held(t)

(* A running command is waited for and writes into the pipe of its own     *)
(* thread; what it has written is in the pipe or has been read.            *)
Output(t) ==
    /\ pipe[t] \in Seq({t}) /\ Len(pipe[t]) <= Capacity
    /\ got[t] \in Seq({t})
    /\ child[t].runs = "runs" => pc[t] = "wait" /\ child[t].out = t
    /\ pc[t] \in {"move", "drop", "spawn", "wait", "read"} =>
           Len(got[t]) + Len(pipe[t]) = wrote[t] /\ result[t] = "none"
    /\ result[t] = "returned" => Len(got[t]) = wrote[t]

IInv == Types /\ Owned /\ \A t \in Threads : Descriptors(t) /\ Output(t)

----------------------------------------------------------------------------
(* Descriptors                                                             *)

(* The ends a thread holds.                                                *)
LEMMA HeldBy ==
  ASSUME Types, NEW t \in Threads, Descriptors(t)
  PROVE  /\ Held(t) \subseteq Fds
         /\ pc[t] = "idle" => Held(t) = {}
         /\ pc[t] = "move" => Held(t) = {temp[t][1], temp[t][2]}
         /\ pc[t] \in {"drop", "spawn", "wait", "read"} => Held(t) = {pair[t][1], pair[t][2]}
         /\ pc[t] = "close" => Held(t) = {pair[t][1], pair[t][2]} \ {NoFd}
  <1>1. temp[t] \in Slots /\ pair[t] \in Slots /\ NoFd \notin Fds
    BY SpawnAssumption DEF Types, NoFd
  <1>2. Held(t) \subseteq Fds
    BY <1>1 DEF Held, Slots
  <1> QED BY <1>1, <1>2 DEF Held, Descriptors, Open, Empty, Slots

(* Both ends of the pipe belong to the thread until the call is over, so   *)
(* the command writes into it and the thread reads from it.                *)
LEMMA OwnPipe ==
  ASSUME IInv, NEW t \in Threads, pc[t] \in {"drop", "spawn", "wait", "read"}
  PROVE  Source(t) = t /\ table[pair[t][2]] = t
  <1>1. Types /\ Descriptors(t) /\ Open(pair[t])
    BY DEF IInv, Descriptors
  <1>2. pair[t][1] \in Fds /\ pair[t][2] \in Fds /\ Held(t) = {pair[t][1], pair[t][2]}
    BY <1>1, HeldBy DEF Open
  <1> QED BY <1>2 DEF IInv, Owned, Source

(* A set of descriptors has a lowest one.                                  *)
LEMMA LowestIn ==
  ASSUME NEW S \in SUBSET Fds, S # {}
  PROVE  Lowest(S) \in S
  <1>1. S \subseteq Nat
    BY SpawnAssumption
  <1>2. \E f \in S : \A g \in S : f <= g
    <2>1. PICK f \in S : \A g \in S : <<g, f>> \notin OpToRel(<, Nat)
      BY <1>1, NatLessThanWellFounded, WFMin
    <2>2. \A g \in S : ~(g < f)
      BY <1>1, <2>1 DEF OpToRel
    <2> QED BY <1>1, <2>2
  <1> QED BY <1>2 DEF Lowest

(* pipe() returns two numbers that nobody uses.                            *)
LEMMA TwoFree ==
  ASSUME NEW S \in SUBSET Fds, Cardinality(S) >= 2
  PROVE  /\ Lowest(S) \in S /\ Lowest(S \ {Lowest(S)}) \in S
         /\ Lowest(S) # Lowest(S \ {Lowest(S)})
  <1>1. S # {}
    BY FS_EmptySet
  <1>2. PICK f : f = Lowest(S)
    OBVIOUS
  <1>3. f \in S
    BY <1>1, <1>2, LowestIn
  <1>4. S # {f}
    BY FS_Singleton
  <1>5. S \ {f} # {} /\ S \ {f} \in SUBSET Fds
    BY <1>3, <1>4
  <1>6. Lowest(S \ {f}) \in S \ {f}
    BY <1>5, LowestIn
  <1> QED BY <1>2, <1>3, <1>6

(* What a step of t leaves alone.                                          *)
LEMMA OthersKept ==
  ASSUME NEW x \in Threads, Descriptors(x), Output(x),
         pc'[x] = pc[x], temp'[x] = temp[x], pair'[x] = pair[x], pipe'[x] = pipe[x],
         got'[x] = got[x], result'[x] = result[x], child'[x] = child[x], wrote'[x] = wrote[x]
  PROVE  Descriptors(x)' /\ Output(x)' /\ Held(x)' = Held(x)
  BY DEF Descriptors, Output, Held

(* The descriptors of t are neither opened nor closed.                     *)
LEMMA OwnedKept ==
  ASSUME Owned, UNCHANGED table, \A x \in Threads : Held(x)' = Held(x)
  PROVE  Owned'
  BY DEF Owned

(* t closes one of its descriptors.                                        *)
LEMMA OwnedClose ==
  ASSUME Types, Owned, NEW t \in Threads, NEW f \in Held(t), f \in Fds, table' = Closed(f),
         Held(t)' = Held(t) \ {f}, \A x \in Threads : x # t => Held(x)' = Held(x)
  PROVE  Owned' /\ table' \in [Fds -> Threads \cup {None}]
  <1>1. table' = [table EXCEPT ![f] = None] /\ table \in [Fds -> Threads \cup {None}]
    BY DEF Closed, Types
  <1>2. table' \in [Fds -> Threads \cup {None}]
    BY <1>1
  <1>3. ASSUME NEW x \in Threads, NEW g \in Fds PROVE table'[g] = x <=> g \in Held(x)'
    <2>1. table[g] = x <=> g \in Held(x)
      BY DEF Owned
    <2>2. table[f] = t
      BY DEF Owned
    <2>3. CASE g = f
      BY <1>1, <2>1, <2>2, <2>3, SpawnAssumption
    <2>4. CASE g # f
      BY <1>1, <2>1, <2>4
    <2> QED BY <2>3, <2>4
  <1> QED BY <1>2, <1>3 DEF Owned

----------------------------------------------------------------------------
(* The steps of a thread                                                   *)

LEMMA StepGetSelfPipes ==
  ASSUME IInv, NEW t \in Threads, GetSelfPipes(t)
  PROVE  IInv'
  <1>0. Types /\ Owned /\ Descriptors(t) /\ Output(t) /\ pc[t] = "idle" /\ Held(t) = {}
        /\ temp[t] = Empty /\ pair[t] = Empty
    BY HeldBy DEF IInv, GetSelfPipes, At, Descriptors
  <1>1. /\ calls' = [calls EXCEPT ![t] = @ + 1]
        /\ pipe' = [pipe EXCEPT ![t] = <<>>]
        /\ got' = [got EXCEPT ![t] = <<>>]
        /\ wrote' = [wrote EXCEPT ![t] = 0]
        /\ child' = [child EXCEPT ![t] = NoChild]
        /\ UNCHANGED <<pair, alive>>
    BY DEF GetSelfPipes
  <1>2. /\ calls' \in [Threads -> Nat] /\ wrote' \in [Threads -> Nat]
        /\ pair' \in [Threads -> Slots] /\ alive' \in BOOLEAN
    BY <1>0, <1>1 DEF Types
  <1>3. pipe' \in [Threads -> Seq(Threads)] /\ got' \in [Threads -> Seq(Threads)]
    BY <1>0, <1>1 DEF Types
  <1>4. child' \in [Threads -> Command]
    <2>1. NoChild \in Command
      BY DEF NoChild, Command
    <2> QED BY <1>0, <1>1, <2>1 DEF Types
  <1>5. /\ pipe'[t] = <<>> /\ got'[t] = <<>> /\ wrote'[t] = 0 /\ child'[t].runs = "none"
        /\ pair'[t] = Empty
    BY <1>0, <1>1 DEF Types, NoChild
  <1>6. /\ \E l \in {"move", "close"} : pc' = [pc EXCEPT ![t] = l]
        /\ \E h \in {"none", "threw"} : result' = [result EXCEPT ![t] = h]
        /\ temp' = temp \/ \E p : temp' = [temp EXCEPT ![t] = p]
    BY DEF GetSelfPipes, Goto, Ends
  <1>7. ASSUME NEW x \in Threads, x # t
        PROVE  Descriptors(x)' /\ Output(x)' /\ Held(x)' = Held(x)
    <2>1. /\ pc'[x] = pc[x] /\ temp'[x] = temp[x] /\ pair'[x] = pair[x] /\ pipe'[x] = pipe[x]
          /\ got'[x] = got[x] /\ result'[x] = result[x] /\ child'[x] = child[x]
          /\ wrote'[x] = wrote[x]
      BY <1>0, <1>1, <1>6, <1>7 DEF Types
    <2> QED BY <2>1, OthersKept DEF IInv
  <1>8. CASE /\ Cardinality(FreeFds) >= 2 /\ Goto(t, "move")
             /\ \E f, g : /\ f = Lowest(FreeFds) /\ g = Lowest(FreeFds \ {f})
                          /\ table' = [table EXCEPT ![f] = t, ![g] = t]
                          /\ temp' = [temp EXCEPT ![t] = <<f, g>>]
             /\ result' = [result EXCEPT ![t] = "none"]
    <2>1. PICK f, g : /\ f = Lowest(FreeFds) /\ g = Lowest(FreeFds \ {f})
                      /\ table' = [table EXCEPT ![f] = t, ![g] = t]
                      /\ temp' = [temp EXCEPT ![t] = <<f, g>>]
      BY <1>8
    <2>2. f \in Fds /\ g \in Fds /\ f # g /\ table[f] = None /\ table[g] = None
      <3>1. FreeFds \in SUBSET Fds
        BY DEF FreeFds
      <3>2. f \in FreeFds /\ g \in FreeFds /\ f # g
        BY <1>8, <2>1, <3>1, TwoFree
      <3> QED BY <3>2 DEF FreeFds
    <2>3. table' \in [Fds -> Threads \cup {None}] /\ temp' \in [Threads -> Slots]
      BY <1>0, <2>1, <2>2 DEF Types, Slots
    <2>4. pc'[t] = "move" /\ result'[t] = "none" /\ temp'[t] = <<f, g>>
      BY <1>0, <1>8, <2>1 DEF Types, Goto
    <2>5. Descriptors(t)' /\ Output(t)'
      <3>1. Descriptors(t)'
        BY <1>5, <2>2, <2>4 DEF Descriptors, Open
      <3>2. Output(t)'
        BY <1>5, <2>4, SpawnAssumption DEF Output
      <3> QED BY <3>1, <3>2
    <2>6. Held(t)' = {f, g}
      <3>1. NoFd \notin Fds
        BY SpawnAssumption DEF NoFd
      <3> QED BY <1>5, <2>2, <2>4, <3>1 DEF Held, Empty
    <2>7. Owned'
      <3>1. ASSUME NEW x \in Threads, NEW d \in Fds PROVE table'[d] = x <=> d \in Held(x)'
        <4>1. table'[d] = IF d \in {f, g} THEN t ELSE table[d]
          BY <1>0, <2>1, <2>2 DEF Types
        <4>2. table[d] = x <=> d \in Held(x)
          BY <1>0 DEF Owned
        <4>3. CASE x = t
          BY <1>0, <2>6, <4>1, <4>2, <4>3
        <4>4. CASE x # t
          BY <1>7, <2>2, <4>1, <4>2, <4>4, SpawnAssumption
        <4> QED BY <4>3, <4>4
      <3> QED BY <3>1 DEF Owned
    <2>8. /\ pc' \in [Threads -> {"idle", "move", "drop", "spawn", "wait", "read", "close"}]
          /\ result' \in [Threads -> {"none", "returned", "threw"}]
      BY <1>0, <1>8 DEF Types, Goto
    <2> QED BY <1>2, <1>3, <1>4, <1>7, <2>3, <2>5, <2>7, <2>8 DEF IInv, Types
  <1>9. CASE Ends(t, "threw") /\ UNCHANGED <<table, temp>>
    <2>1. pc'[t] = "close" /\ result'[t] = "threw" /\ temp'[t] = Empty
      BY <1>0, <1>9 DEF Types, Ends, Goto
    <2>2. Descriptors(t)'
      BY <1>5, <2>1 DEF Descriptors
    <2>3. Output(t)'
      BY <1>5, <2>1, SpawnAssumption DEF Output
    <2>4. Held(t)' = Held(t)
      BY <1>1, <1>9 DEF Held
    <2>5. Owned'
      BY <1>0, <1>7, <1>9, <2>4, OwnedKept
    <2>6. /\ pc' \in [Threads -> {"idle", "move", "drop", "spawn", "wait", "read", "close"}]
          /\ result' \in [Threads -> {"none", "returned", "threw"}]
          /\ table' \in [Fds -> Threads \cup {None}] /\ temp' \in [Threads -> Slots]
      BY <1>0, <1>9 DEF Types, Goto, Ends
    <2> QED BY <1>2, <1>3, <1>4, <1>7, <2>2, <2>3, <2>5, <2>6 DEF IInv, Types
  <1> QED BY <1>8, <1>9 DEF GetSelfPipes

LEMMA StepMoveOut ==
  ASSUME IInv, NEW t \in Threads, MoveOut(t)
  PROVE  IInv'
  <1>0. Types /\ Owned /\ Descriptors(t) /\ Output(t) /\ pc[t] = "move"
    BY DEF IInv, MoveOut, At
  <1>1. /\ pair' = [pair EXCEPT ![t] = temp[t]] /\ temp' = [temp EXCEPT ![t] = pair[t]]
        /\ pc' = [pc EXCEPT ![t] = "drop"]
        /\ UNCHANGED <<table, pipe, calls, got, result, child, wrote, alive>>
    BY DEF MoveOut, Goto
  <1>2. Types'
    <2>1. pair' \in [Threads -> Slots] /\ temp' \in [Threads -> Slots]
      BY <1>0, <1>1 DEF Types
    <2> QED BY <1>0, <1>1, <2>1 DEF Types
  <1>3. pair'[t] = temp[t] /\ temp'[t] = pair[t] /\ pc'[t] = "drop"
    BY <1>0, <1>1 DEF Types
  <1>4. Descriptors(t)' /\ Output(t)'
    BY <1>0, <1>1, <1>3 DEF Descriptors, Output
  <1>5. Held(t)' = Held(t)
    BY <1>3 DEF Held
  <1>6. ASSUME NEW x \in Threads, x # t PROVE Descriptors(x)' /\ Output(x)' /\ Held(x)' = Held(x)
    <2>1. pc'[x] = pc[x] /\ temp'[x] = temp[x] /\ pair'[x] = pair[x]
      BY <1>0, <1>1, <1>6 DEF Types
    <2> QED BY <1>1, <2>1, OthersKept DEF IInv
  <1>7. Owned'
    BY <1>0, <1>1, <1>5, <1>6, OwnedKept
  <1> QED BY <1>2, <1>4, <1>6, <1>7 DEF IInv

(* The locals of get_self_pipes are empty when they are destroyed.         *)
LEMMA StepDropTemps ==
  ASSUME IInv, NEW t \in Threads, DropTemps(t)
  PROVE  IInv'
  <1>0. Types /\ Owned /\ Descriptors(t) /\ Output(t) /\ pc[t] = "drop" /\ temp[t] = Empty
    BY DEF IInv, DropTemps, At, Descriptors
  <1>1. /\ table' = table /\ temp' = [temp EXCEPT ![t][1] = NoFd]
        /\ pc' = [pc EXCEPT ![t] = "spawn"]
        /\ UNCHANGED <<pipe, calls, pair, got, result, child, wrote, alive>>
    <2>1. NoFd \notin Fds
      BY SpawnAssumption DEF NoFd
    <2> QED BY <1>0, <2>1 DEF DropTemps, Goto, Closed, Empty
  <1>2. temp'[t] = Empty /\ \A x \in Threads : x # t => temp'[x] = temp[x]
    BY <1>0, <1>1 DEF Types, Slots, Empty
  <1>3. Types'
    <2>1. temp' \in [Threads -> Slots]
      BY <1>0, <1>1, <1>2 DEF Types, Slots, Empty
    <2> QED BY <1>0, <1>1, <2>1 DEF Types
  <1>4. Descriptors(t)' /\ Output(t)'
    <2>1. pc'[t] = "spawn"
      BY <1>0, <1>1 DEF Types
    <2> QED BY <1>0, <1>1, <1>2, <2>1 DEF Descriptors, Output
  <1>5. Held(t)' = Held(t)
    BY <1>0, <1>1, <1>2 DEF Held
  <1>6. ASSUME NEW x \in Threads, x # t PROVE Descriptors(x)' /\ Output(x)' /\ Held(x)' = Held(x)
    <2>1. pc'[x] = pc[x]
      BY <1>0, <1>1, <1>6 DEF Types
    <2> QED BY <1>1, <1>2, <1>6, <2>1, OthersKept DEF IInv
  <1>7. Owned'
    BY <1>0, <1>1, <1>5, <1>6, OwnedKept
  <1> QED BY <1>3, <1>4, <1>6, <1>7 DEF IInv

LEMMA StepCloseOne ==
  ASSUME IInv, NEW t \in Threads, CloseOne(t)
  PROVE  IInv'
  <1>0. Types /\ Owned /\ Descriptors(t) /\ Output(t) /\ pc[t] = "close" /\ temp[t] = Empty
        /\ pair[t] \in Slots /\ NoFd \notin Fds
    BY SpawnAssumption DEF IInv, CloseOne, At, Descriptors, Types, NoFd
  <1>h. Held(t) = {pair[t][1], pair[t][2]} \ {NoFd}
    BY <1>0, HeldBy
  <1>1. PICK n \in {1, 2} :
            /\ table' = Closed(pair[t][n]) /\ pair' = [pair EXCEPT ![t][n] = NoFd]
            /\ n = 1 => pair[t][1] # NoFd /\ pc' = pc
            /\ n = 2 => pair[t][1] = NoFd /\ pc' = [pc EXCEPT ![t] = "idle"]
    BY DEF CloseOne, Goto
  <1>2. UNCHANGED <<pipe, calls, temp, got, result, child, wrote, alive>>
    BY DEF CloseOne
  <1>3. /\ pair'[t] = IF n = 1 THEN <<NoFd, pair[t][2]>> ELSE Empty
        /\ \A x \in Threads : x # t => pair'[x] = pair[x] /\ pc'[x] = pc[x]
        /\ pc'[t] = IF n = 1 THEN "close" ELSE "idle"
    <2>1. pair'[t] = [pair[t] EXCEPT ![n] = NoFd] /\ \A x \in Threads : x # t => pair'[x] = pair[x]
      BY <1>0, <1>1 DEF Types
    <2>2. pair'[t] = IF n = 1 THEN <<NoFd, pair[t][2]>> ELSE Empty
      <3>1. CASE n = 1
        BY <1>0, <2>1, <3>1 DEF Slots
      <3>2. CASE n = 2
        BY <1>0, <1>1, <2>1, <3>2 DEF Slots, Empty
      <3> QED BY <3>1, <3>2
    <2>3. pc'[t] = IF n = 1 THEN "close" ELSE "idle"
      BY <1>0, <1>1 DEF Types
    <2>4. \A x \in Threads : x # t => pc'[x] = pc[x]
      BY <1>0, <1>1 DEF Types
    <2> QED BY <2>1, <2>2, <2>3, <2>4
  <1>4. ASSUME NEW x \in Threads, x # t PROVE Descriptors(x)' /\ Output(x)' /\ Held(x)' = Held(x)
    BY <1>2, <1>3, <1>4, OthersKept DEF IInv
  <1>5. Descriptors(t)' /\ Output(t)'
    <2>1. Descriptors(t)'
      BY <1>0, <1>2, <1>3 DEF Descriptors, Empty
    <2>2. Output(t)'
      BY <1>0, <1>2, <1>3 DEF Output
    <2> QED BY <2>1, <2>2
  <1>6. Held(t)' = Held(t) \ {pair[t][n]}
    <2>1. Held(t)' = {pair'[t][1], pair'[t][2]} \ {NoFd}
      BY <1>0, <1>2 DEF Held, Empty
    <2>2. pair[t][1] = pair[t][2] => pair[t] = Empty
      BY <1>0 DEF Descriptors
    <2> QED BY <1>0, <1>h, <1>1, <1>3, <2>1, <2>2 DEF Empty, Slots
  <1>7. Owned' /\ table' \in [Fds -> Threads \cup {None}]
    <2>1. CASE pair[t][n] = NoFd
      <3>1. table' = table /\ Held(t)' = Held(t)
        BY <1>0, <1>h, <1>1, <1>6, <2>1 DEF Closed
      <3> QED BY <1>0, <1>4, <3>1, OwnedKept DEF Types
    <2>2. CASE pair[t][n] # NoFd
      <3>1. pair[t][n] \in Held(t) /\ pair[t][n] \in Fds
        BY <1>0, <1>h, <1>1, <2>2 DEF Slots
      <3> QED BY <1>0, <1>1, <1>4, <1>6, <3>1, OwnedClose
    <2> QED BY <2>1, <2>2
  <1>8. Types'
    <2>1. pair' \in [Threads -> Slots]
      BY <1>0, <1>1, <1>3 DEF Types, Slots, Empty
    <2>2. pc' \in [Threads -> {"idle", "move", "drop", "spawn", "wait", "read", "close"}]
      BY <1>0, <1>1 DEF Types
    <2> QED BY <1>0, <1>2, <1>7, <2>1, <2>2 DEF Types
  <1> QED BY <1>4, <1>5, <1>7, <1>8 DEF IInv

(* The other steps leave the descriptors alone and keep the thread where   *)
(* it holds them.                                                          *)
LEMMA Quiet ==
  ASSUME IInv, NEW t \in Threads, UNCHANGED <<table, temp, pair>>,
         pc[t] \in {"drop", "spawn", "wait", "read"},
         pc'[t] \in {"spawn", "wait", "read", "close"},
         \A x \in Threads : x # t =>
             /\ pc'[x] = pc[x] /\ pipe'[x] = pipe[x] /\ got'[x] = got[x]
             /\ result'[x] = result[x] /\ child'[x] = child[x] /\ wrote'[x] = wrote[x],
         Types', Output(t)'
  PROVE  IInv'
  <1>1. Descriptors(t)' /\ Held(t)' = Held(t)
    <2>1. Open(pair[t]) /\ temp[t] = Empty
      BY DEF IInv, Descriptors
    <2> QED BY <2>1 DEF Descriptors, Held, Open, Empty
  <1>2. ASSUME NEW x \in Threads, x # t PROVE Descriptors(x)' /\ Output(x)' /\ Held(x)' = Held(x)
    BY <1>2, OthersKept DEF IInv
  <1>3. Owned'
    BY <1>1, <1>2, OwnedKept DEF IInv
  <1> QED BY <1>1, <1>2, <1>3 DEF IInv

LEMMA StepSpawn ==
  ASSUME IInv, NEW t \in Threads, Spawn(t)
  PROVE  IInv'
  <1>0. Types /\ Output(t) /\ pc[t] = "spawn" /\ table[pair[t][2]] = t
    BY OwnPipe DEF IInv, Spawn, At
  <1>1. UNCHANGED <<table, pipe, calls, temp, pair, got, wrote, alive>>
    BY DEF Spawn
  <1>2. CASE /\ \E n \in 0 .. MaxOutput :
                    child' = [child EXCEPT ![t] =
                                 [runs |-> "runs", out |-> table[pair[t][2]], left |-> n, size |-> n]]
             /\ Goto(t, "wait") /\ UNCHANGED result
    <2>1. PICK n \in Nat :
              child' = [child EXCEPT ![t] = [runs |-> "runs", out |-> t, left |-> n, size |-> n]]
      <3>1. PICK n \in 0 .. MaxOutput :
                child' = [child EXCEPT ![t] = [runs |-> "runs", out |-> t, left |-> n, size |-> n]]
        BY <1>0, <1>2
      <3>2. n \in Nat
        BY SpawnAssumption
      <3> QED BY <3>1, <3>2
    <2>2. child' \in [Threads -> Command] /\ child'[t].runs = "runs" /\ child'[t].out = t
      BY <1>0, <2>1 DEF Types, Command
    <2>3. /\ pc'[t] = "wait"
          /\ pc' \in [Threads -> {"idle", "move", "drop", "spawn", "wait", "read", "close"}]
      BY <1>0, <1>2 DEF Types, Goto
    <2>4. Types'
      BY <1>0, <1>1, <1>2, <2>2, <2>3 DEF Types
    <2>5. Output(t)'
      BY <1>0, <1>1, <1>2, <2>2, <2>3 DEF Output
    <2>6. \A x \in Threads : x # t => pc'[x] = pc[x] /\ child'[x] = child[x]
      BY <1>0, <1>2, <2>1 DEF Types, Goto
    <2> QED BY <1>0, <1>1, <1>2, <2>3, <2>4, <2>5, <2>6, Quiet
  <1>3. CASE Ends(t, "threw") /\ UNCHANGED child
    <2>1. /\ pc'[t] = "close" /\ result'[t] = "threw"
          /\ \A x \in Threads : x # t => pc'[x] = pc[x] /\ result'[x] = result[x]
      BY <1>0, <1>3 DEF Types, Ends, Goto
    <2>2. Types'
      BY <1>0, <1>1, <1>3 DEF Types, Ends, Goto
    <2>3. Output(t)'
      BY <1>0, <1>1, <1>3, <2>1 DEF Output
    <2> QED BY <1>0, <1>1, <1>3, <2>1, <2>2, <2>3, Quiet
  <1> QED BY <1>2, <1>3 DEF Spawn

LEMMA StepWait ==
  ASSUME IInv, NEW t \in Threads, WaitExited(t) \/ WaitSignaled(t) \/ Interrupted(t)
  PROVE  IInv'
  <1>0. Types /\ Output(t) /\ pc[t] = "wait"
    BY DEF IInv, WaitExited, WaitSignaled, Interrupted, At
  <1>1. UNCHANGED <<table, pipe, calls, temp, pair, got, wrote>>
    BY DEF WaitExited, WaitSignaled, Interrupted, own
  <1>2. alive' \in BOOLEAN
    BY <1>0, Zenon DEF WaitExited, WaitSignaled, Interrupted, Types
  <1>3. CASE Goto(t, "read") /\ UNCHANGED <<result, child>> /\ child[t].runs # "runs"
    <2>1. pc'[t] = "read" /\ \A x \in Threads : x # t => pc'[x] = pc[x]
      BY <1>0, <1>3 DEF Types, Goto
    <2>2. Types'
      BY <1>0, <1>1, <1>2, <1>3 DEF Types, Goto
    <2>3. Output(t)'
      BY <1>0, <1>1, <1>3, <2>1 DEF Output
    <2> QED BY <1>0, <1>1, <1>3, <2>1, <2>2, <2>3, Quiet
  <1>4. CASE /\ Ends(t, "threw")
             /\ (UNCHANGED child /\ child[t].runs # "runs") \/ child' = [child EXCEPT ![t] = NoChild]
    <2>1. /\ pc'[t] = "close" /\ result'[t] = "threw"
          /\ \A x \in Threads : x # t => pc'[x] = pc[x] /\ result'[x] = result[x]
      BY <1>0, <1>4 DEF Types, Ends, Goto
    <2>2. /\ child' \in [Threads -> Command] /\ child'[t].runs # "runs"
          /\ \A x \in Threads : x # t => child'[x] = child[x]
      <3>1. NoChild \in Command /\ NoChild.runs # "runs"
        BY DEF NoChild, Command
      <3> QED BY <1>0, <1>4, <3>1 DEF Types
    <2>3. Types'
      BY <1>0, <1>1, <1>2, <1>4, <2>2 DEF Types, Ends, Goto
    <2>4. Output(t)'
      BY <1>0, <1>1, <2>1, <2>2 DEF Output
    <2> QED BY <1>0, <1>1, <2>1, <2>2, <2>3, <2>4, Quiet
  <1>5. CASE UNCHANGED <<pc, result, child>>
    <2>1. Types' /\ Output(t)'
      BY <1>0, <1>1, <1>2, <1>5 DEF Types, Output
    <2> QED BY <1>0, <1>1, <1>5, <2>1, Quiet
  <1> QED BY <1>3, <1>4, <1>5 DEF WaitExited, WaitSignaled, Interrupted, own

----------------------------------------------------------------------------
(* The output                                                              *)

LEMMA StepReadSome ==
  ASSUME IInv, NEW t \in Threads, ReadSome(t)
  PROVE  IInv'
  <1>0. Types /\ Output(t) /\ pc[t] = "read" /\ Source(t) = t
    BY OwnPipe DEF IInv, ReadSome, At
  <1>1. /\ pipe[t] \in Seq({t}) /\ got[t] \in Seq({t}) /\ pipe[t] # <<>>
        /\ Len(pipe[t]) <= Capacity /\ Len(pipe[t]) \in Nat /\ Len(got[t]) \in Nat
        /\ Capacity \in Nat /\ wrote[t] \in Nat
        /\ Len(got[t]) + Len(pipe[t]) = wrote[t]
    BY <1>0, SpawnAssumption DEF ReadSome, Output, Types
  <1>2. PICK n \in 1 .. Len(pipe[t]) :
            /\ got' = [got EXCEPT ![t] = @ \o SubSeq(pipe[t], 1, n)]
            /\ pipe' = [pipe EXCEPT ![t] = SubSeq(@, n + 1, Len(@))]
    <2> DEFINE n == IF Len(pipe[t]) < Chunk THEN Len(pipe[t]) ELSE Chunk
    <2>1. /\ got' = [got EXCEPT ![t] = @ \o SubSeq(pipe[t], 1, n)]
          /\ pipe' = [pipe EXCEPT ![t] = SubSeq(@, n + 1, Len(@))]
      BY <1>0 DEF ReadSome
    <2>2. Len(pipe[t]) # 0
      BY <1>1
    <2>3. n \in 1 .. Len(pipe[t])
      BY <1>1, <2>2, SpawnAssumption
    <2> HIDE DEF n
    <2> QED BY <2>1, <2>3
  <1>3. /\ SubSeq(pipe[t], 1, n) \in Seq({t}) /\ Len(SubSeq(pipe[t], 1, n)) = n
        /\ SubSeq(pipe[t], n + 1, Len(pipe[t])) \in Seq({t})
        /\ Len(SubSeq(pipe[t], n + 1, Len(pipe[t]))) = Len(pipe[t]) - n
    BY <1>1
  <1>4. /\ pipe'[t] \in Seq({t}) /\ Len(pipe'[t]) = Len(pipe[t]) - n
        /\ got'[t] \in Seq({t}) /\ Len(got'[t]) = Len(got[t]) + n
        /\ \A x \in Threads : x # t => pipe'[x] = pipe[x] /\ got'[x] = got[x]
    BY <1>0, <1>1, <1>2, <1>3 DEF Types
  <1>5. UNCHANGED <<table, pc, calls, temp, pair, result, child, wrote, alive>>
    BY DEF ReadSome
  <1>6. Output(t)'
    <2>1. Len(pipe'[t]) <= Capacity /\ Len(got'[t]) + Len(pipe'[t]) = wrote[t]
      <3>1. PICK a \in Nat, b \in Nat : a = Len(pipe[t]) /\ b = Len(got[t])
        BY <1>1
      <3>2. a <= Capacity /\ b + a = wrote[t] /\ n \in 1 .. a /\ Capacity \in Nat
        BY <1>1, <1>2, <3>1, Zenon
      <3>3. a - n <= Capacity
        BY <3>2
      <3>4. (b + n) + (a - n) = b + a
        OBVIOUS
      <3> QED BY <1>4, <3>1, <3>2, <3>3, <3>4
    <2>2. result[t] = "none" /\ child[t].runs # "runs"
      BY <1>0 DEF Output
    <2> QED BY <1>0, <1>4, <1>5, <2>1, <2>2 DEF Output
  <1>7. Types'
    <2>1. pipe'[t] \in Seq(Threads) /\ got'[t] \in Seq(Threads)
      BY <1>4
    <2>2. pipe' \in [Threads -> Seq(Threads)] /\ got' \in [Threads -> Seq(Threads)]
      BY <1>0, <1>2, <1>4, <2>1 DEF Types
    <2> QED BY <1>0, <1>5, <2>2 DEF Types
  <1> QED BY <1>0, <1>4, <1>5, <1>6, <1>7, Quiet

LEMMA StepReadDone ==
  ASSUME IInv, NEW t \in Threads, ReadDone(t)
  PROVE  IInv'
  <1>0. Types /\ Output(t) /\ pc[t] = "read" /\ Source(t) = t
    BY OwnPipe DEF IInv, ReadDone, At
  <1>1. pipe[t] = <<>> /\ UNCHANGED <<table, pipe, calls, temp, pair, got, child, wrote, alive>>
    BY <1>0 DEF ReadDone
  <1>2. PICK how \in {"returned", "threw"} : Ends(t, how)
    BY DEF ReadDone
  <1>3. /\ pc'[t] = "close" /\ result'[t] = how
        /\ \A x \in Threads : x # t => pc'[x] = pc[x] /\ result'[x] = result[x]
    BY <1>0, <1>2 DEF Types, Ends, Goto
  <1>4. Types'
    BY <1>0, <1>1, <1>2 DEF Types, Ends, Goto
  <1>5. Len(got[t]) = wrote[t]
    BY <1>0, <1>1 DEF Output, Types
  <1>6. Output(t)'
    BY <1>0, <1>1, <1>3, <1>5 DEF Output
  <1> QED BY <1>0, <1>1, <1>3, <1>4, <1>6, Quiet

LEMMA StepChild ==
  ASSUME IInv, NEW t \in Threads, ChildWrites(t) \/ ChildExits(t) \/ ChildKilled(t)
  PROVE  IInv'
  <1>0. /\ Types /\ Output(t) /\ pc[t] = "wait" /\ child[t].out = t /\ child[t] \in Command
        /\ child[t].runs = "runs" /\ Len(got[t]) + Len(pipe[t]) = wrote[t]
    BY DEF IInv, Types, Output, ChildWrites, ChildExits, ChildKilled
  <1>1. UNCHANGED <<table, pc, calls, temp, pair, got, result, alive>>
    BY DEF ChildWrites, ChildExits, ChildKilled, own
  <1>2. CASE ChildWrites(t)
    <2>1. /\ Len(pipe[t]) < Capacity /\ pipe' = [pipe EXCEPT ![t] = Append(@, t)]
          /\ child' = [child EXCEPT ![t].left = @ - 1] /\ child[t].left > 0
          /\ wrote' = [wrote EXCEPT ![t] = @ + 1]
      BY <1>0, <1>2 DEF ChildWrites
    <2>2. /\ child'[t] = [child[t] EXCEPT !.left = @ - 1]
          /\ \A x \in Threads : x # t => child'[x] = child[x]
      BY <1>0, <2>1 DEF Types
    <2>3. child'[t] \in Command /\ child'[t].runs = "runs" /\ child'[t].out = t
      <3>1. child[t].left - 1 \in Nat
        BY <1>0, <2>1 DEF Command
      <3> QED BY <1>0, <2>2, <3>1 DEF Command
    <2>4. /\ pipe'[t] = Append(pipe[t], t) /\ wrote'[t] = wrote[t] + 1
          /\ \A x \in Threads : x # t => pipe'[x] = pipe[x] /\ wrote'[x] = wrote[x]
      BY <1>0, <2>1 DEF Types
    <2>5. pipe[t] \in Seq({t}) /\ Len(pipe[t]) \in Nat /\ Len(got[t]) \in Nat /\ Capacity \in Nat
      BY <1>0, SpawnAssumption DEF Output, Types
    <2>6. pipe'[t] \in Seq({t}) /\ Len(pipe'[t]) = Len(pipe[t]) + 1
      BY <2>4, <2>5
    <2>7. Output(t)'
      <3>1. Len(pipe'[t]) <= Capacity /\ Len(got'[t]) + Len(pipe'[t]) = wrote'[t]
        BY <1>0, <1>1, <2>1, <2>4, <2>5, <2>6 DEF Types
      <3>2. result[t] = "none" /\ got[t] \in Seq({t})
        BY <1>0 DEF Output
      <3> QED BY <1>0, <1>1, <2>3, <2>6, <3>1, <3>2 DEF Output
    <2>8. Types'
      <3>1. pipe' \in [Threads -> Seq(Threads)]
        BY <1>0, <2>1 DEF Types
      <3>2. child' \in [Threads -> Command]
        BY <1>0, <2>1, <2>2, <2>3 DEF Types
      <3>3. wrote' \in [Threads -> Nat]
        BY <1>0, <2>1 DEF Types
      <3> QED BY <1>0, <1>1, <3>1, <3>2, <3>3 DEF Types
    <2> QED BY <1>0, <1>1, <2>2, <2>4, <2>7, <2>8, Quiet
  <1>3. CASE ChildExits(t) \/ ChildKilled(t)
    <2>1. /\ \E how \in {"exited", "failed", "killed", "died"} : child' = [child EXCEPT ![t].runs = how]
          /\ UNCHANGED <<pipe, wrote>>
      BY <1>3 DEF ChildExits, ChildKilled
    <2>2. PICK how \in {"exited", "failed", "killed", "died"} : child' = [child EXCEPT ![t].runs = how]
      BY <2>1
    <2>3. /\ child'[t] = [child[t] EXCEPT !.runs = how]
          /\ \A x \in Threads : x # t => child'[x] = child[x]
      BY <1>0, <2>2 DEF Types
    <2>4. child'[t] \in Command /\ child'[t].runs # "runs"
      BY <1>0, <2>3 DEF Command
    <2>5. Types'
      <3>1. child' \in [Threads -> Command]
        BY <1>0, <2>2, <2>3, <2>4 DEF Types
      <3> QED BY <1>0, <1>1, <2>1, <3>1 DEF Types
    <2>6. Output(t)'
      BY <1>0, <1>1, <2>1, <2>4 DEF Output
    <2> QED BY <1>0, <1>1, <2>1, <2>3, <2>5, <2>6, Quiet
  <1> QED BY <1>2, <1>3

----------------------------------------------------------------------------
(* Theorems                                                                *)

LEMMA IInvInit == Init => IInv
  <1> SUFFICES ASSUME Init PROVE IInv
    OBVIOUS
  <1>1. Types
    <2>1. NoChild \in Command
      BY DEF NoChild, Command
    <2>2. alive \in BOOLEAN
      BY Zenon DEF Init
    <2> QED BY <2>1, <2>2 DEF Init, Types, Slots
  <1>2. ASSUME NEW t \in Threads PROVE Descriptors(t) /\ Output(t) /\ Held(t) = {}
    <2>1. pipe[t] \in Seq({t}) /\ got[t] \in Seq({t}) /\ Len(pipe[t]) = 0
      BY DEF Init
    <2> QED BY <2>1, SpawnAssumption DEF Init, Descriptors, Output, Held, Empty, NoChild
  <1>3. Owned
    BY <1>2, SpawnAssumption DEF Init, Owned
  <1> QED BY <1>1, <1>2, <1>3 DEF IInv

LEMMA IInvStep == IInv /\ [Next]_vars => IInv'
  <1> SUFFICES ASSUME IInv, [Next]_vars PROVE IInv'
    OBVIOUS
  <1>1. CASE UNCHANGED vars
    <2>1. Types'
      BY <1>1 DEF vars, own, IInv, Types
    <2>2. ASSUME NEW x \in Threads PROVE Descriptors(x)' /\ Output(x)' /\ Held(x)' = Held(x)
      BY <1>1, OthersKept DEF vars, own, IInv
    <2>3. Owned'
      BY <1>1, <2>2, OwnedKept DEF vars, IInv
    <2> QED BY <2>1, <2>2, <2>3 DEF IInv
  <1>2. CASE Next
    <2>1. PICK t \in Threads :
              GetSelfPipes(t) \/ ThreadStep(t) \/ Interrupted(t) \/ ChildStep(t) \/ ChildKilled(t)
      BY <1>2 DEF Next
    <2> QED BY <2>1, StepGetSelfPipes, StepMoveOut, StepDropTemps, StepCloseOne, StepSpawn,
               StepWait, StepReadSome, StepReadDone, StepChild DEF ThreadStep, ChildStep
  <1> QED BY <1>1, <1>2

(* All the threads' steps, and the commands', keep the table, the owners   *)
(* of its descriptors and the contents of the pipes together.              *)
THEOREM Invariance == Spec => []IInv
  BY IInvInit, IInvStep, PTL DEF Spec

(* Type correctness of the descriptor table, the pipes and the calls: no   *)
(* number outside the table is ever held, and no pipe is overfull.         *)
THEOREM TypeCorrect == Spec => []TypeOK
  <1>1. IInv => TypeOK
    <2> SUFFICES ASSUME IInv PROVE TypeOK
      OBVIOUS
    <2>1. ASSUME NEW t \in Threads
          PROVE  pipe[t] \in Seq(Threads) /\ Len(pipe[t]) <= Capacity /\ Held(t) \subseteq Fds
      BY HeldBy DEF IInv, Types, Output
    <2> QED BY <2>1 DEF IInv, Types, TypeOK
  <1> QED BY <1>1, Invariance, PTL

(* The property OneOwner of the runs: every open descriptor of a pipe is   *)
(* in exactly one File_descriptor, of the thread whose pipe it is; nothing *)
(* leaks and no number is closed twice, whatever fails in which thread.    *)
THEOREM DescriptorsOwned == Spec => []OneOwner
  <1>1. IInv => OneOwner
    <2> SUFFICES ASSUME IInv, NEW f \in Fds
                 PROVE  IF table[f] = None THEN Holders(f) = {}
                        ELSE /\ Holders(f) = {table[f]}
                             /\ Cardinality({v \in {1, 2} \X {1, 2} :
                                                 <<temp, pair>>[v[1]][table[f]][v[2]] = f}) = 1
      BY DEF OneOwner
    <2>0. Types /\ Owned /\ None \notin Threads /\ NoFd \notin Fds
      BY SpawnAssumption DEF IInv, NoFd
    <2>1. CASE table[f] = None
      BY <2>0, <2>1 DEF Owned, Holders
    <2>2. CASE table[f] # None
      <3>1. PICK t \in Threads : t = table[f]
        BY <2>0, <2>2 DEF Types
      <3>2. Holders(f) = {t}
        BY <2>0, <3>1 DEF Owned, Holders
      <3> DEFINE V == {v \in {1, 2} \X {1, 2} : <<temp, pair>>[v[1]][t][v[2]] = f}
      <3>3. f \in Held(t) /\ Descriptors(t)
        BY <2>0, <3>1 DEF Owned, IInv
      <3>4. \E w \in {1, 2} \X {1, 2} : V = {w}
        <4>1. V = {v \in {<<1, 1>>, <<1, 2>>, <<2, 1>>, <<2, 2>>} : <<temp, pair>>[v[1]][t][v[2]] = f}
          OBVIOUS
        <4> DEFINE U == (IF temp[t][1] = f THEN {<<1, 1>>} ELSE {})
                        \cup (IF temp[t][2] = f THEN {<<1, 2>>} ELSE {})
                        \cup (IF pair[t][1] = f THEN {<<2, 1>>} ELSE {})
                        \cup (IF pair[t][2] = f THEN {<<2, 2>>} ELSE {})
        <4>2. V = U
          BY <4>1
        <4>3. \E w \in {<<1, 1>>, <<1, 2>>, <<2, 1>>, <<2, 2>>} : U = {w}
          <5>1. f # NoFd
            BY <2>0
          <5>2. pc[t] \in {"idle", "move", "drop", "spawn", "wait", "read", "close"}
            BY <2>0 DEF Types
          <5>3. CASE pc[t] = "idle"
            BY <3>3, <5>1, <5>3 DEF Descriptors, Empty, Held
          <5>4. CASE pc[t] = "move"
            BY <3>3, <5>1, <5>4 DEF Descriptors, Empty, Open, Held
          <5>5. CASE pc[t] \in {"drop", "spawn", "wait", "read", "close"}
            BY <3>3, <5>1, <5>5 DEF Descriptors, Empty, Open, Held
          <5> QED BY <5>2, <5>3, <5>4, <5>5
        <4> QED BY <4>2, <4>3
      <3>5. Cardinality(V) = 1
        BY <3>4, FS_Singleton
      <3> QED BY <2>2, <3>1, <3>2, <3>5
    <2> QED BY <2>1, <2>2
  <1> QED BY <1>1, Invariance, PTL

(* The property OutputIsOwn of the runs: a call that returns has read all  *)
(* that its command has written and nothing of another thread's command,   *)
(* however the descriptor numbers were reused in between.                  *)
THEOREM ReadsOwnOutput == Spec => []OutputIsOwn
  <1>1. IInv => OutputIsOwn
    <2> SUFFICES ASSUME IInv, NEW t \in Threads, result[t] = "returned"
                 PROVE  got[t] = [n \in 1 .. wrote[t] |-> t]
      BY DEF OutputIsOwn
    <2>1. got[t] \in Seq({t}) /\ Len(got[t]) = wrote[t]
      BY DEF IInv, Output
    <2> QED BY <2>1
  <1> QED BY <1>1, Invariance, PTL
=============================================================================
