---------------------------- MODULE SpawnProcess ----------------------------
(***************************************************************************)
(* Threads that run commands and read what they print, as get_mac and      *)
(* Ip_neigh_checker do: get_self_pipes makes a pipe, spawn_wrapper starts  *)
(* the command with the pipe as its stdout and waits for its end,          *)
(* File_descriptor::read takes the output, and the destructors close the   *)
(* descriptors.  The descriptor table belongs to the process: a number     *)
(* that one thread closes is the next one another thread gets.             *)
(***************************************************************************)
EXTENDS Integers, Sequences, FiniteSets

CONSTANTS
    Threads,    \* the threads that spawn commands
    Fds,        \* descriptor numbers the process may use, 0 to 2 excepted
    Capacity,   \* bytes a pipe holds
    MaxOutput,  \* bound on what a command prints
    Chunk,      \* the size of the buffer of File_descriptor::read
    MaxCalls,   \* bound on the calls of a thread
    Faults      \* what may go wrong: "pipe": the system has no pipe left; "spawn":
                \* posix_spawnp fails; "fail": a command fails; "kill", "die": a
                \* command dies of a signal that the program handles, or not;
                \* "intr": a signal interrupts waitpid or poll

None == "none"          \* no thread: the owner of a number that is not open

ASSUME SpawnAssumption ==
    /\ None \notin Threads
    /\ Fds \subseteq Nat /\ IsFiniteSet(Fds)
    /\ Capacity \in Nat \ {0} /\ Chunk \in Nat \ {0}
    /\ MaxOutput \in Nat /\ MaxCalls \in Nat
    /\ Faults \subseteq {"pipe", "spawn", "fail", "kill", "intr", "die"}

VARIABLES
    table,   \* table[f]: the thread whose pipe descriptor f is an end of
    pipe,    \* pipe[t]: the bytes in the pipe of t, each with its writer
    pc,      \* pc[t]: where thread t is
    calls,   \* calls[t]: calls started
    temp,    \* temp[t]: p0 and p1, the local variables of get_self_pipes
    pair,    \* pair[t]: the tuple out_in of the caller
    got,     \* got[t]: the bytes read
    result,  \* result[t]: how the last call of t ended
    child,   \* child[t]: the command: how it runs, its stdout, what it has left
    wrote,   \* wrote[t]: bytes the command of the last call has written
    alive    \* FALSE once a raised signal has ended the process

own  == <<temp, pair, got, result>>
vars == <<table, pipe, pc, calls, own, child, wrote, alive>>

NoFd == -1              \* the value of a File_descriptor that holds nothing

Held(t) == {temp[t][1], temp[t][2], pair[t][1], pair[t][2]} \ {NoFd}

NoChild == [runs |-> "none", out |-> None, left |-> 0, size |-> 0]

Init ==
    /\ table = [f \in Fds |-> None]
    /\ pipe = [t \in Threads |-> <<>>]
    /\ pc = [t \in Threads |-> "idle"]
    /\ calls = [t \in Threads |-> 0]
    /\ temp = [t \in Threads |-> <<NoFd, NoFd>>]
    /\ pair = [t \in Threads |-> <<NoFd, NoFd>>]
    /\ got = [t \in Threads |-> <<>>]
    /\ result = [t \in Threads |-> "none"]
    /\ child = [t \in Threads |-> NoChild]
    /\ wrote = [t \in Threads |-> 0]
    /\ alive = TRUE

At(t, label) == alive /\ pc[t] = label

Goto(t, label) == pc' = [pc EXCEPT ![t] = label]

\* A call of t is over: it returns or throws, and then the tuple is destroyed.
Ends(t, how) == Goto(t, "close") /\ result' = [result EXCEPT ![t] = how]

----------------------------------------------------------------------------
(* get_self_pipes and File_descriptor                                      *)

FreeFds == {f \in Fds : table[f] = None}

Lowest(S) == CHOOSE f \in S : \A g \in S : f <= g

\* Mutant: the result of pipe() is not tested; the array was zero.
GetSelfPipesUnchecked(t) ==
    /\ At(t, "idle") /\ calls[t] < MaxCalls
    /\ calls' = [calls EXCEPT ![t] = @ + 1]
    /\ temp' = [temp EXCEPT ![t] = <<0, 0>>]
    /\ Goto(t, "move")
    /\ UNCHANGED <<table, pipe, pair, got, result, child, wrote, alive>>

\* pipe() takes the two lowest free numbers, or fails.
GetSelfPipes(t) ==
    /\ At(t, "idle") /\ calls[t] < MaxCalls
    /\ calls' = [calls EXCEPT ![t] = @ + 1]
    /\ pipe' = [pipe EXCEPT ![t] = <<>>]
    /\ got' = [got EXCEPT ![t] = <<>>]
    /\ wrote' = [wrote EXCEPT ![t] = 0]
    /\ child' = [child EXCEPT ![t] = NoChild]
    /\ \/ /\ Cardinality(FreeFds) >= 2
          /\ LET f == Lowest(FreeFds)
                 g == Lowest(FreeFds \ {f})
             IN  /\ table' = [table EXCEPT ![f] = t, ![g] = t]
                 /\ temp' = [temp EXCEPT ![t] = <<f, g>>]
          /\ Goto(t, "move")
          /\ result' = [result EXCEPT ![t] = "none"]
       \/ (Cardinality(FreeFds) < 2 \/ "pipe" \in Faults) /\ Ends(t, "threw") /\ UNCHANGED <<table, temp>>
    /\ UNCHANGED <<pair, alive>>

\* Mutant: the move constructor copies the number.
CopyOut(t) ==
    /\ At(t, "move")
    /\ pair' = [pair EXCEPT ![t] = temp[t]]
    /\ Goto(t, "drop")
    /\ UNCHANGED <<table, pipe, calls, temp, got, result, child, wrote, alive>>

\* make_tuple(move(p0), move(p1)): each move constructor starts with -1 and
\* swaps.
MoveOut(t) ==
    /\ At(t, "move")
    /\ pair' = [pair EXCEPT ![t] = temp[t]]
    /\ temp' = [temp EXCEPT ![t] = pair[t]]
    /\ Goto(t, "drop")
    /\ UNCHANGED <<table, pipe, calls, got, result, child, wrote, alive>>

\* File_descriptor::close, of one number; an unused one closes nothing.
Closed(f) == IF f \in Fds THEN [table EXCEPT ![f] = None] ELSE table

\* ~File_descriptor of p1 and p0.
DropTemps(t) ==
    /\ At(t, "drop")
    /\ IF temp[t][2] # NoFd
       THEN table' = Closed(temp[t][2]) /\ temp' = [temp EXCEPT ![t][2] = NoFd] /\ UNCHANGED pc
       ELSE table' = Closed(temp[t][1]) /\ temp' = [temp EXCEPT ![t][1] = NoFd] /\ Goto(t, "spawn")
    /\ UNCHANGED <<pipe, calls, pair, got, result, child, wrote, alive>>

\* ~File_descriptor of the tuple's elements, after a return and an exception.
CloseOne(t) ==
    /\ At(t, "close")
    /\ IF pair[t][1] # NoFd
       THEN table' = Closed(pair[t][1]) /\ pair' = [pair EXCEPT ![t][1] = NoFd] /\ UNCHANGED pc
       ELSE table' = Closed(pair[t][2]) /\ pair' = [pair EXCEPT ![t][2] = NoFd] /\ Goto(t, "idle")
    /\ UNCHANGED <<pipe, calls, temp, got, result, child, wrote, alive>>

----------------------------------------------------------------------------
(* spawn_wrapper and wait_until_pid_exits                                  *)

\* Mutant: the output is read without waiting for the command.
SpawnNoWait(t) ==
    /\ At(t, "spawn")
    /\ \E n \in 0 .. MaxOutput :
           child' = [child EXCEPT ![t] =
                        [runs |-> "runs", out |-> table[pair[t][2]], left |-> n, size |-> n]]
    /\ Goto(t, "read")
    /\ UNCHANGED <<table, pipe, calls, own, wrote, alive>>

\* posix_spawnp; dup2 gives the command what the descriptor refers to now.
Spawn(t) ==
    /\ At(t, "spawn")
    /\ \/ /\ \E n \in 0 .. MaxOutput :
                 child' = [child EXCEPT ![t] =
                              [runs |-> "runs", out |-> table[pair[t][2]], left |-> n, size |-> n]]
          /\ Goto(t, "wait") /\ UNCHANGED result
       \/ "spawn" \in Faults /\ Ends(t, "threw") /\ UNCHANGED child
    /\ UNCHANGED <<table, pipe, calls, temp, pair, got, wrote, alive>>

\* waitpid returns the exit status: 127 is an exception, so is any other error
\* in get_mac, while Ip_neigh_checker does not look at it.
WaitExited(t) ==
    /\ At(t, "wait")
    /\ \/ child[t].runs = "exited" /\ Goto(t, "read") /\ UNCHANGED result
       \/ child[t].runs = "failed" /\ Goto(t, "read") /\ UNCHANGED result
       \/ child[t].runs = "failed" /\ Ends(t, "threw")
    /\ UNCHANGED <<table, pipe, calls, temp, pair, got, child, wrote, alive>>

\* ... or the signal that killed the command, which is raised: a handled one
\* leaves an exit status of 0, another one ends the process.
WaitSignaled(t) ==
    /\ At(t, "wait")
    /\ \/ child[t].runs = "killed" /\ Goto(t, "read") /\ UNCHANGED alive
       \/ child[t].runs = "died" /\ alive' = FALSE /\ UNCHANGED pc
    /\ UNCHANGED <<table, pipe, calls, own, child, wrote>>

\* ... or -1 with EINTR: the command goes on by itself, nobody waits for it
\* and what it prints is lost.
Interrupted(t) ==
    /\ At(t, "wait")
    /\ "intr" \in Faults
    /\ Ends(t, "threw")
    /\ child' = [child EXCEPT ![t] = NoChild]
    /\ UNCHANGED <<table, pipe, calls, temp, pair, got, wrote, alive>>

----------------------------------------------------------------------------
(* File_descriptor::read                                                   *)

Source(t) == table[pair[t][1]]

ReadSome(t) ==
    /\ At(t, "read")
    /\ pipe[Source(t)] # <<>>
    /\ LET n == IF Len(pipe[Source(t)]) < Chunk THEN Len(pipe[Source(t)]) ELSE Chunk
       IN  /\ got' = [got EXCEPT ![t] = @ \o SubSeq(pipe[Source(t)], 1, n)]
           /\ pipe' = [pipe EXCEPT ![Source(t)] = SubSeq(@, n + 1, Len(@))]
    /\ UNCHANGED <<table, pc, calls, temp, pair, result, child, wrote, alive>>

\* Mutant: read() goes on until end of file; this process holds the other end.
ReadToEof(t) ==
    /\ At(t, "read")
    /\ pipe[Source(t)] = <<>>
    /\ Source(t) \notin {table[f] : f \in Fds}
    /\ Ends(t, "returned")
    /\ UNCHANGED <<table, pipe, calls, temp, pair, got, child, wrote, alive>>

\* poll() sees no data, or a signal.
ReadDone(t) ==
    /\ At(t, "read")
    /\ pipe[Source(t)] = <<>>
    /\ Ends(t, "returned") \/ ("intr" \in Faults /\ Ends(t, "threw"))
    /\ UNCHANGED <<table, pipe, calls, temp, pair, got, child, wrote, alive>>

----------------------------------------------------------------------------
(* The command of t                                                        *)

ChildWrites(t) ==
    LET out == child[t].out
    IN  /\ alive /\ child[t].runs = "runs" /\ child[t].left > 0
        /\ Len(pipe[out]) < Capacity
        /\ pipe' = [pipe EXCEPT ![out] = Append(@, t)]
        /\ child' = [child EXCEPT ![t].left = @ - 1]
        /\ wrote' = [wrote EXCEPT ![t] = @ + 1]
        /\ UNCHANGED <<table, pc, calls, own, alive>>

ChildExits(t) ==
    /\ alive /\ child[t].runs = "runs" /\ child[t].left = 0
    /\ \E how \in {"exited"} \cup (IF "fail" \in Faults THEN {"failed"} ELSE {}) :
           child' = [child EXCEPT ![t].runs = how]
    /\ UNCHANGED <<table, pipe, pc, calls, own, wrote, alive>>

ChildKilled(t) ==
    /\ alive /\ child[t].runs = "runs"
    /\ \/ "kill" \in Faults /\ child' = [child EXCEPT ![t].runs = "killed"]
       \/ "die" \in Faults /\ child' = [child EXCEPT ![t].runs = "died"]
    /\ UNCHANGED <<table, pipe, pc, calls, own, wrote, alive>>

----------------------------------------------------------------------------
ThreadStep(t) ==
    \/ MoveOut(t) \/ DropTemps(t) \/ Spawn(t) \/ WaitExited(t) \/ WaitSignaled(t)
    \/ ReadSome(t) \/ ReadDone(t) \/ CloseOne(t)

ChildStep(t) == ChildWrites(t) \/ ChildExits(t)

Next ==
    \E t \in Threads :
        GetSelfPipes(t) \/ ThreadStep(t) \/ Interrupted(t) \/ ChildStep(t) \/ ChildKilled(t)

Spec == Init /\ [][Next]_vars

\* Threads and commands run when they can; calls and signals need not come.
FairSpec == Spec /\ \A t \in Threads : WF_vars(ThreadStep(t)) /\ WF_vars(ChildStep(t))

----------------------------------------------------------------------------
(* Properties                                                              *)

Holders(f) == {t \in Threads : f \in Held(t)}

\* Type correctness of descriptors, pipes and calls; a pipe is never overfull.
TypeOK ==
    /\ table \in [Fds -> Threads \cup {None}]
    /\ \A t \in Threads : pipe[t] \in Seq(Threads) /\ Len(pipe[t]) <= Capacity
    /\ pc \in [Threads -> {"idle", "move", "drop", "spawn", "wait", "read", "close"}]
    /\ \A t \in Threads : Held(t) \subseteq Fds
    /\ result \in [Threads -> {"none", "returned", "threw"}]
    /\ alive \in BOOLEAN

\* Every open descriptor is held by exactly one File_descriptor, of the thread
\* whose pipe it is, and every number held is open: nothing leaks, whatever
\* fails, and nothing is closed twice, which could hit the other thread's pipe.
OneOwner ==
    alive => \A f \in Fds :
        IF table[f] = None THEN Holders(f) = {}
        ELSE /\ Holders(f) = {table[f]}
             /\ Cardinality({v \in {1, 2} \X {1, 2} : <<temp, pair>>[v[1]][table[f]][v[2]] = f}) = 1

\* A call that returns has read exactly what its own command has written, all
\* of it and nothing of another thread's command.
OutputIsOwn ==
    \A t \in Threads :
        result[t] = "returned" => got[t] = [n \in 1 .. wrote[t] |-> t]

\* A call ends, if its command prints no more than the pipe holds: nobody reads
\* while spawn waits for the command, and this process keeps the write end
\* open while it reads.
SpawnEnds ==
    \A t \in Threads :
        pc[t] # "idle" /\ child[t].size <= Capacity
            ~> (pc[t] = "idle" \/ child[t].size > Capacity \/ ~alive)
=============================================================================
