---------------------------- MODULE ChunkWorkers ----------------------------
(***************************************************************************)
(* parallel_push and parallel_pull of src/zmq_broker/broker.cpp: main      *)
(* starts threads, each of which works on a chunk of the vector of UEs,    *)
(* and joins them all.  The threads take no lock: that no two of them      *)
(* touch one UePath, that none is left out, and that main reads the rings  *)
(* only afterwards rests on the arithmetic of the chunks and on the join.  *)
(*                                                                         *)
(* The UEs are numbered from 0, as in the vector.                          *)
(***************************************************************************)
EXTENDS Integers

CONSTANTS
  NumUes,              \* ues.size()
  hardware_concurrency \* what std::thread::hardware_concurrency returns

\* With no UE, or with a hardware_concurrency of 0 (which the C++ standard
\* allows), the code divides by zero.
ASSUME ChunkAssumption ==
  /\ NumUes \in Nat \ {0}
  /\ hardware_concurrency \in Nat \ {0}

Smaller(a, b) == IF a <= b THEN a ELSE b

num_threads == Smaller(hardware_concurrency, NumUes)
\* Mutant: the quotient is rounded down.
chunk_size_down == NumUes \div num_threads

chunk_size == (NumUes + num_threads - 1) \div num_threads

Indices == 0 .. NumUes - 1
Threads == 0 .. num_threads - 1

\* The chunk of thread t; it may start behind its end, and then it is empty.
Start(t) == t * chunk_size

\* Mutant: the chunk takes in the first UE of the next.
EndInclusive(t) == Smaller(Start(t) + chunk_size + 1, NumUes)

End(t) == Smaller(Start(t) + chunk_size, NumUes)

VARIABLES
  started, \* threads main has started
  joined,  \* threads main has joined
  at,      \* at[t]: the loop variable i of thread t
  inside,  \* inside[t]: t is working on ues[at[t]]
  worked   \* worked[i]: how often the work on ues[i] was done

vars == <<started, joined, at, inside, worked>>

Init ==
  /\ started = 0
  /\ joined = 0
  /\ at = [t \in Threads |-> Start(t)]
  /\ inside = [t \in Threads |-> FALSE]
  /\ worked = [i \in Indices |-> 0]

\* threads.emplace_back
Spawn ==
  /\ started < num_threads
  /\ started' = started + 1
  /\ UNCHANGED <<joined, at, inside, worked>>

Finished(t) == ~(at[t] < End(t))

\* Mutant: the last thread is not joined.
JoinAllButLast ==
  /\ started = num_threads
  /\ joined < num_threads - 1
  /\ Finished(joined)
  /\ joined' = joined + 1
  /\ UNCHANGED <<started, at, inside, worked>>

\* th.join
Join ==
  /\ started = num_threads
  /\ joined < num_threads
  /\ Finished(joined)
  /\ joined' = joined + 1
  /\ UNCHANGED <<started, at, inside, worked>>

\* Thread t turns to the next UE of its chunk,
Enter(t) ==
  /\ t < started
  /\ ~inside[t]
  /\ ~Finished(t)
  /\ inside' = [inside EXCEPT ![t] = TRUE]
  /\ UNCHANGED <<started, joined, at, worked>>

\* and scales and pushes (or pops and scales) its samples.
Leave(t) ==
  /\ inside[t]
  /\ worked' = [worked EXCEPT ![at[t]] = @ + 1]
  /\ at' = [at EXCEPT ![t] = @ + 1]
  /\ inside' = [inside EXCEPT ![t] = FALSE]
  /\ UNCHANGED <<started, joined>>

\* parallel_push has returned.
Returned == joined = num_threads

Done == Returned /\ UNCHANGED vars

Next ==
  \/ Spawn
  \/ Join
  \/ \E t \in Threads : Enter(t) \/ Leave(t)
  \/ Done

Spec == Init /\ [][Next]_vars

\* The operating system runs every thread.
FairSpec ==
  /\ Spec
  /\ WF_vars(Spawn \/ Join)
  /\ \A t \in Threads : WF_vars(Enter(t) \/ Leave(t))

-----------------------------------------------------------------------------

TypeOK ==
  /\ started \in 0 .. num_threads
  /\ joined \in 0 .. num_threads
  /\ at \in [Threads -> Nat]
  /\ inside \in [Threads -> BOOLEAN]
  /\ worked \in [Indices -> Nat]

\* No two threads are at the same UePath, and none is beyond the vector.
NoRace ==
  /\ \A t \in Threads : inside[t] => at[t] \in Indices
  /\ \A s, t \in Threads : s # t /\ inside[s] /\ inside[t] => at[s] # at[t]

\* When the call returns, the work on every UE was done exactly once, and no
\* thread is running that could still touch a ring.
EachUeOnce ==
  Returned => /\ \A i \in Indices : worked[i] = 1
              /\ \A t \in Threads : ~inside[t]

\* The call returns.
Returns == <>Returned
=============================================================================
