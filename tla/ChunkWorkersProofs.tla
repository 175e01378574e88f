------------------------- MODULE ChunkWorkersProofs -------------------------
(***************************************************************************)
(* The work of parallel_push and parallel_pull is divided without overlap  *)
(* and without a remainder, for any number of UEs and of hardware threads. *)
(***************************************************************************)
EXTENDS ChunkWorkers, TLAPS

(* The arithmetic of the chunks.                                           *)

\* The chunks are as many as the threads and reach to the end of the vector.
LEMMA ChunkFacts ==
  /\ num_threads \in Nat \ {0}
  /\ num_threads <= NumUes
  /\ chunk_size \in Nat \ {0}
  /\ num_threads * chunk_size >= NumUes
<1>1. num_threads \in Nat \ {0} /\ num_threads <= NumUes
  BY ChunkAssumption DEF num_threads, Smaller
<1> DEFINE k == num_threads
           a == NumUes + k - 1
<1>2. /\ a \div k \in Nat
      /\ k * (a \div k) <= a
      /\ a < k * (a \div k) + k
  <2>1. a \in Nat /\ k \in Nat \ {0}
    BY <1>1, ChunkAssumption
  <2> HIDE DEF a, k
  <2> QED BY <2>1
<1>3. chunk_size = a \div k
  BY DEF chunk_size
<1> HIDE DEF k
<1>4. k * chunk_size >= NumUes
  BY <1>1, <1>2, <1>3, ChunkAssumption DEF k
<1>5. chunk_size # 0
  BY <1>1, <1>4, ChunkAssumption DEF k
<1> QED BY <1>1, <1>2, <1>3, <1>4, <1>5 DEF k

LEMMA StartFacts ==
  ASSUME NEW t \in Threads
  PROVE  /\ Start(t) \in Nat
         /\ Start(t + 1) = Start(t) + chunk_size
         /\ End(t) \in Nat
         /\ End(t) <= Start(t) + chunk_size
         /\ End(t) <= NumUes
         /\ t \in Nat
<1>1. t \in Nat /\ chunk_size \in Nat
  BY ChunkFacts DEF Threads
<1>2. t * chunk_size \in Nat /\ (t + 1) * chunk_size = t * chunk_size + chunk_size
  BY <1>1
<1> QED BY <1>1, <1>2, ChunkAssumption DEF Start, End, Smaller

\* Chunks of different threads have nothing in common.
THEOREM ChunksDisjoint ==
  ASSUME NEW s \in Threads, NEW t \in Threads, s < t
  PROVE  End(s) <= Start(t)
<1>1. s \in Nat /\ t \in Nat /\ chunk_size \in Nat /\ s + 1 <= t
  BY ChunkFacts DEF Threads
<1>2. (s + 1) * chunk_size <= t * chunk_size
  BY <1>1
<1>3. End(s) <= (s + 1) * chunk_size
  BY <1>1, StartFacts DEF Start
<1> QED BY <1>1, <1>2, <1>3, StartFacts DEF Start

\* Every UE is in the chunk of some thread.
THEOREM ChunksCover ==
  ASSUME NEW i \in Indices
  PROVE  \E t \in Threads : Start(t) <= i /\ i < End(t)
<1> DEFINE t == i \div chunk_size
<1>1. i \in Nat /\ i < NumUes /\ chunk_size \in Nat \ {0}
  BY ChunkFacts, ChunkAssumption DEF Indices
<1>2. t \in Nat /\ chunk_size * t <= i /\ i < chunk_size * t + chunk_size
  BY <1>1
<1> HIDE DEF t
<1>3. t < num_threads
  <2> SUFFICES ASSUME t >= num_threads PROVE FALSE
    BY <1>2, ChunkFacts
  <2>1. t * chunk_size >= num_threads * chunk_size
    BY <1>1, <1>2, ChunkFacts
  <2>2. t * chunk_size = chunk_size * t
    BY <1>1, <1>2
  <2> QED BY <1>1, <1>2, <2>1, <2>2, ChunkFacts, ChunkAssumption
<1>4. t \in Threads
  BY <1>2, <1>3, ChunkFacts DEF Threads
<1>5. Start(t) <= i /\ i < End(t)
  <2>1. t * chunk_size = chunk_size * t
    BY <1>1, <1>2
  <2> QED BY <1>1, <1>2, <2>1, ChunkAssumption DEF Start, End, Smaller
<1> QED BY <1>4, <1>5

-----------------------------------------------------------------------------
(* The threads.                                                            *)

\* What a thread has passed is done once, and what lies ahead is not done.
Progress ==
  \A t \in Threads :
    /\ at[t] >= Start(t)
    /\ inside[t] => at[t] < End(t)
    /\ \A i \in Indices : Start(t) <= i /\ i < End(t) =>
         worked[i] = IF i < at[t] THEN 1 ELSE 0

JoinedFinished == \A t \in Threads : t < joined => Finished(t)

IInv == TypeOK /\ Progress /\ JoinedFinished

LEMMA InitIInv == Init => IInv
<1> SUFFICES ASSUME Init PROVE IInv
  OBVIOUS
<1>1. TypeOK
  BY ChunkFacts, StartFacts DEF Init, TypeOK
<1>2. Progress
  BY StartFacts DEF Init, Progress, Indices
<1>3. JoinedFinished
  BY DEF Init, JoinedFinished, Threads
<1> QED BY <1>1, <1>2, <1>3 DEF IInv

LEMMA StepIInv == IInv /\ [Next]_vars => IInv'
<1> SUFFICES ASSUME IInv, [Next]_vars PROVE IInv'
  OBVIOUS
<1> USE DEF IInv
<1>1. CASE Spawn
  BY <1>1, ChunkFacts
  DEF Spawn, TypeOK, Progress, JoinedFinished, Finished
<1>2. CASE Join
  <2>1. joined \in Threads
    BY <1>2, ChunkFacts DEF Join, TypeOK, Threads
  <2>2. TypeOK' /\ Progress'
    BY <1>2, ChunkFacts DEF Join, TypeOK, Progress
  <2>3. JoinedFinished'
    <3> SUFFICES ASSUME NEW t \in Threads, t < joined' PROVE Finished(t)'
      BY DEF JoinedFinished
    <3>1. t < joined \/ t = joined
      BY <1>2 DEF Join, TypeOK, Threads
    <3> QED BY <1>2, <3>1 DEF Join, JoinedFinished, Finished
  <2> QED BY <2>2, <2>3
<1>3. ASSUME NEW t \in Threads, Enter(t) PROVE IInv'
  <2>1. TypeOK' /\ JoinedFinished'
    BY <1>3 DEF Enter, TypeOK, JoinedFinished, Finished
  <2>2. Progress'
    BY <1>3, StartFacts DEF Enter, TypeOK, Progress, Finished
  <2> QED BY <2>1, <2>2
<1>4. ASSUME NEW t \in Threads, Leave(t) PROVE IInv'
  <2>1. /\ at[t] \in Nat /\ Start(t) <= at[t] /\ at[t] < End(t)
        /\ at[t] \in Indices
    BY <1>4, StartFacts, ChunkAssumption DEF Leave, TypeOK, Progress, Indices
  <2>2. /\ at'[t] = at[t] + 1
        /\ \A s \in Threads \ {t} : at'[s] = at[s] /\ inside'[s] = inside[s]
        /\ ~inside'[t]
        /\ worked'[at[t]] = worked[at[t]] + 1
        /\ \A i \in Indices \ {at[t]} : worked'[i] = worked[i]
    BY <1>4, <2>1 DEF Leave, TypeOK
  <2>3. TypeOK'
    BY <1>4, <2>1 DEF Leave, TypeOK
  <2>4. Progress'
    <3> SUFFICES ASSUME NEW s \in Threads
                 PROVE  /\ at'[s] >= Start(s)
                        /\ inside'[s] => at'[s] < End(s)
                        /\ \A i \in Indices : Start(s) <= i /\ i < End(s) =>
                             worked'[i] = IF i < at'[s] THEN 1 ELSE 0
      BY DEF Progress
    <3>1. CASE s = t
      BY <2>1, <2>2, <3>1, StartFacts DEF Progress, Indices
    <3>2. CASE s # t
      <4>1. ~(Start(s) <= at[t] /\ at[t] < End(s))
        <5>1. s \in Int /\ t \in Int
          BY StartFacts
        <5>2. CASE s < t
          BY <2>1, <5>2, ChunksDisjoint, StartFacts
        <5>3. CASE t < s
          BY <2>1, <5>3, ChunksDisjoint, StartFacts
        <5> QED BY <3>2, <5>1, <5>2, <5>3
      <4> QED BY <2>2, <3>2, <4>1 DEF Progress
    <3> QED BY <3>1, <3>2
  <2>5. JoinedFinished'
    BY <1>4, <2>1, <2>2, StartFacts DEF Leave, JoinedFinished, Finished
  <2> QED BY <2>3, <2>4, <2>5
<1>5. CASE UNCHANGED vars
  BY <1>5 DEF vars, TypeOK, Progress, JoinedFinished, Finished
<1> QED BY <1>1, <1>2, <1>3, <1>4, <1>5 DEF Next, Done

LEMMA IInvNoRace == IInv => NoRace
<1> SUFFICES ASSUME IInv PROVE NoRace
  OBVIOUS
<1>1. ASSUME NEW t \in Threads, inside[t]
      PROVE  Start(t) <= at[t] /\ at[t] < End(t) /\ at[t] \in Indices
  BY <1>1, StartFacts, ChunkAssumption DEF IInv, TypeOK, Progress, Indices
<1>2. ASSUME NEW s \in Threads, NEW t \in Threads, s < t, inside[s], inside[t]
      PROVE  at[s] # at[t]
  BY <1>1, <1>2, ChunksDisjoint, StartFacts DEF Indices
<1>3. \A s, t \in Threads : s # t => s < t \/ t < s
  BY ChunkFacts DEF Threads
<1> QED BY <1>1, <1>2, <1>3 DEF NoRace

LEMMA IInvEachUeOnce == IInv => EachUeOnce
<1> SUFFICES ASSUME IInv, Returned
             PROVE  /\ \A i \in Indices : worked[i] = 1
                    /\ \A t \in Threads : ~inside[t]
  BY DEF EachUeOnce
<1>1. \A t \in Threads : Finished(t)
  BY ChunkFacts DEF IInv, JoinedFinished, Returned, Threads
<1>2. ASSUME NEW i \in Indices PROVE worked[i] = 1
  <2>1. PICK t \in Threads : Start(t) <= i /\ i < End(t)
    BY ChunksCover
  <2>2. i < at[t]
    BY <1>1, <2>1, StartFacts DEF IInv, TypeOK, Finished, Indices
  <2> QED BY <2>1, <2>2 DEF IInv, Progress
<1>3. \A t \in Threads : ~inside[t]
  BY <1>1 DEF IInv, Progress, Finished
<1> QED BY <1>2, <1>3

\* Every variable keeps its type.
THEOREM TypeCorrect == Spec => []TypeOK
<1>1. IInv => TypeOK BY DEF IInv
<1> QED BY <1>1, InitIInv, StepIInv, PTL DEF Spec

\* No two threads of parallel_push or parallel_pull touch one UePath at once,
\* and none reaches beyond the vector.
THEOREM ThreadsDoNotRace == Spec => []NoRace
  BY InitIInv, StepIInv, IInvNoRace, PTL DEF Spec

\* When parallel_push or parallel_pull returns, the work on every UE has been
\* done once and no thread is left.
THEOREM WorkDoneOnce == Spec => []EachUeOnce
  BY InitIInv, StepIInv, IInvEachUeOnce, PTL DEF Spec
=============================================================================
