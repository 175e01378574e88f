---------------------------- MODULE StreamRelay ----------------------------
(***************************************************************************)
(* What a broker made of streams promises: the specification that the GNU  *)
(* Radio scripts implement.                                                *)
(*                                                                         *)
(* The UEs of the cell listen to the gNB, and the gNB to the UEs.  The     *)
(* k-th message a peer is given is the sum of the k-th messages of those   *)
(* it listens to, each with the path loss of the UE at the other end, or   *)
(* at this one: none is left out or comes twice.  Messages are given only  *)
(* when all of them are there, and taken only as far ahead of the slowest  *)
(* listener as the buffers are large.                                      *)
(***************************************************************************)
EXTENDS Integers

CONSTANTS
  NumUes,
  DlWindow, \* how far a UE may fall behind the gNB
  UlWindow  \* how far the gNB may fall behind a UE

VARIABLES
  cell,  \* the peers that take part
  taken, \* taken[p]: how many messages p was relieved of
  given, \* given[p]: how many messages p was given
  last   \* last[p]: the signals in the last message p was given

relayVars == <<cell, taken, given, last>>

Gnb   == 0
Peers == 0 .. NumUes

\* Those p listens to, who are those that listen to p.
Partners(p) == {q \in cell : (q = Gnb) # (p = Gnb)}

Window(p) == IF p = Gnb THEN UlWindow ELSE DlWindow

\* The UE whose path loss the signal of q has at p.
LossBetween(q, p) == IF p = Gnb THEN q ELSE p

Init ==
  /\ cell \in SUBSET Peers
  /\ taken = [p \in Peers |-> 0]
  /\ given = [p \in Peers |-> 0]
  /\ last = [p \in Peers |-> {}]

TakeFrom(p) ==
  /\ \A q \in Partners(p) : taken[p] < given[q] + Window(q)
  /\ taken' = [taken EXCEPT ![p] = @ + 1]
  /\ UNCHANGED <<cell, given, last>>

GiveTo(p) ==
  /\ \A q \in Partners(p) : given[p] < taken[q]
  /\ given' = [given EXCEPT ![p] = @ + 1]
  /\ last' = [last EXCEPT ![p] =
       {[from |-> q, at |-> given'[p], loss |-> LossBetween(q, p)] : q \in Partners(p)}]
  /\ UNCHANGED <<cell, taken>>

Next == \E p \in cell : TakeFrom(p) \/ GiveTo(p)

Spec == Init /\ [][Next]_relayVars
=============================================================================
