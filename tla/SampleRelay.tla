---------------------------- MODULE SampleRelay ----------------------------
(***************************************************************************)
(* What a relay of radio samples between one gNB and NumUes UEs promises,  *)
(* whatever its rings, sockets and threads: the specification that         *)
(* RingBroker implements.                                                  *)
(*                                                                         *)
(* The peers hand samples to the relay.  The relay hands them on a slot at *)
(* a time, each slot a run of consecutive samples, in the order of the     *)
(* stream, no sample twice and none older than Depth samples.  An uplink   *)
(* slot takes one slot of every UE at once.  The relay may leave samples   *)
(* out.                                                                    *)
(***************************************************************************)
EXTENDS Integers

CONSTANTS
  NumUes,
  Slot,  \* samples per slot
  Depth  \* how many samples back a relayed slot may start

VARIABLES
  accepted, \* accepted[p]: samples received from p
  lastDl,   \* lastDl[u]: the last sample of the gNB relayed to UE u
  lastUl    \* lastUl[u]: the last sample of UE u relayed to the gNB

relayVars == <<accepted, lastDl, lastUl>>

Gnb   == 0
Ues   == 1 .. NumUes
Peers == 0 .. NumUes

Init ==
  /\ accepted = [p \in Peers |-> 0]
  /\ lastDl = [u \in Ues |-> 0]
  /\ lastUl = [u \in Ues |-> 0]

\* The slot that ends with sample last of p may follow the one that ended
\* with sample prev.
MayFollow(p, prev, last) ==
  /\ prev + Slot <= last
  /\ last <= accepted[p]
  /\ last - Slot >= accepted[p] - Depth

Accept(p) ==
  /\ accepted' \in [Peers -> Nat]
  /\ accepted'[p] > accepted[p]
  /\ \A q \in Peers \ {p} : accepted'[q] = accepted[q]
  /\ UNCHANGED <<lastDl, lastUl>>

RelayToUe(u) ==
  /\ lastDl' \in [Ues -> Nat]
  /\ MayFollow(Gnb, lastDl[u], lastDl'[u])
  /\ \A v \in Ues \ {u} : lastDl'[v] = lastDl[v]
  /\ UNCHANGED <<accepted, lastUl>>

RelayToGnb ==
  /\ lastUl' \in [Ues -> Nat]
  /\ \A u \in Ues : MayFollow(u, lastUl[u], lastUl'[u])
  /\ UNCHANGED <<accepted, lastDl>>

Next ==
  \/ \E p \in Peers : Accept(p)
  \/ \E u \in Ues : RelayToUe(u)
  \/ RelayToGnb

Spec == Init /\ [][Next]_relayVars
=============================================================================
