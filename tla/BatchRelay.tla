----------------------------- MODULE BatchRelay -----------------------------
(***************************************************************************)
(* What a broker without rings promises, one that holds a single batch of  *)
(* each peer: the specification that AsyncBroker and LockstepBroker        *)
(* implement.                                                              *)
(*                                                                         *)
(* The UEs listen to the gNB, and the gNB to the UEs.  The relay fetches a *)
(* batch only when a listener waits for it, and never drops it: batches    *)
(* are forwarded to everyone who waits at that moment, and then they are   *)
(* gone, so none is forwarded twice, and nobody is answered without one.   *)
(* A reply that fails on its way cuts its peer off: it never waits again.  *)
(***************************************************************************)
EXTENDS Integers

CONSTANT NumUes

VARIABLES
  waiting, \* the peers that asked for samples
  held,    \* the peers whose batch was fetched and not yet forwarded
  cut      \* the peers that are served no more

relayVars == <<waiting, held, cut>>

Gnb   == 0
Ues   == 1 .. NumUes
Peers == 0 .. NumUes

Listeners(p) == IF p = Gnb THEN Ues ELSE {Gnb}

Init == waiting = {} /\ held = {} /\ cut = {}

TakeRequest(p) ==
  /\ p \notin waiting \cup cut
  /\ waiting' = waiting \cup {p}
  /\ UNCHANGED <<held, cut>>

FetchBatch(p) ==
  /\ p \notin held
  /\ Listeners(p) \cap waiting # {}
  /\ held' = held \cup {p}
  /\ UNCHANGED <<waiting, cut>>

\* The replies go to S, all of them or all but those that fail.
Reply(S) ==
  /\ S \cap waiting # {}
  /\ waiting' = waiting \ S
  /\ \E failed \in SUBSET (S \cap waiting) : cut' = cut \cup failed

ForwardToUes ==
  /\ Gnb \in held
  /\ held' = held \ {Gnb}
  /\ Reply(Ues)

\* The batches of all the UEs that have one, added up.
ForwardToGnb ==
  /\ Ues \cap held # {}
  /\ held' = held \ Ues
  /\ Reply({Gnb})

\* A reply that was still on its way when its batch was forwarded fails.
LoseReply(p) ==
  /\ p \notin waiting
  /\ cut' = cut \cup {p}
  /\ UNCHANGED <<waiting, held>>

Next ==
  \/ \E p \in Peers : TakeRequest(p) \/ FetchBatch(p) \/ LoseReply(p)
  \/ ForwardToUes
  \/ ForwardToGnb

Spec == Init /\ [][Next]_relayVars
=============================================================================
