------------------------ MODULE LockstepBrokerProofs ------------------------
(***************************************************************************)
(* LockstepBroker receives no batch in vain, for any number of restarts    *)
(* and of failed sends.                                                    *)
(***************************************************************************)
EXTENDS LockstepBroker, TLAPS

LEMMA PeerFacts ==
  /\ Peers = {0, 1}
  /\ Gnb = 0
  /\ \A p \in Peers : Other(p) \in Peers /\ Other(p) # p /\ Other(Other(p)) = p
<1>1. Peers = {0, 1} /\ Gnb = 0
  BY LockstepAssumption DEF Peers, Gnb
<1> QED BY <1>1 DEF Other

\* In this pass the code has looked for q's request.
Looked(q) ==
  \/ stage \in {"send", "recv"}
  \/ stage = "request" /\ q = Gnb /\ cur = 1

\* In this pass the code has tried to receive p's batch, not yet to forward it.
Fetched(p) ==
  \/ stage = "forward" /\ p >= cur
  \/ stage \in {"send", "recv"} /\ p = Gnb /\ cur = 1

\* A length other than -1, in this pass, is that of a request still unanswered.
SizesTell == \A q \in Peers : Looked(q) /\ size_rep[q] # None => rx_redy[q]

\* A batch that came in this pass is awaited, and no other is on its way.
FetchedAwaited ==
  \A p \in Peers : Fetched(p) /\ tx_samples_redy[p] =>
    pull[p] = "idle" /\ rx_redy[Other(p)]

IInv ==
  /\ TypeOK
  /\ RxMatchesSockets
  /\ BatchesAreAwaited
  /\ SizesTell
  /\ FetchedAwaited
  /\ NothingWasted

LEMMA LinksType ==
  ASSUME LinksTypeOK({Batch}), NEW p \in Peers,
         \/ ReqSend(p) \/ ReqRecv(p) \/ RepRecv(p) \/ RepSend(p)
         \/ PeerAnswer(p, Batch) \/ PeerAsk(p) \/ PeerRestart(p)
         \/ UNCHANGED linkVars
  PROVE  LinksTypeOK({Batch})'
<1> USE DEF LinksTypeOK, PullStates, AskStates
<1>1. CASE ReqSend(p)
  BY <1>1 DEF ReqSend, repVars
<1>2. CASE ReqRecv(p)
  BY <1>2 DEF ReqRecv, repVars
<1>3. CASE RepRecv(p)
  BY <1>3 DEF RepRecv, RequestQueued, reqVars
<1>4. CASE RepSend(p)
  BY <1>4 DEF RepSend, reqVars
<1>5. CASE PeerAnswer(p, Batch)
  BY <1>5 DEF PeerAnswer, repVars
<1>6. CASE PeerAsk(p)
  BY <1>6 DEF PeerAsk, reqVars
<1>7. CASE PeerRestart(p)
  BY <1>7, LinksAssumption DEF PeerRestart
<1>8. CASE UNCHANGED linkVars
  BY <1>8 DEF linkVars
<1> QED BY <1>1, <1>2, <1>3, <1>4, <1>5, <1>6, <1>7, <1>8

LEMMA InitIInv == Init => IInv
<1> SUFFICES ASSUME Init PROVE IInv
  OBVIOUS
<1>1. TypeOK
  BY LinksAssumption, LockstepAssumption, PeerFacts
  DEF Init, LinksInit, TypeOK, LinksTypeOK, Stages, PullStates, AskStates
<1> QED
  BY <1>1, PeerFacts
  DEF Init, LinksInit, IInv, RxMatchesSockets, BatchesAreAwaited, SizesTell,
      FetchedAwaited, NothingWasted, Looked, Fetched

\* Every step keeps the types.
LEMMA TypeStep == IInv /\ [Next]_vars => TypeOK'
<1> SUFFICES ASSUME IInv, [Next]_vars PROVE TypeOK'
  OBVIOUS
<1>0. ASSUME NEW x, SendRefused(x) PROVE failures' \in 0 .. MaxSendFailures
  BY <1>0, LockstepAssumption DEF SendRefused, IInv, TypeOK
<1> USE PeerFacts DEF IInv, TypeOK, Stages, Goto, histVars
<1>1. ASSUME NEW p \in Peers, TakeRequest(p) PROVE TypeOK'
  BY <1>1, LinksType DEF TakeRequest, AfterRequest
<1>2. ASSUME NEW p \in Peers, NoRequest(p) PROVE TypeOK'
  BY <1>2, LinksType DEF NoRequest, AfterRequest
<1>3. ASSUME NEW p \in Peers, RequestPending(p) PROVE TypeOK'
  BY <1>3, LinksType DEF RequestPending, AfterRequest
<1>4. ASSUME NEW p \in Peers, SendRequest(p) PROVE TypeOK'
  BY <1>0, <1>4, LinksType DEF SendRequest
<1>5. ASSUME NEW p \in Peers, GetBatch(p) PROVE TypeOK'
  BY <1>5, LinksType DEF GetBatch, AfterRecv
<1>6. ASSUME NEW p \in Peers, NoBatch(p) PROVE TypeOK'
  BY <1>6, LinksType DEF NoBatch, AfterRecv
<1>7. ASSUME NEW p \in Peers, Forward(p) PROVE TypeOK'
  BY <1>7, LinksType DEF Forward, AfterForward
<1>11. ASSUME NEW p \in Peers, LoseBatch(p) PROVE TypeOK'
  BY <1>0, <1>11, LinksType DEF LoseBatch, AfterForward
<1>8. ASSUME NEW p \in Peers, ForwardNothing(p) PROVE TypeOK'
  BY <1>8, LinksType DEF ForwardNothing, AfterForward
<1>9. ASSUME NEW p \in Peers, Answer(p) \/ Ask(p) \/ Restart(p) PROVE TypeOK'
  BY <1>9, LinksType DEF Answer, Ask, Restart, brokerVars, loopVars
<1>10. CASE UNCHANGED vars
  BY <1>10, LinksType DEF vars, loopVars
<1> QED
  BY <1>1, <1>2, <1>3, <1>4, <1>5, <1>6, <1>7, <1>8, <1>9, <1>10, <1>11
  DEF Next, BrokerNext, PeerNext

\* Every step keeps the rest of the invariant.
LEMMA RelayStep ==
  ASSUME IInv, [Next]_vars
  PROVE  /\ RxMatchesSockets'
         /\ BatchesAreAwaited'
         /\ SizesTell'
         /\ FetchedAwaited'
         /\ NothingWasted'
<1> DEFINE Inv == /\ RxMatchesSockets
                  /\ BatchesAreAwaited
                  /\ SizesTell
                  /\ FetchedAwaited
                  /\ NothingWasted
<1>1. /\ RxMatchesSockets /\ BatchesAreAwaited /\ SizesTell
      /\ FetchedAwaited /\ NothingWasted
      /\ pull \in [Peers -> PullStates] /\ busy \in [Peers -> BOOLEAN]
      /\ rx_redy \in [Peers -> BOOLEAN]
      /\ size_rep \in [Peers -> {None, 0, OneByte}]
      /\ tx_samples_redy \in [Peers -> BOOLEAN]
      /\ stage \in Stages /\ cur \in Peers
  BY DEF IInv, TypeOK, LinksTypeOK
<1> USE PeerFacts
    DEF RxMatchesSockets, BatchesAreAwaited, SizesTell, FetchedAwaited,
        NothingWasted, Looked, Fetched, Goto, At, Other, Stages, histVars
<1>2. ASSUME NEW p \in Peers, TakeRequest(p) PROVE Inv'
  BY <1>1, <1>2 DEF TakeRequest, RepRecv, RequestQueued, AfterRequest, reqVars
<1>3. ASSUME NEW p \in Peers, NoRequest(p) PROVE Inv'
  BY <1>1, <1>3 DEF NoRequest, AfterRequest, linkVars
<1>4. ASSUME NEW p \in Peers, RequestPending(p) PROVE Inv'
  BY <1>1, <1>4 DEF RequestPending, AfterRequest, linkVars
<1>5. ASSUME NEW p \in Peers, SendRequest(p) PROVE Inv'
  BY <1>1, <1>5 DEF SendRequest, CanAsk, ReqSend, repVars, linkVars
<1>6. ASSUME NEW p \in Peers, GetBatch(p) PROVE Inv'
  BY <1>1, <1>6 DEF GetBatch, AfterRecv, ReqRecv, repVars
<1>7. ASSUME NEW p \in Peers, NoBatch(p) PROVE Inv'
  BY <1>1, <1>7 DEF NoBatch, AfterRecv, linkVars
<1>8. ASSUME NEW p \in Peers, Forward(p) PROVE Inv'
  BY <1>1, <1>8 DEF Forward, AfterForward, RepSend, reqVars
<1>14. ASSUME NEW p \in Peers, LoseBatch(p) PROVE Inv'
  BY <1>1, <1>14 DEF LoseBatch, AfterForward, linkVars
<1>9. ASSUME NEW p \in Peers, ForwardNothing(p) PROVE Inv'
  BY <1>1, <1>9 DEF ForwardNothing, AfterForward, linkVars
<1>10. ASSUME NEW p \in Peers, Answer(p) PROVE Inv'
  BY <1>1, <1>10 DEF Answer, PeerAnswer, repVars, brokerVars, loopVars
<1>11. ASSUME NEW p \in Peers, Ask(p) PROVE Inv'
  BY <1>1, <1>11 DEF Ask, PeerAsk, reqVars, brokerVars, loopVars
<1>12. ASSUME NEW p \in Peers, Restart(p) PROVE Inv'
  BY <1>1, <1>12 DEF Restart, PeerRestart, brokerVars, loopVars
<1>13. CASE UNCHANGED vars
  BY <1>1, <1>13 DEF vars, loopVars, linkVars
<1> QED
  BY <1>2, <1>3, <1>4, <1>5, <1>6, <1>7, <1>8, <1>9, <1>10, <1>11, <1>12, <1>13,
     <1>14
  DEF Next, BrokerNext, PeerNext

LEMMA Invariance == Spec => []IInv
<1>1. IInv /\ [Next]_vars => IInv'
  BY TypeStep, RelayStep DEF IInv
<1> QED BY <1>1, InitIInv, PTL DEF Spec

\* Every variable keeps its type.
THEOREM TypeCorrect == Spec => []TypeOK
<1>1. IInv => TypeOK BY DEF IInv
<1> QED BY <1>1, Invariance, PTL

\* rx_redy tells the state of the REP sockets, but for one that owes a reply that
\* could not be sent.
THEOREM SocketsAgree == Spec => []RxMatchesSockets
<1>1. IInv => RxMatchesSockets BY DEF IInv
<1> QED BY <1>1, Invariance, PTL

\* A batch is on its way only while the other side waits for it.
THEOREM Awaited == Spec => []BatchesAreAwaited
<1>1. IInv => BatchesAreAwaited BY DEF IInv
<1> QED BY <1>1, Invariance, PTL

\* No batch is received in vain.
THEOREM NoWaste == Spec => []NothingWasted
<1>1. IInv => NothingWasted BY DEF IInv
<1> QED BY <1>1, Invariance, PTL
-----------------------------------------------------------------------------
(* LockstepBroker implements BatchRelay.                                   *)

LEMMA RelayNames ==
  /\ Relay!Gnb = 0 /\ Relay!Ues = {1} /\ Relay!Peers = {0, 1}
  /\ Relay!Listeners(0) = {1} /\ Relay!Listeners(1) = {0}
<1>1. NumUes = 1 BY LockstepAssumption
<1>2. 1 .. 1 = {1} /\ 0 .. 1 = {0, 1} OBVIOUS
<1> QED
  BY <1>1, <1>2 DEF Relay!Gnb, Relay!Ues, Relay!Peers, Relay!Listeners

LEMMA RelayInit == Init => Relay!Init
  BY PeerFacts DEF Init, Relay!Init, Waiting, Held

\* Taking a request, fetching a batch and forwarding it are steps of the relay,
\* all others are none: no batch is given up, since none is wasted.
LEMMA RelayRefines ==
  ASSUME IInv, [Next]_vars
  PROVE  [Relay!Next]_(Relay!relayVars)
<1> DEFINE Step == [Relay!Next]_(Relay!relayVars)
           Same == Waiting' = Waiting /\ Held' = Held /\ unsent' = unsent
<1>0. Same => Step BY DEF Relay!relayVars
<1>1. /\ RxMatchesSockets /\ BatchesAreAwaited /\ FetchedAwaited
      /\ rx_redy \in [Peers -> BOOLEAN]
      /\ tx_samples_redy \in [Peers -> BOOLEAN]
      /\ stage \in Stages /\ cur \in Peers
  BY DEF IInv, TypeOK
<1> USE PeerFacts DEF At, Goto, Stages, histVars
<1>2. ASSUME NEW p \in Peers, TakeRequest(p) PROVE Step
  <2>1. Waiting' = Waiting \cup {p} /\ p \notin Waiting
    BY <1>1, <1>2 DEF TakeRequest, Waiting
  <2>2. Held' = Held /\ unsent' = unsent
    BY <1>1, <1>2 DEF TakeRequest, AfterRequest, Held
  <2>3. p \notin unsent
    BY <1>1, <1>2 DEF TakeRequest, RepRecv, RequestQueued, RxMatchesSockets
  <2> QED BY <2>1, <2>2, <2>3, RelayNames DEF Relay!Next, Relay!TakeRequest
<1>3. ASSUME NEW p \in Peers, NoRequest(p) \/ RequestPending(p) PROVE Same
  BY <1>1, <1>3 DEF NoRequest, RequestPending, AfterRequest, Waiting, Held
<1>4. ASSUME NEW p \in Peers, SendRequest(p) PROVE Same
  BY <1>1, <1>4 DEF SendRequest, Waiting, Held
<1>5. ASSUME NEW p \in Peers, GetBatch(p) PROVE Step
  <2>1. /\ Waiting' = Waiting /\ Held' = Held \cup {p} /\ p \notin Held
        /\ unsent' = unsent
    BY <1>1, <1>5 DEF GetBatch, AfterRecv, Waiting, Held
  <2>2. Other(p) \in Waiting
    BY <1>1, <1>5 DEF GetBatch, ReqRecv, BatchesAreAwaited, Waiting
  <2> QED
    BY <2>1, <2>2, RelayNames DEF Relay!Next, Relay!FetchBatch, Other
<1>6. ASSUME NEW p \in Peers, NoBatch(p) PROVE Same
  BY <1>1, <1>6 DEF NoBatch, AfterRecv, Waiting, Held
<1>7. ASSUME NEW p \in Peers, Forward(p) \/ LoseBatch(p) PROVE Step
  <2>1. Waiting' = Waiting \ {Other(p)} /\ Other(p) \in Waiting
    BY <1>1, <1>7 DEF Forward, LoseBatch, Waiting
  <2>2. Held' = Held \ {p} /\ p \in Held
    BY <1>1, <1>7 DEF Forward, LoseBatch, AfterForward, Held
  <2>3. \E failed \in SUBSET ({Other(p)} \cap Waiting) :
          unsent' = unsent \cup failed
    <3>1. CASE Forward(p)
      <4>1. /\ {} \in SUBSET ({Other(p)} \cap Waiting)
            /\ unsent' = unsent \cup {}
        BY <3>1 DEF Forward
      <4> QED BY <4>1
    <3>2. CASE LoseBatch(p)
      BY <2>1, <3>2 DEF LoseBatch
    <3> QED BY <1>7, <3>1, <3>2
  <2> QED
    BY <2>1, <2>2, <2>3, RelayNames
    DEF Relay!Next, Relay!ForwardToUes, Relay!ForwardToGnb, Relay!Reply, Other
<1>8. ASSUME NEW p \in Peers, ForwardNothing(p) PROVE Same
  <2>1. ~tx_samples_redy[p]
    BY <1>1, <1>8 DEF ForwardNothing, FetchedAwaited, Fetched
  <2> QED
    BY <1>1, <1>8, <2>1 DEF ForwardNothing, AfterForward, Waiting, Held
<1>9. ASSUME NEW p \in Peers, Answer(p) \/ Ask(p) \/ Restart(p) PROVE Same
  BY <1>9 DEF Answer, Ask, Restart, brokerVars, loopVars, Waiting, Held
<1>10. CASE UNCHANGED vars
  <2>1. Same BY <1>10 DEF vars, loopVars, Waiting, Held
  <2> QED BY <1>0, <2>1
<1> QED
  BY <1>0, <1>2, <1>3, <1>4, <1>5, <1>6, <1>7, <1>8, <1>9, <1>10
  DEF Next, BrokerNext, PeerNext

\* The first broker implements the relay of batches, however often peers restart
\* and replies fail.
THEOREM ImplementsRelay == Spec => RelaySpec
<1> QED
  BY Invariance, RelayInit, RelayRefines, PTL DEF Spec, RelaySpec, Relay!Spec
=============================================================================
