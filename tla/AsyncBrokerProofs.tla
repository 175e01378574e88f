------------------------- MODULE AsyncBrokerProofs -------------------------
(***************************************************************************)
(* Theorems about AsyncBroker, for any number of UEs, any number of        *)
(* restarts and failed sends, and any width of the count.                  *)
(***************************************************************************)
EXTENDS AsyncBroker, FiniteSetTheorems, TLAPS

LEMMA PeerFacts ==
  /\ Gnb \in Peers
  /\ Gnb = 0
  /\ Ues \subseteq Peers
  /\ Gnb \notin Ues
  /\ Peers \subseteq Nat
  /\ \A u \in Ues : u >= 1 /\ u <= NumUes
  /\ \A p \in Peers : p # Gnb => p \in Ues
  /\ 1 \in Ues
  BY LinksAssumption DEF Gnb, Peers, Ues

(* The count.                                                              *)

Ready == {u \in Ues : rx_ready[u]}

LEMMA ReadyFacts ==
  /\ Cardinality(Ready) \in 0 .. NumUes
  /\ Ready = {} => Cardinality(Ready) = 0
<1>1. IsFiniteSet(Ues) /\ Cardinality(Ues) = NumUes
  BY FS_Interval, LinksAssumption DEF Ues
<1>2. Ready \subseteq Ues
  BY DEF Ready
<1>3. Cardinality(Ready) \in Nat /\ Cardinality(Ready) <= NumUes
  BY <1>1, <1>2, FS_Subset, FS_CardinalityType
<1> QED BY <1>3, FS_EmptySet, LinksAssumption

\* The count stays an int, and is not moved by a check that finds nobody.
LEMMA CountFacts ==
  ASSUME all_ues_rxes_ready \in -(IntMax + 1) .. IntMax, CountRxes
  PROVE  /\ all_ues_rxes_ready' \in -(IntMax + 1) .. IntMax
         /\ Ready = {} => all_ues_rxes_ready' = all_ues_rxes_ready
<1>1. all_ues_rxes_ready' = Wrap(all_ues_rxes_ready + Cardinality(Ready))
  BY DEF CountRxes, Ready
<1> QED
  BY <1>1, ReadyFacts, LinksAssumption, AsyncAssumption DEF Wrap

-----------------------------------------------------------------------------
(* The inductive invariant.                                                *)

LoopTypeOK ==
  /\ stage \in Stages
  /\ cur \in Peers
  /\ stage = "dlsend" => cur \in Ues
  /\ stage \in {"check", "dl", "ul"} => cur = Gnb

DataTypeOK ==
  /\ rx_ready \in [Peers -> BOOLEAN]
  /\ tx_samples_ready \in [Peers -> BOOLEAN]
  /\ samples_to_transmit \in [Peers -> Contents]
  /\ all_ues_rxes_ready \in -(IntMax + 1) .. IntMax

SendTypeOK ==
  /\ failures \in 0 .. MaxSendFailures
  /\ unsent \subseteq Peers
  /\ unasked \subseteq Peers

LEMMA TypeParts ==
  TypeOK <=> LinksTypeOK({Batch}) /\ LoopTypeOK /\ DataTypeOK /\ SendTypeOK
  BY DEF TypeOK, LoopTypeOK, DataTypeOK, SendTypeOK

\* A UE is asked for its batch only while the gNB waits.
AskedForGnb == stage \in {"send", "recv"} /\ cur \in Ues => rx_ready[Gnb]

\* A request cleared the buffer, and it stays clear until the reply.
AskedBuffersClear ==
  \A u \in Ues : pull[u] # "idle" => samples_to_transmit[u] = "zeros"

\* In this pass u was asked, or had been asked before.
Passed(u) ==
  \/ stage \in {"dl", "dlsend", "ul"}
  \/ stage = "send" /\ cur > u
  \/ stage = "recv" /\ cur >= u

\* A batch that was forwarded is cleared, unless the request failed.
PassedBuffersUnused ==
  rx_ready[Gnb] =>
    \A u \in Ues :
      Passed(u) /\ samples_to_transmit[u] = "used" => u \in unasked

FlagsMatchBuffers ==
  \A p \in Peers : tx_samples_ready[p] <=> samples_to_transmit[p] = "fresh"

BatchInv ==
  /\ FlagsMatchSockets
  /\ UlNeverDropped
  /\ AskedForGnb
  /\ AskedBuffersClear
  /\ PassedBuffersUnused
  /\ FlagsMatchBuffers

IInv == TypeOK /\ BatchInv /\ DlSomeoneWaits

LEMMA InitIInv == Init => IInv
<1> SUFFICES ASSUME Init PROVE IInv
  OBVIOUS
<1>1. TypeOK
  BY LinksAssumption, AsyncAssumption, PeerFacts
  DEF Init, LinksInit, TypeOK, LinksTypeOK, Stages, PullStates, AskStates,
      Contents
<1>2. BatchInv
  BY PeerFacts
  DEF Init, LinksInit, BatchInv, FlagsMatchSockets, UlNeverDropped,
      SomeUeReady, AskedForGnb, AskedBuffersClear, PassedBuffersUnused,
      Passed, FlagsMatchBuffers
<1>3. DlSomeoneWaits
  BY DEF Init, DlSomeoneWaits
<1> QED BY <1>1, <1>2, <1>3 DEF IInv

LEMMA LinksType ==
  ASSUME LinksTypeOK({Batch}), NEW p \in Peers,
         \/ ReqSend(p) \/ ReqRecv(p) \/ RepRecv(p) \/ RepSend(p)
         \/ PeerAnswer(p, Batch) \/ PeerAsk(p) \/ PeerRestart(p)
         \/ UNCHANGED linkVars
  PROVE  LinksTypeOK({Batch})'
<1> USE DEF LinksTypeOK, PullStates, AskStates
<1>1. CASE ReqSend(p)
  BY <1>1 DEF ReqSend, repVars
<1>2. CASE ReqRecv(p)
  BY <1>2 DEF ReqRecv, repVars
<1>3. CASE RepRecv(p)
  BY <1>3 DEF RepRecv, RequestQueued, reqVars
<1>4. CASE RepSend(p)
  BY <1>4 DEF RepSend, reqVars
<1>5. CASE PeerAnswer(p, Batch)
  BY <1>5 DEF PeerAnswer, repVars
<1>6. CASE PeerAsk(p)
  BY <1>6 DEF PeerAsk, reqVars
<1>7. CASE PeerRestart(p)
  BY <1>7, LinksAssumption DEF PeerRestart
<1>8. CASE UNCHANGED linkVars
  BY <1>8 DEF linkVars
<1> QED BY <1>1, <1>2, <1>3, <1>4, <1>5, <1>6, <1>7, <1>8

\* Every step keeps the types of the failures.
LEMMA SendTypeStep ==
  ASSUME IInv, [Next]_vars
  PROVE  SendTypeOK'
<1>1. SendTypeOK
  BY TypeParts DEF IInv
<1>2. ASSUME NEW x, SendRefused(x) PROVE failures' \in 0 .. MaxSendFailures
  BY <1>1, <1>2, AsyncAssumption DEF SendRefused, SendTypeOK
<1> USE PeerFacts DEF SendTypeOK, sendVars
<1>3. ASSUME NEW p \in Peers,
             \/ TakeRequest(p) \/ NoRequest(p) \/ BatchWaits(p)
             \/ GetBatch(p) \/ NoBatch(p)
      PROVE  SendTypeOK'
  BY <1>1, <1>3 DEF TakeRequest, NoRequest, BatchWaits, GetBatch, NoBatch
<1>4. ASSUME NEW p \in Peers, AskForBatch(p) PROVE SendTypeOK'
  BY <1>1, <1>4 DEF AskForBatch
<1>5. ASSUME NEW p \in Peers, AskRefused(p) PROVE SendTypeOK'
  BY <1>1, <1>2, <1>5 DEF AskRefused
<1>6. CASE CheckRxes \/ DecideDl \/ NoUplink \/ SendToGnb
  BY <1>1, <1>6 DEF CheckRxes, DecideDl, NoUplink, SendToGnb
<1>7. ASSUME NEW u \in Ues, SendToUe(u) \/ PassOverUe(u) PROVE SendTypeOK'
  BY <1>1, <1>7 DEF SendToUe, PassOverUe
<1>8. ASSUME NEW u \in Ues, LoseUeBatch(u) PROVE SendTypeOK'
  BY <1>1, <1>2, <1>8 DEF LoseUeBatch
<1>9. CASE LoseGnbBatches
  BY <1>1, <1>2, <1>9 DEF LoseGnbBatches
<1>10. ASSUME NEW p \in Peers, Answer(p) \/ Ask(p) \/ Restart(p)
       PROVE  SendTypeOK'
  BY <1>1, <1>10 DEF Answer, Ask, Restart, brokerVars
<1>11. CASE UNCHANGED vars
  BY <1>1, <1>11 DEF vars
<1> QED
  BY <1>3, <1>4, <1>5, <1>6, <1>7, <1>8, <1>9, <1>10, <1>11
  DEF Next, BrokerNext, PeerNext

\* Every step keeps the types of the rest.
LEMMA TypeStep ==
  ASSUME IInv, [Next]_vars
  PROVE  LinksTypeOK({Batch})' /\ LoopTypeOK' /\ DataTypeOK'
<1> DEFINE Parts == LinksTypeOK({Batch})' /\ LoopTypeOK' /\ DataTypeOK'
<1>1. LinksTypeOK({Batch}) /\ LoopTypeOK /\ DataTypeOK
  BY TypeParts DEF IInv
<1> USE LinksAssumption, PeerFacts DEF LoopTypeOK, DataTypeOK, Stages, Goto, Contents
<1>2. ASSUME NEW p \in Peers, TakeRequest(p) \/ NoRequest(p) PROVE Parts
  <2>1. LinksTypeOK({Batch})'
    BY <1>1, <1>2, LinksType DEF TakeRequest, NoRequest
  <2>2. LoopTypeOK'
    BY <1>1, <1>2 DEF TakeRequest, NoRequest, AfterRequest, Peers
  <2>3. DataTypeOK'
    BY <1>1, <1>2 DEF TakeRequest, NoRequest, equipmentVars
  <2> QED BY <2>1, <2>2, <2>3
<1>3. ASSUME NEW p \in Peers, AskForBatch(p) \/ BatchWaits(p) \/ AskRefused(p)
      PROVE  Parts
  <2>1. LinksTypeOK({Batch})'
    BY <1>1, <1>3, LinksType DEF AskForBatch, BatchWaits, AskRefused
  <2>2. LoopTypeOK'
    BY <1>1, <1>3 DEF AskForBatch, BatchWaits, AskRefused
  <2>3. DataTypeOK'
    <3>1. CASE AskForBatch(p)
      BY <1>1, <3>1 DEF AskForBatch
    <3>2. CASE BatchWaits(p) \/ AskRefused(p)
      BY <1>1, <3>2 DEF BatchWaits, AskRefused, equipmentVars
    <3> QED BY <1>3, <3>1, <3>2
  <2> QED BY <2>1, <2>2, <2>3
<1>4. ASSUME NEW p \in Peers, GetBatch(p) \/ NoBatch(p) PROVE Parts
  <2>1. LinksTypeOK({Batch})'
    BY <1>1, <1>4, LinksType DEF GetBatch, NoBatch
  <2>2. LoopTypeOK'
    BY <1>1, <1>4 DEF GetBatch, NoBatch, AfterPull, FirstUe, Peers
  <2>3. DataTypeOK'
    <3>1. CASE GetBatch(p)
      BY <1>1, <3>1 DEF GetBatch
    <3>2. CASE NoBatch(p)
      BY <1>1, <3>2 DEF NoBatch, equipmentVars
    <3> QED BY <1>4, <3>1, <3>2
  <2> QED BY <2>1, <2>2, <2>3
<1>5. CASE CheckRxes
  <2>1. LinksTypeOK({Batch})'
    BY <1>1, <1>5, LinksType DEF CheckRxes
  <2>2. LoopTypeOK'
    BY <1>1, <1>5 DEF CheckRxes, FirstUe
  <2>3. DataTypeOK'
    BY <1>1, <1>5, CountFacts DEF CheckRxes, equipmentVars
  <2> QED BY <2>1, <2>2, <2>3
<1>6. CASE DecideDl
  <2>1. LinksTypeOK({Batch})'
    BY <1>1, <1>6, LinksType DEF DecideDl
  <2>2. LoopTypeOK'
    BY <1>1, <1>6 DEF DecideDl
  <2>3. DataTypeOK'
    BY <1>1, <1>6, CountFacts DEF DecideDl, equipmentVars
  <2> QED BY <2>1, <2>2, <2>3
<1>7. ASSUME NEW u \in Ues, SendToUe(u) \/ LoseUeBatch(u) \/ PassOverUe(u)
      PROVE  Parts
  <2>1. LinksTypeOK({Batch})'
    BY <1>1, <1>7, LinksType DEF SendToUe, LoseUeBatch, PassOverUe
  <2>2. LoopTypeOK'
    BY <1>1, <1>7 DEF SendToUe, LoseUeBatch, PassOverUe, AfterDlSend, Ues, Peers
  <2>3. rx_ready' \in [Peers -> BOOLEAN]
    BY <1>1, <1>7 DEF SendToUe, LoseUeBatch, PassOverUe
  <2>4. DataTypeOK'
    <3>1. AfterDlSend(u)
      BY <1>7 DEF SendToUe, LoseUeBatch, PassOverUe
    <3>2. CASE u < NumUes
      BY <1>1, <2>3, <3>1, <3>2 DEF AfterDlSend
    <3>3. CASE ~(u < NumUes)
      <4>1. /\ tx_samples_ready' = [tx_samples_ready EXCEPT ![Gnb] = FALSE]
            /\ samples_to_transmit' = [samples_to_transmit EXCEPT ![Gnb] = "used"]
            /\ all_ues_rxes_ready' = 0
        BY <3>1, <3>3 DEF AfterDlSend
      <4>2. all_ues_rxes_ready' \in -(IntMax + 1) .. IntMax
        BY <4>1, AsyncAssumption
      <4> QED BY <1>1, <2>3, <4>1, <4>2
    <3> QED BY <3>2, <3>3
  <2> QED BY <2>1, <2>2, <2>4
<1>8. CASE NoUplink \/ SendToGnb \/ LoseGnbBatches
  <2>1. LinksTypeOK({Batch})'
    BY <1>1, <1>8, LinksType DEF NoUplink, SendToGnb, LoseGnbBatches
  <2>2. LoopTypeOK'
    BY <1>1, <1>8 DEF NoUplink, SendToGnb, LoseGnbBatches
  <2>3. DataTypeOK'
    BY <1>1, <1>8 DEF NoUplink, SendToGnb, LoseGnbBatches, UseBatches, equipmentVars
  <2> QED BY <2>1, <2>2, <2>3
<1>9. ASSUME NEW p \in Peers, Answer(p) \/ Ask(p) \/ Restart(p) PROVE Parts
  <2>1. LinksTypeOK({Batch})'
    BY <1>1, <1>9, LinksType DEF Answer, Ask, Restart
  <2>2. LoopTypeOK' /\ DataTypeOK'
    BY <1>1, <1>9 DEF Answer, Ask, Restart, brokerVars, loopVars, equipmentVars
  <2> QED BY <2>1, <2>2
<1>10. CASE UNCHANGED vars
  BY <1>1, <1>10, LinksType DEF vars, loopVars, equipmentVars
<1> QED
  BY <1>2, <1>3, <1>4, <1>5, <1>6, <1>7, <1>8, <1>9, <1>10
  DEF Next, BrokerNext, PeerNext

\* Turning to the next Equipment of the pass.
LEMMA PullKeepsPassed ==
  ASSUME NEW p \in Peers, LoopTypeOK, AskedForGnb, At("recv", p), AfterPull(p),
         rx_ready' = rx_ready
  PROVE  /\ AskedForGnb'
         /\ rx_ready[Gnb] => \A u \in Ues : Passed(u)' => Passed(u)
<1> USE PeerFacts DEF AskedForGnb, At, AfterPull, FirstUe, Goto, Passed
<1>1. CASE p = Gnb
  BY <1>1
<1>2. CASE p # Gnb /\ p < NumUes
  <2>1. p \in Ues /\ rx_ready[Gnb] /\ stage' = "send" /\ cur' = p + 1
    BY <1>2
  <2>2. \A u \in Ues : p + 1 > u => p >= u
    OBVIOUS
  <2> QED BY <2>1, <2>2
<1>3. CASE p # Gnb /\ ~(p < NumUes)
  <2>1. p = NumUes /\ stage' = "dl" /\ stage = "recv" /\ cur = p
    BY <1>3, LinksAssumption DEF Ues
  <2> QED BY <2>1
<1> QED BY <1>1, <1>2, <1>3

\* What the downlink does to the buffers: only the gNB's changes, to "used".
DlSendEffect ==
  /\ \A v \in Ues : /\ samples_to_transmit'[v] = samples_to_transmit[v]
                    /\ tx_samples_ready'[v] = tx_samples_ready[v]
  /\ \/ /\ samples_to_transmit'[Gnb] = samples_to_transmit[Gnb]
        /\ tx_samples_ready'[Gnb] = tx_samples_ready[Gnb]
     \/ /\ samples_to_transmit'[Gnb] = "used"
        /\ ~tx_samples_ready'[Gnb]

LEMMA DlSendEffects ==
  ASSUME NEW u \in Ues, DataTypeOK, AfterDlSend(u)
  PROVE  DlSendEffect
  BY PeerFacts DEF DataTypeOK, AfterDlSend, DlSendEffect

\* Every step keeps what the batches and the flags rest on.
LEMMA BatchStep ==
  ASSUME IInv, [Next]_vars
  PROVE  BatchInv'
<1>1. /\ BatchInv /\ LoopTypeOK /\ DataTypeOK
      /\ pull \in [Peers -> PullStates] /\ busy \in [Peers -> BOOLEAN]
  BY TypeParts DEF IInv, LinksTypeOK
<1> USE PeerFacts
    DEF BatchInv, LoopTypeOK, DataTypeOK, FlagsMatchSockets, UlNeverDropped,
        SomeUeReady, AskedForGnb, AskedBuffersClear, PassedBuffersUnused,
        Passed, FlagsMatchBuffers, At, Goto, sendVars
<1>2. ASSUME NEW p \in Peers, TakeRequest(p) PROVE BatchInv'
  BY <1>1, <1>2 DEF TakeRequest, RepRecv, RequestQueued, reqVars, AfterRequest
<1>3. ASSUME NEW p \in Peers, NoRequest(p) PROVE BatchInv'
  BY <1>1, <1>3 DEF NoRequest, AfterRequest, linkVars, equipmentVars
<1>4. CASE CheckRxes
  BY <1>1, <1>4 DEF CheckRxes, FirstUe, linkVars, equipmentVars
<1>5. ASSUME NEW p \in Peers, AskForBatch(p) PROVE BatchInv'
  BY <1>1, <1>5 DEF AskForBatch, ReqSend, repVars
<1>6. ASSUME NEW p \in Peers, BatchWaits(p) \/ AskRefused(p) PROVE BatchInv'
  <2>1. CASE BatchWaits(p)
    BY <1>1, <2>1 DEF BatchWaits, linkVars, equipmentVars
  <2>2. CASE AskRefused(p)
    BY <1>1, <2>2 DEF AskRefused, linkVars, equipmentVars
  <2> QED BY <1>6, <2>1, <2>2
<1>7. ASSUME NEW p \in Peers, GetBatch(p) PROVE BatchInv'
  <2>1. At("recv", p) /\ AfterPull(p) /\ rx_ready' = rx_ready
    BY <1>7 DEF GetBatch
  <2>2. /\ AskedForGnb'
        /\ rx_ready[Gnb] => \A u \in Ues : Passed(u)' => Passed(u)
    BY <1>1, <2>1, PullKeepsPassed
  <2>3. /\ pull[p] # "idle"
        /\ pull' = [pull EXCEPT ![p] = "idle"]
        /\ busy' = busy
        /\ samples_to_transmit' = [samples_to_transmit EXCEPT ![p] = "fresh"]
        /\ tx_samples_ready' = [tx_samples_ready EXCEPT ![p] = TRUE]
        /\ UNCHANGED <<unsent, unasked>>
    BY <1>7 DEF GetBatch, ReqRecv, repVars
  <2>4. p \in Ues => rx_ready[Gnb]
    BY <1>1, <2>1
  <2>5. FlagsMatchSockets' /\ FlagsMatchBuffers' /\ AskedBuffersClear'
    BY <1>1, <2>1, <2>3
  <2>6. UlNeverDropped'
    BY <1>1, <2>1, <2>3, <2>4
  <2>7. PassedBuffersUnused'
    BY <1>1, <2>1, <2>2, <2>3
  <2> HIDE DEF FlagsMatchSockets, FlagsMatchBuffers, AskedBuffersClear,
               UlNeverDropped, PassedBuffersUnused, AskedForGnb
  <2> QED BY <2>2, <2>5, <2>6, <2>7
<1>8. ASSUME NEW p \in Peers, NoBatch(p) PROVE BatchInv'
  <2>1. At("recv", p) /\ AfterPull(p) /\ rx_ready' = rx_ready
    BY <1>8 DEF NoBatch, equipmentVars
  <2>2. /\ AskedForGnb'
        /\ rx_ready[Gnb] => \A u \in Ues : Passed(u)' => Passed(u)
    BY <1>1, <2>1, PullKeepsPassed
  <2>3. /\ UNCHANGED <<pull, busy, samples_to_transmit, tx_samples_ready>>
        /\ UNCHANGED <<unsent, unasked>>
    BY <1>8 DEF NoBatch, linkVars, equipmentVars
  <2> HIDE DEF Passed, AskedForGnb
  <2> QED BY <1>1, <2>1, <2>2, <2>3
<1>9. CASE DecideDl
  BY <1>1, <1>9 DEF DecideDl, linkVars, equipmentVars
<1>10. ASSUME NEW u \in Ues, SendToUe(u) PROVE BatchInv'
  <2>1. /\ stage = "dlsend" /\ stage' \in {"dlsend", "ul"}
        /\ AfterDlSend(u)
        /\ rx_ready[u] /\ busy[u]
        /\ pull' = pull
        /\ busy' = [busy EXCEPT ![u] = FALSE]
        /\ rx_ready' = [rx_ready EXCEPT ![u] = FALSE]
        /\ UNCHANGED <<unsent, unasked>>
    BY <1>10 DEF SendToUe, RepSend, reqVars, AfterDlSend
  <2>2. DlSendEffect
    BY <1>1, <2>1, DlSendEffects
  <2>3. FlagsMatchSockets'
    BY <1>1, <2>1, <2>2 DEF DlSendEffect
  <2>4. UlNeverDropped' /\ AskedForGnb' /\ AskedBuffersClear'
    BY <1>1, <2>1, <2>2 DEF DlSendEffect
  <2>5. PassedBuffersUnused' /\ FlagsMatchBuffers'
    BY <1>1, <2>1, <2>2 DEF DlSendEffect
  <2> QED BY <2>3, <2>4, <2>5
<1>18. ASSUME NEW u \in Ues, LoseUeBatch(u) PROVE BatchInv'
  <2>1. /\ stage = "dlsend" /\ stage' \in {"dlsend", "ul"}
        /\ AfterDlSend(u)
        /\ rx_ready[u]
        /\ rx_ready' = [rx_ready EXCEPT ![u] = FALSE]
        /\ unsent' = unsent \cup {u}
        /\ UNCHANGED <<pull, busy, unasked>>
    BY <1>18 DEF LoseUeBatch, linkVars, AfterDlSend
  <2>2. DlSendEffect
    BY <1>1, <2>1, DlSendEffects
  <2>3. FlagsMatchSockets'
    BY <1>1, <2>1, <2>2 DEF DlSendEffect
  <2>4. UlNeverDropped' /\ AskedForGnb' /\ AskedBuffersClear'
    BY <1>1, <2>1, <2>2 DEF DlSendEffect
  <2>5. PassedBuffersUnused' /\ FlagsMatchBuffers'
    BY <1>1, <2>1, <2>2 DEF DlSendEffect
  <2> QED BY <2>3, <2>4, <2>5
<1>11. ASSUME NEW u \in Ues, PassOverUe(u) PROVE BatchInv'
  <2>1. /\ stage = "dlsend" /\ stage' \in {"dlsend", "ul"}
        /\ AfterDlSend(u)
        /\ UNCHANGED <<pull, busy, rx_ready, unsent, unasked>>
    BY <1>11 DEF PassOverUe, linkVars, AfterDlSend
  <2>2. DlSendEffect
    BY <1>1, <2>1, DlSendEffects
  <2> QED BY <1>1, <2>1, <2>2 DEF DlSendEffect
<1>12. CASE NoUplink
  BY <1>1, <1>12 DEF NoUplink, linkVars, equipmentVars
<1>13. CASE SendToGnb
  BY <1>1, <1>13 DEF SendToGnb, UseBatches, RepSend, reqVars, linkVars
<1>19. CASE LoseGnbBatches
  BY <1>1, <1>19 DEF LoseGnbBatches, UseBatches, linkVars
<1>14. ASSUME NEW p \in Peers, Answer(p) PROVE BatchInv'
  BY <1>1, <1>14
  DEF Answer, PeerAnswer, repVars, brokerVars, loopVars, equipmentVars
<1>15. ASSUME NEW p \in Peers, Ask(p) PROVE BatchInv'
  BY <1>1, <1>15
  DEF Ask, PeerAsk, reqVars, brokerVars, loopVars, equipmentVars
<1>16. ASSUME NEW p \in Peers, Restart(p) PROVE BatchInv'
  BY <1>1, <1>16 DEF Restart, PeerRestart, brokerVars, loopVars, equipmentVars
<1>17. CASE UNCHANGED vars
  BY <1>1, <1>17 DEF vars, linkVars, loopVars, equipmentVars
<1> QED
  BY <1>2, <1>3, <1>4, <1>5, <1>6, <1>7, <1>8, <1>9, <1>10, <1>11, <1>12,
     <1>13, <1>14, <1>15, <1>16, <1>17, <1>18, <1>19
  DEF Next, BrokerNext, PeerNext

\* Every step keeps the count at zero while nobody waits.
LEMMA CountStep ==
  ASSUME IInv, [Next]_vars
  PROVE  DlSomeoneWaits'
<1>1. DlSomeoneWaits /\ LoopTypeOK /\ DataTypeOK
  BY TypeParts DEF IInv
<1> USE PeerFacts DEF DlSomeoneWaits, LoopTypeOK, DataTypeOK, At, Goto
<1>2. ASSUME NEW p \in Peers, TakeRequest(p) PROVE DlSomeoneWaits'
  BY <1>1, <1>2 DEF TakeRequest, AfterRequest
<1>3. ASSUME NEW p \in Peers, NoRequest(p) PROVE DlSomeoneWaits'
  BY <1>1, <1>3 DEF NoRequest, AfterRequest, equipmentVars
<1>4. CASE CheckRxes \/ DecideDl
  <2>1. rx_ready' = rx_ready /\ stage # "dlsend"
    BY <1>4 DEF CheckRxes, DecideDl, equipmentVars
  <2>2. CountRxes \/ all_ues_rxes_ready' = all_ues_rxes_ready
    BY <1>4 DEF CheckRxes, DecideDl
  <2> QED BY <1>1, <2>1, <2>2, CountFacts DEF Ready
<1>5. ASSUME NEW p \in Peers,
             \/ AskForBatch(p) \/ BatchWaits(p) \/ AskRefused(p)
             \/ GetBatch(p) \/ NoBatch(p)
      PROVE  DlSomeoneWaits'
  BY <1>1, <1>5 DEF AskForBatch, BatchWaits, AskRefused, GetBatch, NoBatch, equipmentVars
<1>6. ASSUME NEW u \in Ues, SendToUe(u) \/ LoseUeBatch(u) \/ PassOverUe(u)
      PROVE  DlSomeoneWaits'
  BY <1>1, <1>6 DEF SendToUe, LoseUeBatch, PassOverUe, AfterDlSend
<1>7. CASE NoUplink \/ SendToGnb \/ LoseGnbBatches
  BY <1>1, <1>7 DEF NoUplink, SendToGnb, LoseGnbBatches, equipmentVars
<1>8. ASSUME NEW p \in Peers, Answer(p) \/ Ask(p) \/ Restart(p)
      PROVE  DlSomeoneWaits'
  BY <1>1, <1>8 DEF Answer, Ask, Restart, brokerVars, loopVars, equipmentVars
<1>9. CASE UNCHANGED vars
  BY <1>1, <1>9 DEF vars, loopVars, equipmentVars
<1> QED
  BY <1>2, <1>3, <1>4, <1>5, <1>6, <1>7, <1>8, <1>9
  DEF Next, BrokerNext, PeerNext

LEMMA StepIInv == IInv /\ [Next]_vars => IInv'
<1> SUFFICES ASSUME IInv, [Next]_vars PROVE IInv'
  OBVIOUS
<1>1. TypeOK'
  BY TypeStep, SendTypeStep DEF TypeOK, LoopTypeOK, DataTypeOK, SendTypeOK
<1> QED BY <1>1, BatchStep, CountStep DEF IInv

-----------------------------------------------------------------------------
(* The theorems.                                                           *)

\* Every variable keeps its type; the count stays an int.
THEOREM TypeCorrect == Spec => []TypeOK
<1>1. IInv => TypeOK
  BY DEF IInv
<1> QED BY <1>1, InitIInv, StepIInv, PTL DEF Spec

\* The flags of an Equipment tell the state of its sockets, but for the REP
\* socket of a peer a reply to whom could not be sent.
THEOREM FlagsAgree == Spec => []FlagsMatchSockets
<1>1. IInv => FlagsMatchSockets
  BY DEF IInv, BatchInv
<1> QED BY <1>1, InitIInv, StepIInv, PTL DEF Spec

\* A UE's batch is in hand only while the gNB waits for it, so clearing the
\* flags before send_samples_to_req_rx drops none.
THEOREM UplinkNeverDropped == Spec => []UlNeverDropped
<1>1. IInv => UlNeverDropped
  BY DEF IInv, BatchInv
<1> QED BY <1>1, InitIInv, StepIInv, PTL DEF Spec

\* A batch of a UE is added to two of the sums for the gNB only after a request
\* to that UE could not be sent.
THEOREM UplinkOnce == Spec => []UlBatchOnce
<1>1. IInv => UlBatchOnce
  BY PeerFacts
  DEF IInv, BatchInv, FlagsMatchBuffers, UlNeverDropped, PassedBuffersUnused,
      Passed, UlBatchOnce, TypeOK, Contents
<1> QED BY <1>1, InitIInv, StepIInv, PTL DEF Spec

\* The gNB's batch is marked as forwarded only if some UE waited for it.
THEOREM DownlinkAwaited == Spec => []DlSomeoneWaits
<1>1. IInv => DlSomeoneWaits
  BY DEF IInv
<1> QED BY <1>1, InitIInv, StepIInv, PTL DEF Spec
-----------------------------------------------------------------------------
(* AsyncBroker implements BatchRelay.                                      *)

\* What the refinement needs beside IInv: the gNB is asked for its batch only
\* when the count told that UEs wait, and the downlink has the gNB's batch, and
\* leaves no request behind of the UEs it has passed.
AskedForUes == stage \in {"send", "recv"} /\ cur = Gnb => all_ues_rxes_ready >= 2

DlProgress ==
  stage = "dlsend" =>
    /\ tx_samples_ready[Gnb]
    /\ \A u \in Ues : u < cur => ~rx_ready[u]

RelayInv == IInv /\ AskedForUes /\ DlProgress

LEMMA InitRelayInv == Init => RelayInv
  BY InitIInv DEF Init, RelayInv, AskedForUes, DlProgress

LEMMA AskedStep ==
  ASSUME IInv, AskedForUes, [Next]_vars
  PROVE  AskedForUes'
<1>1. LoopTypeOK /\ DataTypeOK
  BY TypeParts DEF IInv
<1> USE <1>1, PeerFacts, LinksAssumption DEF AskedForUes, LoopTypeOK, At, Goto
<1>2. ASSUME NEW p \in Peers, TakeRequest(p) \/ NoRequest(p) PROVE AskedForUes'
  BY <1>2 DEF TakeRequest, NoRequest, AfterRequest
<1>3. CASE CheckRxes
  BY <1>3 DEF CheckRxes, EnoughRxes, FirstUe
<1>4. ASSUME NEW p \in Peers, AskForBatch(p) \/ BatchWaits(p) \/ AskRefused(p)
      PROVE  AskedForUes'
  BY <1>4 DEF AskForBatch, BatchWaits, AskRefused
<1>5. ASSUME NEW p \in Peers, GetBatch(p) \/ NoBatch(p) PROVE AskedForUes'
  <2>1. At("recv", p) /\ AfterPull(p)
    BY <1>5 DEF GetBatch, NoBatch
  <2> QED BY <2>1 DEF AfterPull, FirstUe, Peers
<1>6. CASE DecideDl
  BY <1>6 DEF DecideDl
<1>7. ASSUME NEW u \in Ues, SendToUe(u) \/ LoseUeBatch(u) \/ PassOverUe(u)
      PROVE  AskedForUes'
  BY <1>7 DEF SendToUe, LoseUeBatch, PassOverUe, AfterDlSend
<1>8. CASE NoUplink \/ SendToGnb \/ LoseGnbBatches
  BY <1>8 DEF NoUplink, SendToGnb, LoseGnbBatches
<1>9. ASSUME NEW p \in Peers, Answer(p) \/ Ask(p) \/ Restart(p) PROVE AskedForUes'
  BY <1>9 DEF Answer, Ask, Restart, brokerVars, loopVars
<1>10. CASE UNCHANGED vars
  BY <1>10 DEF vars, loopVars
<1> QED
  BY <1>2, <1>3, <1>4, <1>5, <1>6, <1>7, <1>8, <1>9, <1>10
  DEF Next, BrokerNext, PeerNext

LEMMA DlProgressStep ==
  ASSUME IInv, DlProgress, [Next]_vars
  PROVE  DlProgress'
<1>1. LoopTypeOK /\ DataTypeOK
  BY TypeParts DEF IInv
<1> USE <1>1, PeerFacts, LinksAssumption
    DEF DlProgress, LoopTypeOK, DataTypeOK, At, Goto
<1>2. ASSUME NEW p \in Peers,
             \/ TakeRequest(p) \/ NoRequest(p) \/ AskForBatch(p)
             \/ BatchWaits(p) \/ AskRefused(p) \/ GetBatch(p) \/ NoBatch(p)
      PROVE  DlProgress'
  <2>1. stage' # "dlsend"
    BY <1>2
    DEF TakeRequest, NoRequest, AskForBatch, BatchWaits, AskRefused, GetBatch, NoBatch,
        AfterRequest, AfterPull, FirstUe
  <2> QED BY <2>1
<1>3. CASE CheckRxes
  BY <1>3 DEF CheckRxes, FirstUe
<1>4. CASE DecideDl
  <2>1. stage' = "dlsend" => tx_samples_ready[Gnb] /\ cur' = 1
    BY <1>4 DEF DecideDl
  <2>2. tx_samples_ready' = tx_samples_ready
    BY <1>4 DEF DecideDl, equipmentVars
  <2>3. \A u \in Ues : ~(u < 1)
    BY DEF Ues
  <2> QED BY <2>1, <2>2, <2>3
<1>5. ASSUME NEW u \in Ues, SendToUe(u) \/ LoseUeBatch(u) \/ PassOverUe(u)
      PROVE  DlProgress'
  <2>1. At("dlsend", u) /\ AfterDlSend(u)
    BY <1>5 DEF SendToUe, LoseUeBatch, PassOverUe
  <2>2. /\ ~rx_ready'[u]
        /\ \A v \in Ues : ~rx_ready[v] => ~rx_ready'[v]
    BY <1>5 DEF SendToUe, LoseUeBatch, PassOverUe
  <2>3. CASE u < NumUes
    <3>1. stage' = "dlsend" /\ cur' = u + 1 /\ tx_samples_ready' = tx_samples_ready
      BY <2>1, <2>3 DEF AfterDlSend
    <3>2. \A v \in Ues : v < u + 1 => v < u \/ v = u
      BY DEF Ues
    <3> QED BY <2>1, <2>2, <3>1, <3>2
  <2>4. CASE ~(u < NumUes)
    BY <2>1, <2>4 DEF AfterDlSend
  <2> QED BY <2>3, <2>4
<1>6. CASE NoUplink \/ SendToGnb \/ LoseGnbBatches
  BY <1>6 DEF NoUplink, SendToGnb, LoseGnbBatches
<1>7. ASSUME NEW p \in Peers, Answer(p) \/ Ask(p) \/ Restart(p) PROVE DlProgress'
  BY <1>7 DEF Answer, Ask, Restart, brokerVars, loopVars, equipmentVars
<1>8. CASE UNCHANGED vars
  BY <1>8 DEF vars, loopVars, equipmentVars
<1> QED
  BY <1>2, <1>3, <1>4, <1>5, <1>6, <1>7, <1>8 DEF Next, BrokerNext, PeerNext

LEMMA RelayNames ==
  /\ Relay!Gnb = Gnb /\ Relay!Ues = Ues /\ Relay!Peers = Peers
  /\ Relay!Listeners(Gnb) = Ues
  /\ \A u \in Ues : Relay!Listeners(u) = {Gnb}
  BY PeerFacts
  DEF Relay!Gnb, Relay!Ues, Relay!Peers, Relay!Listeners, Gnb, Ues, Peers

LEMMA RelayInit == Init => Relay!Init
  BY DEF Init, Relay!Init, Waiting, Held

\* Taking a request and fetching a batch are steps of the relay, and so are the
\* decision to send downlink and the reply to the gNB; all others are none.
LEMMA RelayRefines ==
  ASSUME RelayInv, [Next]_vars
  PROVE  [Relay!Next]_(Relay!relayVars)
<1> DEFINE Step == [Relay!Next]_(Relay!relayVars)
           Same == Waiting' = Waiting /\ Held' = Held /\ unsent' = unsent
<1>0. Same => Step BY DEF Relay!relayVars
<1>1. /\ LoopTypeOK /\ DataTypeOK /\ BatchInv /\ DlSomeoneWaits
      /\ AskedForUes /\ DlProgress
  BY TypeParts DEF IInv, RelayInv
<1> USE PeerFacts DEF At, Goto, LoopTypeOK, DataTypeOK, sendVars
<1>2. ASSUME NEW p \in Peers, TakeRequest(p) PROVE Step
  <2>1. /\ Waiting' = Waiting \cup {p} /\ p \notin Waiting /\ Held' = Held
        /\ unsent' = unsent
    BY <1>1, <1>2 DEF TakeRequest, AfterRequest, Waiting, Held
  <2>2. p \notin unsent
    BY <1>1, <1>2 DEF TakeRequest, RepRecv, RequestQueued, BatchInv, FlagsMatchSockets
  <2> QED BY <2>1, <2>2, RelayNames DEF Relay!Next, Relay!TakeRequest
<1>3. ASSUME NEW p \in Peers, NoRequest(p) PROVE Same
  BY <1>1, <1>3 DEF NoRequest, AfterRequest, equipmentVars, Waiting, Held
<1>4. CASE CheckRxes
  <2>1. Same
    BY <1>1, <1>4 DEF CheckRxes, FirstUe, equipmentVars, Waiting, Held
  <2> QED BY <1>0, <2>1
<1>5. ASSUME NEW p \in Peers, AskForBatch(p) \/ BatchWaits(p) \/ AskRefused(p)
      PROVE  Same
  BY <1>1, <1>5 DEF AskForBatch, BatchWaits, AskRefused, equipmentVars, Waiting, Held
<1>6. ASSUME NEW p \in Peers, GetBatch(p) PROVE Step
  <2>1. /\ stage = "recv" /\ cur = p /\ stage' # "dlsend"
        /\ pull[p] = "answered"
        /\ rx_ready' = rx_ready /\ unsent' = unsent
        /\ tx_samples_ready' = [tx_samples_ready EXCEPT ![p] = TRUE]
    BY <1>6 DEF GetBatch, ReqRecv, AfterPull, FirstUe
  <2>2. ~tx_samples_ready[p]
    BY <1>1, <2>1 DEF BatchInv, FlagsMatchSockets
  <2>3. Waiting' = Waiting /\ Held' = Held \cup {p} /\ p \notin Held
    BY <1>1, <2>1, <2>2 DEF Waiting, Held
  <2>4. CASE p = Gnb
    <3>1. \E u \in Ues : rx_ready[u]
      BY <1>1, <2>1, <2>4 DEF AskedForUes, DlSomeoneWaits
    <3>2. Ues \cap Waiting # {}
      BY <2>1, <3>1 DEF Waiting
    <3> QED BY <2>1, <2>3, <2>4, <3>2, RelayNames DEF Relay!Next, Relay!FetchBatch
  <2>5. CASE p \in Ues
    <3>1. Gnb \in Waiting
      BY <1>1, <2>1, <2>5 DEF BatchInv, AskedForGnb, Waiting
    <3> QED BY <2>1, <2>3, <2>5, <3>1, RelayNames DEF Relay!Next, Relay!FetchBatch
  <2> QED BY <2>4, <2>5
<1>7. ASSUME NEW p \in Peers, NoBatch(p) PROVE Same
  BY <1>1, <1>7 DEF NoBatch, AfterPull, FirstUe, equipmentVars, Waiting, Held
<1>8. CASE DecideDl
  <2>1. /\ stage = "dl" /\ rx_ready' = rx_ready
        /\ tx_samples_ready' = tx_samples_ready /\ unsent' = unsent
    BY <1>8 DEF DecideDl, equipmentVars
  <2>2. CASE tx_samples_ready[Gnb] /\ EnoughRxes
    <3>1. stage' = "dlsend" /\ cur' = 1 /\ all_ues_rxes_ready' >= 2
      BY <1>8, <2>2 DEF DecideDl, EnoughRxes
    <3>2. DlSomeoneWaits'
      BY CountStep DEF RelayInv
    <3>3. \E u \in Ues : rx_ready[u]
      BY <2>1, <3>1, <3>2 DEF DlSomeoneWaits
    <3>4. Ues \cap Waiting # {} /\ Waiting' = Waiting \ Ues
      BY <2>1, <3>1, <3>3 DEF Waiting
    <3>5. Gnb \in Held /\ Held' = Held \ {Gnb}
      BY <2>1, <2>2, <3>1 DEF Held
    <3>6. {} \in SUBSET (Ues \cap Waiting) /\ unsent' = unsent \cup {}
      BY <2>1
    <3> QED
      BY <3>4, <3>5, <3>6, RelayNames
      DEF Relay!Next, Relay!ForwardToUes, Relay!Reply
  <2>3. CASE ~(tx_samples_ready[Gnb] /\ EnoughRxes)
    <3>1. stage' = "ul"
      BY <1>8, <2>3 DEF DecideDl
    <3>2. Same
      BY <2>1, <3>1 DEF Waiting, Held
    <3> QED BY <1>0, <3>2
  <2> QED BY <2>2, <2>3
<1>9. ASSUME NEW u \in Ues, SendToUe(u) \/ LoseUeBatch(u) \/ PassOverUe(u)
      PROVE  Step
  <2> DEFINE Rest == Waiting' = Waiting /\ Held' = Held
  <2>1. /\ stage = "dlsend" /\ cur = u /\ AfterDlSend(u)
        /\ rx_ready' \in [Peers -> BOOLEAN]
        /\ rx_ready'[Gnb] = rx_ready[Gnb]
    BY <1>1, <1>9 DEF SendToUe, LoseUeBatch, PassOverUe
  <2>4. Rest => Step
    <3>1. CASE SendToUe(u) \/ PassOverUe(u)
      BY <1>0, <3>1 DEF SendToUe, PassOverUe
    <3>2. CASE LoseUeBatch(u)
      <4>1. unsent' = unsent \cup {u}
        BY <3>2 DEF LoseUeBatch
      <4>2. u \notin Waiting
        BY <2>1 DEF Waiting
      <4> QED BY <4>1, <4>2, RelayNames DEF Relay!Next, Relay!LoseReply
    <3> QED BY <1>9, <3>1, <3>2
  <2>2. CASE u < NumUes
    <3>1. Rest BY <1>1, <2>1, <2>2 DEF AfterDlSend, Waiting, Held
    <3> QED BY <2>4, <3>1
  <2>3. CASE ~(u < NumUes)
    <3>1. stage' = "ul" /\ tx_samples_ready' = [tx_samples_ready EXCEPT ![Gnb] = FALSE]
      BY <2>1, <2>3 DEF AfterDlSend
    <3>2. DlProgress'
      BY DlProgressStep DEF RelayInv
    <3>3. \A v \in Ues : ~rx_ready'[v]
      <4>1. u = NumUes
        BY <2>3, LinksAssumption DEF Ues
      <4>2. \A v \in Ues : v < u \/ v = u
        BY <4>1, LinksAssumption DEF Ues
      <4>3. ~rx_ready'[u] /\ \A v \in Ues : v # u => rx_ready'[v] = rx_ready[v]
        BY <1>1, <1>9 DEF SendToUe, LoseUeBatch, PassOverUe
      <4>4. \A v \in Ues : v < u => ~rx_ready[v]
        BY <1>1, <2>1 DEF DlProgress
      <4> QED BY <4>2, <4>3, <4>4
    <3>4. Rest BY <1>1, <2>1, <3>1, <3>3 DEF Waiting, Held
    <3> QED BY <2>4, <3>4
  <2> QED BY <2>2, <2>3
<1>10. CASE NoUplink
  <2>1. Same
    BY <1>1, <1>10 DEF NoUplink, equipmentVars, Waiting, Held
  <2> QED BY <1>0, <2>1
<1>11. CASE SendToGnb \/ LoseGnbBatches
  <2>1. /\ stage = "ul" /\ stage' = "request" /\ SomeUeReady
        /\ rx_ready' = [rx_ready EXCEPT ![Gnb] = FALSE]
        /\ tx_samples_ready' = [p \in Peers |-> p = Gnb /\ tx_samples_ready[p]]
    BY <1>11 DEF SendToGnb, LoseGnbBatches, UseBatches
  <2>2. Gnb \in Waiting /\ Waiting' = Waiting \ {Gnb}
    BY <1>1, <2>1 DEF BatchInv, UlNeverDropped, Waiting
  <2>3. Ues \cap Held # {} /\ Held' = Held \ Ues
    BY <1>1, <2>1 DEF SomeUeReady, Held
  <2>4. \E failed \in SUBSET ({Gnb} \cap Waiting) : unsent' = unsent \cup failed
    <3>1. CASE SendToGnb
      <4>1. {} \in SUBSET ({Gnb} \cap Waiting) /\ unsent' = unsent \cup {}
        BY <3>1 DEF SendToGnb
      <4> QED BY <4>1
    <3>2. CASE LoseGnbBatches
      BY <2>2, <3>2 DEF LoseGnbBatches
    <3> QED BY <1>11, <3>1, <3>2
  <2> QED
    BY <2>2, <2>3, <2>4, RelayNames DEF Relay!Next, Relay!ForwardToGnb, Relay!Reply
<1>12. ASSUME NEW p \in Peers, Answer(p) \/ Ask(p) \/ Restart(p) PROVE Same
  BY <1>12
  DEF Answer, Ask, Restart, brokerVars, loopVars, equipmentVars, Waiting, Held
<1>13. CASE UNCHANGED vars
  <2>1. Same
    BY <1>13 DEF vars, loopVars, equipmentVars, Waiting, Held
  <2> QED BY <1>0, <2>1
<1> QED
  BY <1>0, <1>2, <1>3, <1>4, <1>5, <1>6, <1>7, <1>8, <1>9, <1>10, <1>11, <1>12, <1>13
  DEF Next, BrokerNext, PeerNext

\* The asynchronous broker implements the relay of batches, for any number of
\* UEs, restarts and failed sends, and however the count overflows.
THEOREM ImplementsRelay == Spec => RelaySpec
<1>1. RelayInv /\ [Next]_vars => RelayInv'
  BY StepIInv, AskedStep, DlProgressStep DEF RelayInv
<1> QED
  BY <1>1, InitRelayInv, RelayInit, RelayRefines, PTL DEF Spec, RelaySpec, Relay!Spec
=============================================================================
