---------------------------- MODULE AsyncBroker ----------------------------
(***************************************************************************)
(* src/zmq_broker/source/Broker.cpp and Equipment.cpp: the broker that     *)
(* CMake builds, with one Equipment per peer and the loop run_async_world. *)
(*                                                                         *)
(* The unit is the batch: the one message of samples an Equipment holds in *)
(* samples_to_transmit.  There are no rings.  A pass of the loop looks for *)
(* the requests of the gNB and the UEs, asks for and tries to receive      *)
(* batches, sends the gNB's batch to the UEs, and the sum of the UEs'      *)
(* batches to the gNB.  stage and cur are the next call of the pass and    *)
(* the Equipment it is about; the peers of ZmqLinks act in between.        *)
(***************************************************************************)
EXTENDS ZmqLinks, Integers, FiniteSets

CONSTANTS
  Batch,          \* the samples in a reply
  IntMax,         \* the largest value of the int all_ues_rxes_ready
  MaxSendFailures \* bound: how many zmq_sends fail for want of resources

ASSUME AsyncAssumption ==
  /\ Batch # NoReply
  /\ IntMax \in Nat
  \* One pass adds at most 2 * NumUes, far less than there are counts above 2.
  /\ IntMax >= 2 + 2 * NumUes
  /\ MaxSendFailures \in Nat

VARIABLES
  stage,
  cur,
  rx_ready,            \* a request of the peer waits for its reply
  tx_samples_ready,    \* a batch of the peer waits to be forwarded
  samples_to_transmit, \* what the batch buffer of the peer holds
  all_ues_rxes_ready,  \* what async_check_ues_rxes_ready adds up
  failures,            \* number of sends that failed for want of resources
  \* History, read by no guard.
  unsent,              \* the peers a reply to whom could not be sent
  unasked              \* the peers whose last request could not be sent

loopVars == <<stage, cur>>
equipmentVars == <<rx_ready, tx_samples_ready, samples_to_transmit>>
sendVars == <<failures, unsent, unasked>>
vars == <<linkVars, loopVars, equipmentVars, all_ues_rxes_ready, sendVars>>

Stages == {"request", "check", "send", "recv", "dl", "dlsend", "ul"}

\* "zeros": the buffer adds nothing.  "fresh": a batch that was not forwarded
\* yet.  "used": a batch that was.
Contents == {"zeros", "fresh", "used"}

Init ==
  /\ LinksInit
  /\ stage = "request"
  /\ cur = Gnb
  /\ rx_ready = [p \in Peers |-> FALSE]
  /\ tx_samples_ready = [p \in Peers |-> FALSE]
  /\ samples_to_transmit = [p \in Peers |-> "zeros"]
  /\ all_ues_rxes_ready = 0
  /\ failures = 0
  /\ unsent = {}
  /\ unasked = {}

\* zmq_send fails: the socket is in the wrong state, or lacks resources.
SendRefused(inState) ==
  /\ inState => failures < MaxSendFailures
  /\ failures' = IF inState THEN failures + 1 ELSE failures

At(s, p) == stage = s /\ cur = p
Goto(s, p) == stage' = s /\ cur' = p

-----------------------------------------------------------------------------
(* rep_recv_conn_request_from_req, for the gNB and then for each UE.       *)

AfterRequest(p) ==
  IF p < NumUes THEN Goto("request", p + 1) ELSE Goto("check", Gnb)

TakeRequest(p) ==
  /\ At("request", p)
  /\ ~rx_ready[p]
  /\ RepRecv(p)
  /\ rx_ready' = [rx_ready EXCEPT ![p] = TRUE]
  /\ AfterRequest(p)
  /\ UNCHANGED <<tx_samples_ready, samples_to_transmit, all_ues_rxes_ready, sendVars>>

NoRequest(p) ==
  /\ At("request", p)
  /\ rx_ready[p] \/ ~RequestQueued(p)
  /\ AfterRequest(p)
  /\ UNCHANGED <<linkVars, equipmentVars, all_ues_rxes_ready, sendVars>>

-----------------------------------------------------------------------------
(* async_send_request_for_samples_ang_get_samples.                         *)

\* An int that passes its largest value comes back at its smallest.
Wrap(n) == IF n > IntMax THEN n - 2 * (IntMax + 1) ELSE n

\* Mutant: every check starts its count from 0.
CountRxesAnew ==
  all_ues_rxes_ready' = Cardinality({u \in Ues : rx_ready[u]})

\* async_check_ues_rxes_ready: the count goes on from where the last check
\* left it.
CountRxes ==
  all_ues_rxes_ready' =
    Wrap(all_ues_rxes_ready + Cardinality({u \in Ues : rx_ready[u]}))

EnoughRxes == all_ues_rxes_ready' >= 2

\* Mutant: they are asked on every pass.
FirstUeAlways == Goto("send", 1)

\* The UEs are asked for batches only while the gNB waits for one.
FirstUe == IF rx_ready[Gnb] THEN Goto("send", 1) ELSE Goto("dl", Gnb)

AfterPull(p) ==
  IF p = Gnb THEN FirstUe
  ELSE IF p < NumUes THEN Goto("send", p + 1) ELSE Goto("dl", Gnb)

CheckRxes ==
  /\ At("check", Gnb)
  /\ CountRxes
  /\ IF EnoughRxes THEN Goto("send", Gnb) ELSE FirstUe
  /\ UNCHANGED <<linkVars, equipmentVars, sendVars>>

\* Mutant: the buffer keeps the last batch.
AskForBatchUncleared(p) ==
  /\ At("send", p)
  /\ ~tx_samples_ready[p]
  /\ ReqSend(p)
  /\ unasked' = unasked \ {p}
  /\ Goto("recv", p)
  /\ UNCHANGED <<equipmentVars, all_ues_rxes_ready, failures, unsent>>

\* The first half of send_req_to_get_samples_from_rep.  The buffer is cleared
\* only when the request goes out.  (zmq_send returns its one byte, so that
\* line 78 takes it for a success.)
AskForBatch(p) ==
  /\ At("send", p)
  /\ ~tx_samples_ready[p]
  /\ ReqSend(p)
  /\ samples_to_transmit' = [samples_to_transmit EXCEPT ![p] = "zeros"]
  /\ unasked' = unasked \ {p}
  /\ Goto("recv", p)
  /\ UNCHANGED <<rx_ready, tx_samples_ready, all_ues_rxes_ready, failures, unsent>>

\* A batch waits already.
BatchWaits(p) ==
  /\ At("send", p)
  /\ tx_samples_ready[p]
  /\ Goto("recv", p)
  /\ UNCHANGED <<linkVars, equipmentVars, all_ues_rxes_ready, sendVars>>

\* zmq_send fails, because a request is outstanding or for want of resources:
\* the buffer keeps what is in it.
AskRefused(p) ==
  /\ At("send", p)
  /\ ~tx_samples_ready[p]
  /\ SendRefused(pull[p] = "idle")
  /\ unasked' = IF pull[p] = "idle" THEN unasked \cup {p} ELSE unasked
  /\ Goto("recv", p)
  /\ UNCHANGED <<linkVars, equipmentVars, all_ues_rxes_ready, unsent>>

\* The second half: zmq_recv without waiting.
GetBatch(p) ==
  /\ At("recv", p)
  /\ ReqRecv(p)
  /\ samples_to_transmit' = [samples_to_transmit EXCEPT ![p] = "fresh"]
  /\ tx_samples_ready' = [tx_samples_ready EXCEPT ![p] = TRUE]
  /\ AfterPull(p)
  /\ UNCHANGED <<rx_ready, all_ues_rxes_ready, sendVars>>

NoBatch(p) ==
  /\ At("recv", p)
  /\ pull[p] # "answered"
  /\ AfterPull(p)
  /\ UNCHANGED <<linkVars, equipmentVars, all_ues_rxes_ready, sendVars>>

-----------------------------------------------------------------------------
(* async_send_samples_to_all_ues.                                          *)

\* The count is taken only if the gNB has a batch.
DecideDl ==
  /\ At("dl", Gnb)
  /\ IF tx_samples_ready[Gnb]
     THEN /\ CountRxes
          /\ IF EnoughRxes THEN Goto("dlsend", 1) ELSE Goto("ul", Gnb)
     ELSE /\ Goto("ul", Gnb)
          /\ UNCHANGED all_ues_rxes_ready
  /\ UNCHANGED <<linkVars, equipmentVars, sendVars>>

\* Mutant: the count does not restart.
AfterDlSendCounting(u) ==
  IF u < NumUes
  THEN /\ Goto("dlsend", u + 1)
       /\ UNCHANGED <<tx_samples_ready, samples_to_transmit, all_ues_rxes_ready>>
  ELSE /\ Goto("ul", Gnb)
       /\ tx_samples_ready' = [tx_samples_ready EXCEPT ![Gnb] = FALSE]
       /\ samples_to_transmit' = [samples_to_transmit EXCEPT ![Gnb] = "used"]
       /\ UNCHANGED all_ues_rxes_ready

\* After the last UE the batch counts as forwarded and the count restarts.
AfterDlSend(u) ==
  IF u < NumUes
  THEN /\ Goto("dlsend", u + 1)
       /\ UNCHANGED <<tx_samples_ready, samples_to_transmit, all_ues_rxes_ready>>
  ELSE /\ Goto("ul", Gnb)
       /\ tx_samples_ready' = [tx_samples_ready EXCEPT ![Gnb] = FALSE]
       /\ samples_to_transmit' = [samples_to_transmit EXCEPT ![Gnb] = "used"]
       /\ all_ues_rxes_ready' = 0

\* Mutant: the request stays pending after the reply.
SendToUePending(u) ==
  /\ At("dlsend", u)
  /\ rx_ready[u]
  /\ RepSend(u)
  /\ AfterDlSend(u)
  /\ UNCHANGED <<rx_ready, sendVars>>

\* send_samples_to_req_rx for UE u.
SendToUe(u) ==
  /\ At("dlsend", u)
  /\ rx_ready[u]
  /\ RepSend(u)
  /\ rx_ready' = [rx_ready EXCEPT ![u] = FALSE]
  /\ AfterDlSend(u)
  /\ UNCHANGED sendVars

\* zmq_send fails there.  The flag is reset all the same (line 108): the socket
\* owes a reply that nothing will send any more.
LoseUeBatch(u) ==
  /\ At("dlsend", u)
  /\ rx_ready[u]
  /\ SendRefused(busy[u])
  /\ rx_ready' = [rx_ready EXCEPT ![u] = FALSE]
  /\ unsent' = unsent \cup {u}
  /\ AfterDlSend(u)
  /\ UNCHANGED <<linkVars, unasked>>

\* A UE that did not ask is passed over.
PassOverUe(u) ==
  /\ At("dlsend", u)
  /\ ~rx_ready[u]
  /\ AfterDlSend(u)
  /\ UNCHANGED <<linkVars, rx_ready, sendVars>>

-----------------------------------------------------------------------------
(* async_send_concatenated_sampled_from_ues_to_gnb.                        *)

\* Mutant: all the UEs have to be ready.
EveryUeReady == \A u \in Ues : tx_samples_ready[u]

\* async_check_ues_samples_ready
SomeUeReady == \E u \in Ues : tx_samples_ready[u]

NoUplink ==
  /\ At("ul", Gnb)
  /\ ~SomeUeReady
  /\ Goto("request", Gnb)
  /\ UNCHANGED <<linkVars, equipmentVars, all_ues_rxes_ready, sendVars>>

\* The buffers of all UEs are added up, whether they are ready or not.
UseBatches ==
  /\ samples_to_transmit' =
       [p \in Peers |-> IF p \in Ues /\ samples_to_transmit[p] = "fresh"
                        THEN "used" ELSE samples_to_transmit[p]]
  /\ tx_samples_ready' =
       [p \in Peers |-> p = Gnb /\ tx_samples_ready[p]]

SendToGnb ==
  /\ At("ul", Gnb)
  /\ SomeUeReady
  /\ UseBatches
  /\ IF rx_ready[Gnb] THEN RepSend(Gnb) ELSE UNCHANGED linkVars
  /\ rx_ready' = [rx_ready EXCEPT ![Gnb] = FALSE]
  /\ Goto("request", Gnb)
  /\ UNCHANGED <<all_ues_rxes_ready, sendVars>>

\* As LoseUeBatch; the flags of the UEs were reset before (line 344).
LoseGnbBatches ==
  /\ At("ul", Gnb)
  /\ SomeUeReady
  /\ UseBatches
  /\ rx_ready[Gnb]
  /\ SendRefused(busy[Gnb])
  /\ rx_ready' = [rx_ready EXCEPT ![Gnb] = FALSE]
  /\ unsent' = unsent \cup {Gnb}
  /\ Goto("request", Gnb)
  /\ UNCHANGED <<linkVars, all_ues_rxes_ready, unasked>>

-----------------------------------------------------------------------------

brokerVars == <<loopVars, equipmentVars, all_ues_rxes_ready, sendVars>>

Answer(p) == PeerAnswer(p, Batch) /\ UNCHANGED brokerVars
Ask(p) == PeerAsk(p) /\ UNCHANGED brokerVars
Restart(p) == PeerRestart(p) /\ UNCHANGED brokerVars

BrokerNext ==
  \/ \E p \in Peers : \/ TakeRequest(p) \/ NoRequest(p)
                      \/ AskForBatch(p) \/ BatchWaits(p) \/ AskRefused(p)
                      \/ GetBatch(p) \/ NoBatch(p)
  \/ CheckRxes
  \/ DecideDl
  \/ \E u \in Ues : SendToUe(u) \/ LoseUeBatch(u) \/ PassOverUe(u)
  \/ NoUplink
  \/ SendToGnb
  \/ LoseGnbBatches

PeerNext == \E p \in Peers : Answer(p) \/ Ask(p) \/ Restart(p)

Next == BrokerNext \/ PeerNext

Spec == Init /\ [][Next]_vars

\* The loop never blocks and is_running is never cleared.
FairSpec == Spec /\ WF_vars(BrokerNext)

\* p answers every request: an assumption about srsRAN, made only in the
\* properties that need it.
Answers(p) == WF_vars(Answer(p))

-----------------------------------------------------------------------------

TypeOK ==
  /\ LinksTypeOK({Batch})
  /\ stage \in Stages
  /\ cur \in Peers
  /\ stage = "dlsend" => cur \in Ues
  /\ stage \in {"check", "dl", "ul"} => cur = Gnb
  /\ rx_ready \in [Peers -> BOOLEAN]
  /\ tx_samples_ready \in [Peers -> BOOLEAN]
  /\ samples_to_transmit \in [Peers -> Contents]
  /\ all_ues_rxes_ready \in -(IntMax + 1) .. IntMax
  /\ failures \in 0 .. MaxSendFailures
  /\ unsent \subseteq Peers
  /\ unasked \subseteq Peers

\* rx_ready tells whether the REP socket owes a reply, but for one that could
\* not be sent, which the socket owes for good; and a batch is held only while
\* no request is outstanding: with the loop in any place, zmq_send is never
\* called on a REP socket without a request, and a batch is never overwritten by
\* the next one.
FlagsMatchSockets ==
  \A p \in Peers : /\ rx_ready[p] <=> busy[p] /\ p \notin unsent
                   /\ p \in unsent => busy[p]
                   /\ tx_samples_ready[p] => pull[p] = "idle"

\* A UE's batch waits only while the gNB's request does.  (The UEs' flags are
\* cleared at line 344 whether or not send_samples_to_req_rx then sends: if
\* the gNB were not waiting, the batches would be lost.)
UlNeverDropped == SomeUeReady => rx_ready[Gnb]

\* The flag and the buffer tell the same: a UE that is not ready adds zeros
\* to the sum, so that a batch is added twice only after a request to the UE
\* could not be sent and left the old batch where it was.
UlBatchOnce ==
  /\ \A p \in Peers : tx_samples_ready[p] <=> samples_to_transmit[p] = "fresh"
  /\ stage = "ul" /\ SomeUeReady =>
       \A u \in Ues : samples_to_transmit[u] = "used" => u \in unasked

\* The count is nonzero only while some UE waits, so the gNB's batch is never
\* marked as forwarded with nobody to take it.
DlSomeoneWaits ==
  all_ues_rxes_ready # 0 /\ (stage = "dlsend" => cur = 1) =>
    \E u \in Ues : rx_ready[u]

\* The broker promises what BatchRelay says: it fetches a batch only for somebody
\* who waits, and forwards it once, to everyone who waits at that moment, also
\* when peers are restarted and when the count has overflowed; a peer is cut off
\* by a reply that cannot be sent and by nothing else.  The batch is forwarded
\* when the downlink is decided on; the UEs are sent it one by one.
Waiting == {p \in Peers : rx_ready[p] /\ (stage = "dlsend" => p = Gnb)}
Held == {p \in Peers : tx_samples_ready[p] /\ (stage = "dlsend" => p # Gnb)}
Relay == INSTANCE BatchRelay WITH waiting <- Waiting, held <- Held, cut <- unsent
RelaySpec == Relay!Spec

\* The count of UEs that are ready is 2 or more when all of the UEs are: the
\* gNB's batch goes "to all UEs".
DlReachesAll == stage = "dlsend" /\ cur = 1 => \A u \in Ues : rx_ready[u]

\* A UE that asks is served, whatever the other UEs do, if the gNB answers:
\* also a single UE, and also after the count has overflowed.  Only a gNB that is
\* restarted with a request of the broker in its hands answers no more, and only
\* a UE that was cut off, itself, by a reply that could not be sent stays so.
UeServed ==
  Answers(Gnb) =>
    \A u \in Ues :
      asked[u] # "no" ~> (asked[u] = "no" \/ pull[Gnb] = "lost" \/ u \in unsent)

\* The gNB is served as soon as one UE answers, whatever the others do, unless
\* that UE is restarted with a request of the broker in its hands, or the gNB
\* was cut off.
GnbServed ==
  Answers(1) =>
    (asked[Gnb] # "no" ~>
       (asked[Gnb] = "no" \/ pull[1] = "lost" \/ Gnb \in unsent))
=============================================================================
