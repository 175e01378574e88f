--------------------------- MODULE LockstepBroker ---------------------------
(***************************************************************************)
(* src/zmq_broker/old_broker.cpp: the first broker, one gNB and one UE.    *)
(* It keeps no batch from one pass of its loop (125-207) to the next: what *)
(* zmq_recv brings is forwarded at the end of the same pass or never.  The *)
(* code has no flag for an outstanding request either: it sends one to     *)
(* each side on every pass and does not look at the result.                *)
(***************************************************************************)
EXTENDS ZmqLinks, Integers

CONSTANTS
  Batch,          \* the samples in a reply
  MaxSendFailures \* bound: how many zmq_sends fail for want of resources

ASSUME LockstepAssumption ==
  /\ NumUes = 1
  /\ Batch # NoReply
  /\ MaxSendFailures \in Nat

Other(p) == 1 - p

VARIABLES
  stage,
  cur,
  rx_redy,         \* rx_redy[p]: a request of p waits for its reply
  size_rep,        \* size_rep[p]: what zmq_recv returned for p's request
  tx_samples_redy, \* tx_samples_redy[p]: a batch of p came in this pass
  failures,        \* number of sends that failed for want of resources
  \* History, read by no guard.
  wasted,          \* the sides whose batch was received in vain
  unsent           \* the sides a reply to whom could not be sent

loopVars == <<stage, cur>>
histVars == <<wasted, unsent>>
vars == <<linkVars, loopVars, rx_redy, size_rep, tx_samples_redy, failures, histVars>>

Stages == {"request", "send", "recv", "forward"}

\* What zmq_recv returns for a request: an error, or its one byte.
None == -1
OneByte == 1

Init ==
  /\ LinksInit
  /\ stage = "request"
  /\ cur = Gnb
  /\ rx_redy = [p \in Peers |-> FALSE]
  /\ size_rep = [p \in Peers |-> 0]
  /\ tx_samples_redy = [p \in Peers |-> FALSE]
  /\ failures = 0
  /\ wasted = {}
  /\ unsent = {}

\* zmq_send fails: the call cannot succeed, or the socket lacks resources.
SendRefused(canSend) ==
  /\ canSend => failures < MaxSendFailures
  /\ failures' = IF canSend THEN failures + 1 ELSE failures

At(s, p) == stage = s /\ cur = p
Goto(s, p) == stage' = s /\ cur' = p

-----------------------------------------------------------------------------
(* Requests, lines 127-149.                                                *)

AfterRequest(p) ==
  IF p = Gnb THEN Goto("request", 1) ELSE Goto("send", Gnb)

TakeRequest(p) ==
  /\ At("request", p)
  /\ ~rx_redy[p]
  /\ RepRecv(p)
  /\ rx_redy' = [rx_redy EXCEPT ![p] = TRUE]
  /\ size_rep' = [size_rep EXCEPT ![p] = OneByte]
  /\ AfterRequest(p)
  /\ UNCHANGED <<tx_samples_redy, failures, histVars>>

\* Mutant: the size of the last request is kept.
NoRequestKeepingSize(p) ==
  /\ At("request", p)
  /\ ~rx_redy[p]
  /\ ~RequestQueued(p)
  /\ AfterRequest(p)
  /\ UNCHANGED <<linkVars, rx_redy, size_rep, tx_samples_redy, failures, histVars>>

NoRequest(p) ==
  /\ At("request", p)
  /\ ~rx_redy[p]
  /\ ~RequestQueued(p)
  /\ size_rep' = [size_rep EXCEPT ![p] = None]
  /\ AfterRequest(p)
  /\ UNCHANGED <<linkVars, rx_redy, tx_samples_redy, failures, histVars>>

RequestPending(p) ==
  /\ At("request", p)
  /\ rx_redy[p]
  /\ AfterRequest(p)
  /\ UNCHANGED <<linkVars, rx_redy, size_rep, tx_samples_redy, failures, histVars>>

-----------------------------------------------------------------------------
(* Batches, lines 153-186: from the gNB and then from the UE.              *)

\* Mutant: both sides have to wait.
CanAskForBoth(p) == /\ \A q \in Peers : size_rep[q] # None
                    /\ pull[p] = "idle"

\* The request for p's batch is as long as what was received from the other
\* side.  A length of -1 is, as a size_t, more than any message can hold, and
\* zmq_send fails; it also fails while a request is outstanding.
CanAsk(p) == size_rep[Other(p)] # None /\ pull[p] = "idle"

SendRequest(p) ==
  /\ At("send", p)
  /\ \/ CanAsk(p) /\ ReqSend(p) /\ UNCHANGED failures
     \/ SendRefused(CanAsk(p)) /\ UNCHANGED linkVars
  /\ Goto("recv", p)
  /\ UNCHANGED <<rx_redy, size_rep, tx_samples_redy, histVars>>

AfterRecv(p) ==
  IF p = Gnb THEN Goto("send", 1) ELSE Goto("forward", Gnb)

GetBatch(p) ==
  /\ At("recv", p)
  /\ ReqRecv(p)
  /\ tx_samples_redy' = [tx_samples_redy EXCEPT ![p] = TRUE]
  /\ AfterRecv(p)
  /\ UNCHANGED <<rx_redy, size_rep, failures, histVars>>

NoBatch(p) ==
  /\ At("recv", p)
  /\ pull[p] # "answered"
  /\ tx_samples_redy' = [tx_samples_redy EXCEPT ![p] = FALSE]
  /\ AfterRecv(p)
  /\ UNCHANGED <<linkVars, rx_redy, size_rep, failures, histVars>>

-----------------------------------------------------------------------------
(* Forwarding, lines 189-201: the gNB's batch to the UE, then the UE's.    *)

AfterForward(p) ==
  IF p = Gnb THEN Goto("forward", 1) ELSE Goto("request", Gnb)

\* Mutant: the request stays pending after the reply.
ForwardPending(p) ==
  /\ At("forward", p)
  /\ tx_samples_redy[p]
  /\ rx_redy[Other(p)]
  /\ RepSend(Other(p))
  /\ AfterForward(p)
  /\ UNCHANGED <<rx_redy, size_rep, tx_samples_redy, failures, histVars>>

Forward(p) ==
  /\ At("forward", p)
  /\ tx_samples_redy[p]
  /\ rx_redy[Other(p)]
  /\ RepSend(Other(p))
  /\ rx_redy' = [rx_redy EXCEPT ![Other(p)] = FALSE]
  /\ AfterForward(p)
  /\ UNCHANGED <<size_rep, tx_samples_redy, failures, histVars>>

\* zmq_send fails there.  The flag is reset all the same (193, 200): the socket
\* owes a reply that nothing will send any more.
LoseBatch(p) ==
  /\ At("forward", p)
  /\ tx_samples_redy[p]
  /\ rx_redy[Other(p)]
  /\ SendRefused(busy[Other(p)])
  /\ rx_redy' = [rx_redy EXCEPT ![Other(p)] = FALSE]
  /\ unsent' = unsent \cup {Other(p)}
  /\ AfterForward(p)
  /\ UNCHANGED <<linkVars, size_rep, tx_samples_redy, wasted>>

\* The next pass writes over a batch that is not forwarded in this one.
ForwardNothing(p) ==
  /\ At("forward", p)
  /\ ~tx_samples_redy[p] \/ ~rx_redy[Other(p)]
  /\ wasted' = IF tx_samples_redy[p] THEN wasted \cup {p} ELSE wasted
  /\ AfterForward(p)
  /\ UNCHANGED <<linkVars, rx_redy, size_rep, tx_samples_redy, failures, unsent>>

-----------------------------------------------------------------------------

brokerVars == <<loopVars, rx_redy, size_rep, tx_samples_redy, failures, histVars>>

Answer(p) == PeerAnswer(p, Batch) /\ UNCHANGED brokerVars
Ask(p) == PeerAsk(p) /\ UNCHANGED brokerVars
Restart(p) == PeerRestart(p) /\ UNCHANGED brokerVars

BrokerNext ==
  \E p \in Peers : \/ TakeRequest(p) \/ NoRequest(p) \/ RequestPending(p)
                   \/ SendRequest(p)
                   \/ GetBatch(p) \/ NoBatch(p)
                   \/ Forward(p) \/ LoseBatch(p) \/ ForwardNothing(p)

PeerNext == \E p \in Peers : Answer(p) \/ Ask(p) \/ Restart(p)

Next == BrokerNext \/ PeerNext

Spec == Init /\ [][Next]_vars

\* The loop never blocks or ends.
FairSpec == Spec /\ WF_vars(BrokerNext)

\* p answers every request: an assumption about srsRAN, made only in the
\* property that needs it.
Answers(p) == WF_vars(Answer(p))

-----------------------------------------------------------------------------

TypeOK ==
  /\ LinksTypeOK({Batch})
  /\ stage \in Stages
  /\ cur \in Peers
  /\ rx_redy \in [Peers -> BOOLEAN]
  /\ size_rep \in [Peers -> {None, 0, OneByte}]
  /\ tx_samples_redy \in [Peers -> BOOLEAN]
  /\ failures \in 0 .. MaxSendFailures
  /\ wasted \subseteq Peers
  /\ unsent \subseteq Peers

\* The code relies on it without a check: a batch of one side is on its way,
\* or in the buffer, only while the other side waits for it.
BatchesAreAwaited ==
  \A p \in Peers : pull[p] # "idle" => rx_redy[Other(p)]

\* So no batch is received in vain, also when a peer is restarted: the relayed
\* signal has no hole, and ends where a reply cannot be sent.
NothingWasted == wasted = {}

\* rx_redy tells whether the REP socket owes a reply, but for one that could not
\* be sent, which the socket owes for good.
RxMatchesSockets ==
  \A p \in Peers : /\ rx_redy[p] <=> busy[p] /\ p \notin unsent
                   /\ p \in unsent => busy[p]

\* The broker promises what BatchRelay says: it fetches a batch only for somebody
\* who waits, and forwards it once, in the same pass, also when peers are
\* restarted; a side is cut off by a reply that cannot be sent and by nothing
\* else.  The flag of a batch outlives its forwarding until the next pass.
Held ==
  {p \in Peers : /\ tx_samples_redy[p]
                 /\ \/ stage = "forward" /\ cur <= p
                    \/ stage \in {"send", "recv"} /\ p < cur}
Waiting == {p \in Peers : rx_redy[p]}
Relay == INSTANCE BatchRelay WITH waiting <- Waiting, held <- Held, cut <- unsent
RelaySpec == Relay!Spec

\* Either side gets what it asks for if the other side answers, whether or not
\* that side asks, and is served itself.  Excepted are an other side that is
\* restarted with a request in its hands, which is never repeated, and a side a
\* reply to which could not be sent.
Served ==
  \A p \in Peers :
    Answers(Other(p)) =>
      (asked[p] # "no" ~>
         (asked[p] = "no" \/ pull[Other(p)] = "lost" \/ p \in unsent))
=============================================================================
