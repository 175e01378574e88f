----------------------------- MODULE RingBroker -----------------------------
(***************************************************************************)
(* src/zmq_broker/broker.cpp: the broker that relays radio samples between *)
(* one gNB and NumUes UEs.                                                 *)
(*                                                                         *)
(* One thread runs the loop of main (lines 352-444).  A pass of the loop   *)
(* pulls from the gNB, pulls from each UE, looks for the gNB's request,    *)
(* looks for each UE's request, serves each UE (downlink), and serves the  *)
(* gNB (uplink).  Here a pass is a chain of steps, one per socket call:    *)
(* stage says which call is next and cur which peer it is about, and the   *)
(* peers of ZmqLinks act between any two steps.  The worker threads of     *)
(* parallel_push and parallel_pull are joined before main goes on (228,    *)
(* 259) and are module ChunkWorkers.                                       *)
(*                                                                         *)
(* A sample is its position in the stream of the peer it comes from: 1 is  *)
(* the first sample the broker received from that peer.  The path loss     *)
(* multiplies a sample by a constant (83-92) and is left out.              *)
(***************************************************************************)
EXTENDS ZmqLinks, Integers, Sequences

CONSTANTS
  SAMPLES_PER_SLOT,
  RING_CAPACITY,
  MsgSizes,       \* the sizes, in samples, of the peers' replies
  Malformed,      \* replies that are not a whole number of samples
  MaxStream,      \* bound: how many samples a peer ever sends
  MaxSendFailures \* bound: how many zmq_sends fail for want of resources

ASSUME RingAssumption ==
  /\ SAMPLES_PER_SLOT \in Nat \ {0}
  /\ RING_CAPACITY \in Nat
  /\ RING_CAPACITY >= SAMPLES_PER_SLOT
  /\ MsgSizes \subseteq Nat
  /\ MaxStream \in Nat
  /\ MaxSendFailures \in Nat

Replies == MsgSizes \cup Malformed

VARIABLES
  stage,           \* the socket call of the loop that comes next
  cur,             \* the peer it is about
  waiting,         \* Req::waiting
  request_pending, \* Rep::request_pending
  dl_ring,         \* dl_ring[u]: samples of the gNB for UE u
  ul_ring,         \* ul_ring[u]: samples of UE u for the gNB
  failures,        \* number of sends that failed for want of resources
  \* History, read by no guard but the bound on the streams.
  accepted,        \* accepted[p]: samples received from p
  lastDl,          \* lastDl[u]: the last sample of the gNB sent to UE u
  lastUl,          \* lastUl[u]: the last sample of UE u sent to the gNB
  dlGap,           \* UEs with a downlink that lost samples
  ulGap            \* UEs with an uplink that lost samples of theirs alone

loopVars == <<stage, cur>>
flagVars == <<waiting, request_pending>>
ringVars == <<dl_ring, ul_ring>>
histVars == <<accepted, lastDl, lastUl, dlGap, ulGap>>
vars == <<linkVars, loopVars, flagVars, ringVars, failures, histVars>>

Stages == {"send", "recv", "listen", "dl", "ul"}

Init ==
  /\ LinksInit
  /\ stage = "send"
  /\ cur = Gnb
  /\ waiting = [p \in Peers |-> FALSE]
  /\ request_pending = [p \in Peers |-> FALSE]
  /\ dl_ring = [u \in Ues |-> <<>>]
  /\ ul_ring = [u \in Ues |-> <<>>]
  /\ failures = 0
  /\ accepted = [p \in Peers |-> 0]
  /\ lastDl = [u \in Ues |-> 0]
  /\ lastUl = [u \in Ues |-> 0]
  /\ dlGap = {}
  /\ ulGap = {}

-----------------------------------------------------------------------------
(* The rings.                                                              *)

\* Mutant: the ring counts as full one sample early.
DroppedEarly(len, n) ==
  IF len + n >= RING_CAPACITY THEN len + n - RING_CAPACITY + 1 ELSE 0

\* How many of n samples a ring of length len drops from its front.
Dropped(len, n) ==
  IF len + n > RING_CAPACITY THEN len + n - RING_CAPACITY ELSE 0

\* Mutants: a full ring refuses the newest samples; it is emptied first.
RingPushRefusing(ring, in) ==
  SubSeq(ring \o in, 1, Len(ring) + Len(in) - Dropped(Len(ring), Len(in)))
RingPushEmptying(ring, in) ==
  IF Dropped(Len(ring), Len(in)) > 0 THEN in ELSE ring \o in

\* ring_push: appends the samples, dropping the oldest beyond the capacity.
RingPush(ring, in) ==
  SubSeq(ring \o in, Dropped(Len(ring), Len(in)) + 1, Len(ring) + Len(in))

\* The loop of ring_push: one sample after another, each of them dropping the
\* front of a full ring.
PushOne(ring, x) ==
  Append(IF Len(ring) >= RING_CAPACITY THEN Tail(ring) ELSE ring, x)
PushLoop(ring, in) ==
  LET pushed[i \in 0 .. Len(in)] ==
        IF i = 0 THEN ring ELSE PushOne(pushed[i - 1], in[i])
  IN  pushed[Len(in)]

\* Mutant: the last sample that is copied out stays.
RingPopOneLess(ring, n) == SubSeq(ring, n, Len(ring))

\* ring_pop_exact: all of the n samples or none.
CanPop(ring, n) == Len(ring) >= n
RingPop(ring, n) == SubSeq(ring, n + 1, Len(ring))

\* The n samples that follow the first sofar samples of a stream.
Arriving(sofar, n) == [k \in 1 .. n |-> sofar + k]

-----------------------------------------------------------------------------
(* The order of the calls in one pass of the loop.                         *)

Goto(s, p) == stage' = s /\ cur' = p

AfterPull(p) ==
  IF p < NumUes THEN Goto("send", p + 1) ELSE Goto("listen", Gnb)

\* Mutant: the last UE is left out.
AfterListenShort(p) ==
  IF p + 1 < NumUes THEN Goto("listen", p + 1) ELSE Goto("dl", 1)

AfterListen(p) ==
  IF p < NumUes THEN Goto("listen", p + 1) ELSE Goto("dl", 1)

AfterDl(u) ==
  IF u < NumUes THEN Goto("dl", u + 1) ELSE Goto("ul", Gnb)

AfterUl == Goto("send", Gnb)

At(s, p) == stage = s /\ cur = p

-----------------------------------------------------------------------------
(* req_try_pull: the request, sent unless one is outstanding, and the      *)
(* attempt to receive its reply.                                           *)

\* zmq_send fails: the socket is in the wrong state, or lacks resources.
SendRefused(inState) ==
  /\ inState => failures < MaxSendFailures
  /\ failures' = IF inState THEN failures + 1 ELSE failures

SendRequest(p) ==
  /\ At("send", p)
  /\ \/ /\ waiting[p]
        /\ Goto("recv", p)
        /\ UNCHANGED <<linkVars, waiting, failures>>
     \/ /\ ~waiting[p]
        /\ ReqSend(p)
        /\ waiting' = [waiting EXCEPT ![p] = TRUE]
        /\ Goto("recv", p)
        /\ UNCHANGED failures
     \/ /\ ~waiting[p]
        /\ SendRefused(pull[p] = "idle")
        /\ AfterPull(p)
        /\ UNCHANGED <<linkVars, waiting>>
  /\ UNCHANGED <<request_pending, ringVars, histVars>>

NothingToReceive(p) ==
  /\ At("recv", p)
  /\ pull[p] # "answered"
  /\ AfterPull(p)
  /\ UNCHANGED <<linkVars, flagVars, ringVars, failures, histVars>>

\* A reply that is empty or not a whole number of samples is thrown away.
DiscardReply(p) ==
  /\ At("recv", p)
  /\ reply[p] \in Malformed \cup {0}
  /\ ReqRecv(p)
  /\ waiting' = [waiting EXCEPT ![p] = FALSE]
  /\ AfterPull(p)
  /\ UNCHANGED <<request_pending, ringVars, failures, histVars>>

\* parallel_push: every UE's downlink ring gets the gNB's samples.
PullFromGnb ==
  /\ At("recv", Gnb)
  /\ reply[Gnb] \in MsgSizes \ {0}
  /\ ReqRecv(Gnb)
  /\ waiting' = [waiting EXCEPT ![Gnb] = FALSE]
  /\ LET n == reply[Gnb] IN
       /\ dl_ring' = [u \in Ues |->
                        RingPush(dl_ring[u], Arriving(accepted[Gnb], n))]
       /\ accepted' = [accepted EXCEPT ![Gnb] = @ + n]
       /\ dlGap' = dlGap \cup {u \in Ues : Dropped(Len(dl_ring[u]), n) > 0}
  /\ AfterPull(Gnb)
  /\ UNCHANGED <<request_pending, ul_ring, failures, lastDl, lastUl, ulGap>>

PullFromUe(u) ==
  /\ At("recv", u)
  /\ reply[u] \in MsgSizes \ {0}
  /\ ReqRecv(u)
  /\ waiting' = [waiting EXCEPT ![u] = FALSE]
  /\ LET n == reply[u] IN
       /\ ul_ring' = [ul_ring EXCEPT
                        ![u] = RingPush(@, Arriving(accepted[u], n))]
       /\ accepted' = [accepted EXCEPT ![u] = @ + n]
       /\ ulGap' = IF Dropped(Len(ul_ring[u]), n) > 0
                   THEN ulGap \cup {u} ELSE ulGap
  /\ AfterPull(u)
  /\ UNCHANGED <<request_pending, dl_ring, failures, lastDl, lastUl, dlGap>>

-----------------------------------------------------------------------------
(* rep_try_recv_request, for the gNB and then for each UE.                 *)

Listen(p) ==
  /\ At("listen", p)
  /\ \/ /\ ~request_pending[p]
        /\ RepRecv(p)
        /\ request_pending' = [request_pending EXCEPT ![p] = TRUE]
     \/ /\ request_pending[p] \/ ~RequestQueued(p)
        /\ UNCHANGED <<linkVars, request_pending>>
  /\ AfterListen(p)
  /\ UNCHANGED <<waiting, ringVars, failures, histVars>>

-----------------------------------------------------------------------------
(* Downlink, lines 390-403.                                                *)

SkipUe(u) ==
  /\ At("dl", u)
  /\ \/ ~request_pending[u]
     \/ ~CanPop(dl_ring[u], SAMPLES_PER_SLOT)
  /\ AfterDl(u)
  /\ UNCHANGED <<linkVars, flagVars, ringVars, failures, histVars>>

\* rep_send_response succeeds.  A slot sent for a request of a former
\* incarnation of u reaches nobody.
ServeUe(u) ==
  /\ At("dl", u)
  /\ request_pending[u]
  /\ CanPop(dl_ring[u], SAMPLES_PER_SLOT)
  /\ dl_ring' = [dl_ring EXCEPT ![u] = RingPop(@, SAMPLES_PER_SLOT)]
  /\ RepSend(u)
  /\ request_pending' = [request_pending EXCEPT ![u] = FALSE]
  /\ IF asked[u] = "held"
     THEN /\ lastDl' = [lastDl EXCEPT ![u] = dl_ring[u][SAMPLES_PER_SLOT]]
          /\ UNCHANGED dlGap
     ELSE /\ dlGap' = dlGap \cup {u}
          /\ UNCHANGED lastDl
  /\ AfterDl(u)
  /\ UNCHANGED <<waiting, ul_ring, failures, accepted, lastUl, ulGap>>

\* Mutant: a failed send resets the flag.
LoseUeSlotAndRequest(u) ==
  /\ At("dl", u)
  /\ request_pending[u]
  /\ CanPop(dl_ring[u], SAMPLES_PER_SLOT)
  /\ dl_ring' = [dl_ring EXCEPT ![u] = RingPop(@, SAMPLES_PER_SLOT)]
  /\ SendRefused(busy[u])
  /\ request_pending' = [request_pending EXCEPT ![u] = FALSE]
  /\ dlGap' = dlGap \cup {u}
  /\ AfterDl(u)
  /\ UNCHANGED <<linkVars, waiting, ul_ring, accepted, lastDl, lastUl, ulGap>>

\* rep_send_response fails and returns 0, which line 399 takes for success:
\* the request stays pending and the slot, already popped, is lost.
LoseUeSlot(u) ==
  /\ At("dl", u)
  /\ request_pending[u]
  /\ CanPop(dl_ring[u], SAMPLES_PER_SLOT)
  /\ dl_ring' = [dl_ring EXCEPT ![u] = RingPop(@, SAMPLES_PER_SLOT)]
  /\ SendRefused(busy[u])
  /\ dlGap' = dlGap \cup {u}
  /\ AfterDl(u)
  /\ UNCHANGED <<linkVars, flagVars, ul_ring, accepted, lastDl, lastUl, ulGap>>

-----------------------------------------------------------------------------
(* Uplink, lines 406-431: a slot for the gNB is the sum of one slot of     *)
(* every UE, so all of them must have one.                                 *)

\* Mutant: more than a slot is asked for.
AllReadyStrict == \A u \in Ues : CanPop(ul_ring[u], SAMPLES_PER_SLOT + 1)

AllReady == \A u \in Ues : CanPop(ul_ring[u], SAMPLES_PER_SLOT)

\* parallel_pull, and a mutant of it: the last UE is left out.
PopAllButLast ==
  ul_ring' = [u \in Ues |-> IF u < NumUes
                            THEN RingPop(ul_ring[u], SAMPLES_PER_SLOT)
                            ELSE ul_ring[u]]
PopAll == ul_ring' = [u \in Ues |-> RingPop(ul_ring[u], SAMPLES_PER_SLOT)]

SkipGnb ==
  /\ At("ul", Gnb)
  /\ ~request_pending[Gnb] \/ ~AllReady
  /\ AfterUl
  /\ UNCHANGED <<linkVars, flagVars, ringVars, failures, histVars>>

ServeGnb ==
  /\ At("ul", Gnb)
  /\ request_pending[Gnb]
  /\ AllReady
  /\ PopAll
  /\ RepSend(Gnb)
  /\ request_pending' = [request_pending EXCEPT ![Gnb] = FALSE]
  /\ lastUl' = [u \in Ues |-> ul_ring[u][SAMPLES_PER_SLOT]]
  /\ AfterUl
  /\ UNCHANGED <<waiting, dl_ring, failures, accepted, lastDl, dlGap, ulGap>>

\* As LoseUeSlot: one slot of every UE is lost.
LoseGnbSlot ==
  /\ At("ul", Gnb)
  /\ request_pending[Gnb]
  /\ AllReady
  /\ PopAll
  /\ SendRefused(busy[Gnb])
  /\ AfterUl
  /\ UNCHANGED <<linkVars, flagVars, dl_ring, histVars>>

-----------------------------------------------------------------------------
(* The peers.                                                              *)

brokerVars == <<loopVars, flagVars, ringVars, failures, histVars>>

Size(r) == IF r \in MsgSizes THEN r ELSE 0

Answer(p) ==
  /\ \E r \in Replies :
       /\ accepted[p] + Size(r) <= MaxStream
       /\ PeerAnswer(p, r)
  /\ UNCHANGED brokerVars

Ask(p) == PeerAsk(p) /\ UNCHANGED brokerVars

Restart(p) == PeerRestart(p) /\ UNCHANGED brokerVars

-----------------------------------------------------------------------------

Pull(p) ==
  \/ SendRequest(p)
  \/ NothingToReceive(p)
  \/ DiscardReply(p)

BrokerNext ==
  \/ \E p \in Peers : Pull(p) \/ Listen(p)
  \/ PullFromGnb
  \/ \E u \in Ues : PullFromUe(u) \/ SkipUe(u) \/ ServeUe(u) \/ LoseUeSlot(u)
  \/ SkipGnb
  \/ ServeGnb
  \/ LoseGnbSlot

PeerNext == \E p \in Peers : Answer(p) \/ Ask(p) \/ Restart(p)

Next == BrokerNext \/ PeerNext

Spec == Init /\ [][Next]_vars

\* The broker's loop polls without blocking and never ends: the loop's own
\* exits test for results below 0, which none of the helpers returns.
LoopFairness == WF_vars(BrokerNext)

FairSpec == Spec /\ LoopFairness

\* The peers in P answer every request, as long as their streams go on: an
\* assumption about srsRAN, made only in the properties that need it.
AnswerFairness(P) == \A p \in P : WF_vars(Answer(p))

-----------------------------------------------------------------------------
(* Correctness.                                                            *)

TypeOK ==
  /\ LinksTypeOK(Replies)
  /\ stage \in Stages
  /\ cur \in Peers
  /\ stage = "dl" => cur \in Ues
  /\ stage = "ul" => cur = Gnb
  /\ waiting \in [Peers -> BOOLEAN]
  /\ request_pending \in [Peers -> BOOLEAN]
  /\ dl_ring \in [Ues -> Seq(Nat)]
  /\ ul_ring \in [Ues -> Seq(Nat)]
  /\ failures \in 0 .. MaxSendFailures
  /\ accepted \in [Peers -> Nat]
  /\ lastDl \in [Ues -> Nat]
  /\ lastUl \in [Ues -> Nat]
  /\ dlGap \subseteq Ues
  /\ ulGap \subseteq Ues

\* The broker's flags are the state of its sockets, so that no call of the
\* loop ever fails with EFSM: req_try_pull never sends on a REQ socket that
\* awaits a reply, and neither serving step sends on a REP socket without a
\* request.
SocketAgreement ==
  \A p \in Peers : /\ waiting[p] <=> pull[p] # "idle"
                   /\ request_pending[p] <=> busy[p]

\* A ring holds the newest samples of its stream, all of them consecutive and
\* in order, and never more than its capacity: what a pop takes from the
\* front is a contiguous piece of the radio signal, whatever was dropped.
HoldsNewest(ring, sofar) ==
  /\ Len(ring) <= RING_CAPACITY
  /\ Len(ring) <= sofar
  /\ \A k \in 1 .. Len(ring) : ring[k] = sofar - Len(ring) + k

RingHoldsNewest ==
  \A u \in Ues : /\ HoldsNewest(dl_ring[u], accepted[Gnb])
                 /\ HoldsNewest(ul_ring[u], accepted[u])

\* However full the rings are, RingPush does what the loop of ring_push does.
RingPushIsLoop ==
  \A u \in Ues, p \in Peers, n \in MsgSizes :
    \A ring \in {dl_ring[u], ul_ring[u]} :
      RingPush(ring, Arriving(accepted[p], n)) = PushLoop(ring, Arriving(accepted[p], n))

\* The position before the front of a ring.
DlHead(u) == accepted[Gnb] - Len(dl_ring[u])
UlHead(u) == accepted[u] - Len(ul_ring[u])

\* The downlink of a UE is the gNB's stream without a hole or a repetition
\* until its ring overflows, a send to it fails, or a slot goes to its former
\* incarnation.
DlGapless == \A u \in Ues \ dlGap : lastDl[u] = DlHead(u)

\* What has been sent is not in the ring any more.
SentOnce == \A u \in Ues : lastDl[u] <= DlHead(u) /\ lastUl[u] <= UlHead(u)

\* The samples of the UEs that are added up for the gNB are of one radio
\* slot: the k-th sample of one UE meets the k-th sample of every other, as
\* long as neither of their rings overflowed.
UlAligned ==
  \A u, v \in Ues \ ulGap : UlHead(u) = UlHead(v) /\ lastUl[u] = lastUl[v]

\* Without failed sends, restarts and overflows nothing is lost.
LossHasCause ==
  /\ \A u \in dlGap : \/ failures > 0
                      \/ restarts > 0
                      \/ accepted[Gnb] > RING_CAPACITY
  /\ \A u \in ulGap : accepted[u] > RING_CAPACITY
  /\ failures = 0 => \A u \in Ues \ ulGap : lastUl[u] = UlHead(u)

\* The broker promises what SampleRelay says of any relay.
Relay == INSTANCE SampleRelay WITH
           Slot <- SAMPLES_PER_SLOT, Depth <- RING_CAPACITY
RelaySpec == Relay!Spec

\* A ring of the stream of p that holds less than a slot, with no more to come.
Exhausted(ring, p) ==
  /\ ~CanPop(ring, SAMPLES_PER_SLOT)
  /\ \E n \in MsgSizes : accepted[p] + n > MaxStream

\* If the gNB answers, a UE that asks for samples gets a slot, unless it is
\* restarted, or all that the gNB ever sends has left its ring, or the gNB was
\* restarted with a request of the broker in its hands: UEs that are silent or restarted do not hold up the others, and neither the requests a
\* dead process left behind nor a failed send keep the present process from
\* being served.
DlServed ==
  AnswerFairness({Gnb}) =>
    \A u \in Ues :
      asked[u] # "no" ~>
        (asked[u] = "no" \/ Exhausted(dl_ring[u], Gnb) \/ pull[Gnb] = "lost")

\* If the UEs answer, a gNB that asks for samples gets them, unless some UE
\* has no more to send.
UlServed ==
  AnswerFairness(Ues) =>
    (asked[Gnb] # "no" ~>
       (asked[Gnb] = "no" \/ \E u \in Ues : Exhausted(ul_ring[u], u)))
=============================================================================
