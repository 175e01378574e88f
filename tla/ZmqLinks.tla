------------------------------ MODULE ZmqLinks ------------------------------
(***************************************************************************)
(* The ZeroMQ sockets the brokers stand on, and the srsRAN processes at    *)
(* their far ends.  libzmq and srsRAN are not part of the repository: this *)
(* module is what the sources of zmq_broker rely on.                       *)
(*                                                                         *)
(* A broker keeps two sockets per peer (the gNB is peer 0, the UEs are     *)
(* peers 1..NumUes):                                                       *)
(*   - a REQ socket connected to the peer's tx port.  The broker sends a   *)
(*     request and the peer answers with a message of samples;             *)
(*   - a REP socket bound to the peer's rx port.  The peer asks for        *)
(*     samples and the broker replies.                                     *)
(* Both are in lockstep: a second send on a REQ that has not been          *)
(* answered, or a send on a REP that has nothing to reply to, fails with   *)
(* EFSM.  A peer that is restarted comes back with fresh sockets, and      *)
(* whatever its former incarnation had received or had in flight is gone.  *)
(***************************************************************************)
EXTENDS Naturals

CONSTANTS
  NumUes,      \* number of UEs
  Restartable, \* the peers that may be killed and started again
  MaxRestarts, \* bound: how many restarts a behaviour may contain
  NoReply      \* stands for "no message of samples in flight"

ASSUME LinksAssumption ==
  /\ NumUes \in Nat \ {0}
  /\ MaxRestarts \in Nat

Gnb   == 0
Ues   == 1 .. NumUes
Peers == 0 .. NumUes

VARIABLES
  pull,    \* pull[p]: the broker's REQ socket to p and its request
  reply,   \* reply[p]: the samples p answered with, until they are received
  asked,   \* asked[p]: the request of p's present incarnation for samples
  orphans, \* orphans[p]: queued requests of former incarnations of p
  busy,    \* busy[p]: the broker's REP socket for p owes a reply
  restarts \* number of restarts so far

linkVars == <<pull, reply, asked, orphans, busy, restarts>>
reqVars  == <<pull, reply>>
repVars  == <<asked, orphans, busy>>

\* "idle": a request may be sent.  "sent": the request is on its way or with
\* the peer.  "answered": the reply waits to be received.  "lost": the process
\* that held the request, or the reply, died; no reply will ever come.
PullStates == {"idle", "sent", "answered", "lost"}

\* "no": p has no request outstanding.  "queued": its request waits in the
\* broker's socket.  "held": the broker received it and owes p the reply.
AskStates == {"no", "queued", "held"}

LinksInit ==
  /\ pull     = [p \in Peers |-> "idle"]
  /\ reply    = [p \in Peers |-> NoReply]
  /\ asked    = [p \in Peers |-> "no"]
  /\ orphans  = [p \in Peers |-> 0]
  /\ busy     = [p \in Peers |-> FALSE]
  /\ restarts = 0

-----------------------------------------------------------------------------
(* The four socket calls, when they succeed.                               *)

\* zmq_send on the REQ socket of p.
ReqSend(p) ==
  /\ pull[p] = "idle"
  /\ pull' = [pull EXCEPT ![p] = "sent"]
  /\ UNCHANGED <<reply, repVars, restarts>>

\* zmq_recv on the REQ socket of p; the caller reads reply[p].
ReqRecv(p) ==
  /\ pull[p] = "answered"
  /\ pull' = [pull EXCEPT ![p] = "idle"]
  /\ reply' = [reply EXCEPT ![p] = NoReply]
  /\ UNCHANGED <<repVars, restarts>>

\* Whether zmq_recv on the REP socket of p finds a request.
RequestQueued(p) == ~busy[p] /\ (asked[p] = "queued" \/ orphans[p] > 0)

\* zmq_recv on the REP socket of p.  Requests of the present and of former
\* incarnations come over different connections and are taken in any order.
RepRecv(p) ==
  /\ RequestQueued(p)
  /\ \/ /\ asked[p] = "queued"
        /\ asked' = [asked EXCEPT ![p] = "held"]
        /\ UNCHANGED orphans
     \/ /\ orphans[p] > 0
        /\ orphans' = [orphans EXCEPT ![p] = @ - 1]
        /\ UNCHANGED asked
  /\ busy' = [busy EXCEPT ![p] = TRUE]
  /\ UNCHANGED <<reqVars, restarts>>

\* zmq_send on the REP socket of p.  A reply owed to a dead incarnation is
\* dropped by the socket.
RepSend(p) ==
  /\ busy[p]
  /\ busy' = [busy EXCEPT ![p] = FALSE]
  /\ asked' = [asked EXCEPT ![p] = IF @ = "held" THEN "no" ELSE @]
  /\ UNCHANGED <<reqVars, orphans, restarts>>

-----------------------------------------------------------------------------
(* What the peers do.                                                      *)

\* The tx side of p answers the broker's request with the message r.
PeerAnswer(p, r) ==
  /\ pull[p] = "sent"
  /\ pull' = [pull EXCEPT ![p] = "answered"]
  /\ reply' = [reply EXCEPT ![p] = r]
  /\ UNCHANGED <<repVars, restarts>>

\* The rx side of p asks the broker for samples.
PeerAsk(p) ==
  /\ asked[p] = "no"
  /\ asked' = [asked EXCEPT ![p] = "queued"]
  /\ UNCHANGED <<reqVars, orphans, busy, restarts>>

\* p is killed and started again.  A request or a reply in flight survives
\* when it is still, or already, in the broker's own socket.
PeerRestart(p) ==
  /\ p \in Restartable
  /\ restarts < MaxRestarts
  /\ restarts' = restarts + 1
  /\ \/ UNCHANGED <<pull, reply>>
     \/ /\ pull[p] \in {"sent", "answered"}
        /\ pull' = [pull EXCEPT ![p] = "lost"]
        /\ reply' = [reply EXCEPT ![p] = NoReply]
  /\ asked' = [asked EXCEPT ![p] = "no"]
  /\ \/ UNCHANGED orphans
     \/ /\ asked[p] = "queued"
        /\ orphans' = [orphans EXCEPT ![p] = @ + 1]
  /\ UNCHANGED busy

-----------------------------------------------------------------------------

LinksTypeOK(Replies) ==
  /\ pull \in [Peers -> PullStates]
  /\ reply \in [Peers -> Replies \cup {NoReply}]
  /\ asked \in [Peers -> AskStates]
  /\ orphans \in [Peers -> Nat]
  /\ busy \in [Peers -> BOOLEAN]
  /\ restarts \in 0 .. MaxRestarts
  /\ \A p \in Peers : pull[p] = "answered" => reply[p] \in Replies
  /\ \A p \in Peers : asked[p] = "held" => busy[p]

=============================================================================
