------------------------------ MODULE GnuRadio ------------------------------
(***************************************************************************)
(* The GNU Radio scripts src/configs/*_ue_scenario.py and                  *)
(* src/logs/debug_samples.py at work.  GNU Radio is not in the repository: *)
(* the actions of the blocks are what the scripts rely on.                 *)
(*                                                                         *)
(* A script is a graph of blocks, one thread each.  A block appends to its *)
(* output, out[b]; every connection e has its own reader, read[e], and a   *)
(* block works when each of its inputs has an item and each reader of its  *)
(* output has room.  An item stands for the samples of one message, and is *)
(* the set of the signals that were added up in it: where a signal comes   *)
(* from, its position in that stream, and the path loss it went through.   *)
(* The main thread runs the window: sliders, closing, and Ctrl-C.          *)
(***************************************************************************)
EXTENDS ZmqLinks, Integers, Sequences, FiniteSets

CONSTANTS
  Graphs,       \* from the name of a script to its graph
  Sessions,     \* the uses of the scripts that are looked at
  BufferItems,  \* how many items the buffer of a connection holds
  num_samples,  \* how many items debug_samples.py plots
  Chunk,        \* the samples in a reply
  NoLoss,       \* stands for "went through no path loss"
  SliderValues  \* the path losses in dB a slider is moved to

(* A session is a record: the script that is started; dl and ul, how many  *)
(* messages the gNB and each UE are asked for; moves, how often a slider   *)
(* is moved; ends, whether the window is closed or Ctrl-C is hit;          *)
(* restarts, whether peers are restarted; and length, the lengths of the   *)
(* logs on the disk.                                                       *)

From(e) == e[1]
To(e) == e[2]
Input(e) == e[3]

\* gnb_zmq.yaml and ueN_zmq.conf: peer p has the ports 2000 + 100 * p and
\* 2001 + 100 * p.
PeerAt(port) == (port - 2000) \div 100

ASSUME GnuRadioAssumption ==
  /\ BufferItems \in Nat \ {0}
  /\ num_samples \in Nat
  /\ Chunk # NoReply
  /\ \A s \in Sessions :
       /\ s.script \in DOMAIN Graphs
       /\ \A b \in DOMAIN Graphs[s.script].files :
            Graphs[s.script].files[b] \in DOMAIN s.length
       /\ \A l \in DOMAIN s.length : s.length[l] \in Nat
       /\ s.dl \in Nat /\ s.ul \in Nat

\* Connections lead from blocks that give to blocks that take, a multiply_const,
\* a head and a rep_sink have one input, the ports are those of peers, and the
\* multiply_consts and the setters are those of the UEs that have a path loss.
ASSUME GraphsAssumption ==
  \A s \in DOMAIN Graphs :
    LET g == Graphs[s]
        givers == DOMAIN g.sources \cup DOMAIN g.files
        passers == DOMAIN g.multipliers \cup g.adders \cup g.heads
        takers == DOMAIN g.sinks \cup DOMAIN g.logs \cup DOMAIN g.displays
    IN /\ \A e \in g.edges : From(e) \in givers \cup passers
       /\ \A e \in g.edges : To(e) \in passers \cup takers
       /\ givers \cap passers = {} /\ passers \cap takers = {}
       /\ givers \cap takers = {}
       /\ g.adders \cap (DOMAIN g.multipliers \cup g.heads) = {}
       /\ DOMAIN g.multipliers \cap g.heads = {}
       /\ DOMAIN g.sinks \cap (DOMAIN g.logs \cup DOMAIN g.displays) = {}
       /\ \A e, f \in g.edges :
            /\ To(e) = To(f)
            /\ To(e) \in DOMAIN g.multipliers \cup g.heads \cup DOMAIN g.sinks
            => e = f
       /\ DOMAIN g.files = {} \/ DOMAIN g.sources = {}
       /\ \A b \in DOMAIN g.sources : PeerAt(g.sources[b]) \in Peers
       /\ \A b \in DOMAIN g.sinks : PeerAt(g.sinks[b]) \in Peers
       /\ g.multipliers \in [DOMAIN g.multipliers -> DOMAIN g.pathloss]
       /\ g.pathloss \in [DOMAIN g.pathloss -> Nat]
       /\ g.setters \in [DOMAIN g.pathloss -> Seq(DOMAIN g.multipliers)]

SumLog == "gnu_multi.log"

\* Some connection leads from b to c.
Feeds(g, b, c) == \E e \in g.edges : From(e) = b /\ To(e) = c

\* Where a file_sink writes its log, or what a time_sink is called.
Label(g, b) == IF b \in DOMAIN g.logs THEN g.logs[b] ELSE g.displays[b].title

\* The UEs a log or a plot speaks of, by its name.
Named(name) ==
  CASE name \in {"UE1", "gnu_ue1.log"} -> {1}
    [] name \in {"UE2", "gnu_ue2.log"} -> {2}
    [] name \in {"UE3", "gnu_ue3.log"} -> {3}
    [] OTHER -> 1 .. 3

\* The UEs the input of connection e speaks of.  The inputs of "Testing" are
\* the three UEs and their sum.
About(g, e) ==
  IF Label(g, To(e)) = "Testing" /\ Input(e) < 3
  THEN {Input(e) + 1}
  ELSE Named(Label(g, To(e)))

UesOf(g) == {PeerAt(g.sources[b]) : b \in DOMAIN g.sources} \ {Gnb}

\* multiply_const b gives peer p's signal the path loss of UE u.
Scales(g, b, p, u) ==
  /\ b \in DOMAIN g.multipliers /\ g.multipliers[b] = u
  /\ \E c \in DOMAIN g.sources : PeerAt(g.sources[c]) = p /\ Feeds(g, c, b)

\* Block b gives the signals of the UEs us, each with its own path loss.
Carries(g, b, us) ==
  \/ \E u \in us : us = {u} /\ Scales(g, b, u, u)
  \/ /\ b \in g.adders
     /\ \A e \in g.edges :
          To(e) = b => \E u \in us : Scales(g, From(e), u, u)
     /\ \A u \in us : \E c \in DOMAIN g.multipliers : Feeds(g, c, b) /\ Scales(g, c, u, u)

(* How a script should be wired.                                           *)

\* Each peer of the script has one rep_sink, and all sockets are connected.
SocketsWired(g) ==
  /\ \A b, c \in DOMAIN g.sinks : PeerAt(g.sinks[b]) = PeerAt(g.sinks[c]) => b = c
  /\ \A c \in DOMAIN g.sinks : \E b \in DOMAIN g.sources :
       PeerAt(g.sources[b]) = PeerAt(g.sinks[c])
  /\ \A b \in DOMAIN g.sources : \E e \in g.edges : From(e) = b
  /\ \A c \in DOMAIN g.sinks : \E e \in g.edges : To(e) = c

\* The gNB's source feeds every UE's rep_sink through a multiply_const.
DownlinkWired(g) ==
  /\ \A b, c \in DOMAIN g.sources : PeerAt(g.sources[b]) = PeerAt(g.sources[c]) => b = c
  /\ \A e \in g.edges :
       To(e) \in DOMAIN g.sinks /\ PeerAt(g.sinks[To(e)]) # Gnb =>
         /\ From(e) \in DOMAIN g.multipliers
         /\ \E b \in DOMAIN g.sources : PeerAt(g.sources[b]) = Gnb /\ Feeds(g, b, From(e))

\* What goes to the sum's log is what goes to the UEs' logs, added up if they
\* are several.
UeStreams(g) ==
  {From(e) : e \in {e \in g.edges : To(e) \in DOMAIN g.logs /\ g.logs[To(e)] # SumLog}}
SumWired(g) ==
  \A e \in g.edges :
    To(e) \in DOMAIN g.logs /\ g.logs[To(e)] = SumLog =>
      \/ UeStreams(g) = {From(e)}
      \/ /\ From(e) \in g.adders
         /\ UeStreams(g) = {From(f) : f \in {f \in g.edges : To(f) = From(e)}}

\* The plot "Testing" takes every log, and all that any other plot takes.
PlotsWired(g) ==
  \A e \in g.edges, b \in DOMAIN g.files :
    To(e) \in DOMAIN g.displays =>
      \E t \in DOMAIN g.displays, h \in g.heads :
        Feeds(g, From(e), t) /\ Feeds(g, h, t) /\ Feeds(g, b, h)

\* A slider sets the multiply_consts that are made with its path loss, and no
\* others; those at the sockets of a UE are made with that of the UE, which has
\* both a req_source and a rep_sink.
SlidersWired(g) ==
  /\ \A b \in DOMAIN g.multipliers :
       LET blocks == g.setters[g.multipliers[b]] IN \E i \in DOMAIN blocks : blocks[i] = b
  /\ \A u \in DOMAIN g.setters : \A i \in DOMAIN g.setters[u] :
       g.multipliers[g.setters[u][i]] = u
  /\ \A e \in g.edges :
       /\ From(e) \in DOMAIN g.multipliers /\ To(e) \in DOMAIN g.sinks =>
            PeerAt(g.sinks[To(e)]) \in {Gnb, g.multipliers[From(e)]}
       /\ From(e) \in DOMAIN g.sources /\ To(e) \in DOMAIN g.multipliers =>
            PeerAt(g.sources[From(e)]) \in {Gnb, g.multipliers[To(e)]}
  /\ \A b \in DOMAIN g.sources : \E c \in DOMAIN g.sinks :
       PeerAt(g.sinks[c]) = PeerAt(g.sources[b])

\* The gNB's rep_sink takes the signals of all the UEs.
UplinkWired(g) ==
  \A e \in g.edges :
    To(e) \in DOMAIN g.sinks /\ PeerAt(g.sinks[To(e)]) = Gnb => Carries(g, From(e), UesOf(g))

\* A log takes the signals of the UEs it is named for, and so does a plot, from
\* the UEs or from the log of the same name.
NamesWired(g) ==
  \A e \in g.edges :
    To(e) \in DOMAIN g.logs \cup DOMAIN g.displays =>
      IF DOMAIN g.files = {}
      THEN Carries(g, From(e), About(g, e) \cap UesOf(g))
      ELSE /\ From(e) \in g.heads
           /\ \E b \in DOMAIN g.files :
                Feeds(g, b, From(e)) /\ Named(g.files[b]) = About(g, e)

WellWired(g) ==
  /\ SocketsWired(g) /\ DownlinkWired(g) /\ SumWired(g) /\ PlotsWired(g)
  /\ SlidersWired(g) /\ UplinkWired(g) /\ NamesWired(g)
GraphsRight == [s \in DOMAIN Graphs |-> WellWired(Graphs[s])]

VARIABLES
  session, \* the session that takes place
  out,     \* out[b]: the items block b has put out so far
  read,    \* read[e]: how many items were taken over connection e
  loss,    \* ueK_path_loss_db
  gain,    \* gain[b]: the UE and the path loss of multiply_const b
  gui,     \* what the main thread does
  todo,    \* the calls of set_k a setter has not made yet
  sigint,  \* SIGINT or SIGTERM arrived
  expired, \* the blocks whose poll came to its time limit after the stop
  moves    \* how often a slider was moved

flowVars == <<out, read>>
sliderVars == <<loss, gain, todo, moves>>
mainVars == <<gui, sigint, expired>>
vars == <<linkVars, flowVars, sliderVars, mainVars, session>>

-----------------------------------------------------------------------------
(* The graph of the script.                                                *)

Givers(s) == {From(e) : e \in Graphs[s].edges}
BlocksOf == [s \in DOMAIN Graphs |-> Givers(s) \cup {To(e) : e \in Graphs[s].edges}]
InputsOf ==
  [s \in DOMAIN Graphs |->
     [b \in BlocksOf[s] |-> {e \in Graphs[s].edges : To(e) = b}]]
ReadersOf ==
  [s \in DOMAIN Graphs |->
     [b \in BlocksOf[s] |-> {e \in Graphs[s].edges : From(e) = b}]]

\* The block that has the port of each peer.
AtPeers(ports) ==
  [p \in {PeerAt(ports[b]) : b \in DOMAIN ports} |->
     CHOOSE b \in DOMAIN ports : PeerAt(ports[b]) = p]
SourcesOf == [s \in DOMAIN Graphs |-> AtPeers(Graphs[s].sources)]
SinksOf == [s \in DOMAIN Graphs |-> AtPeers(Graphs[s].sinks)]

G == Graphs[session.script]
Blocks == BlocksOf[session.script]
Inputs(b) == InputsOf[session.script][b]
Readers(b) == ReadersOf[session.script][b]
SourceOf(p) == SourcesOf[session.script][p]
SinkOf(p) == SinksOf[session.script][p]
ScriptPeers == DOMAIN SourcesOf[session.script]

\* How many messages peer p is asked for, and how many wait for it.
Sent(p) == IF p = Gnb THEN session.dl ELSE session.ul
Wanted(p) == IF p = Gnb THEN session.ul ELSE session.dl

-----------------------------------------------------------------------------

Init ==
  /\ LinksInit
  /\ session \in Sessions
  /\ out = [b \in Givers(session.script) |-> <<>>]
  /\ read = [e \in G.edges |-> 0]
  /\ loss = G.pathloss
  /\ gain = [b \in DOMAIN G.multipliers |->
               <<G.multipliers[b], G.pathloss[G.multipliers[b]]>>]
  /\ gui = "idle"
  /\ todo = <<>>
  /\ sigint = FALSE
  /\ expired = {}
  /\ moves = 0

-----------------------------------------------------------------------------
(* The blocks.                                                             *)

Fill(e) == Len(out[From(e)]) - read[e]

Room(b) == \A e \in Readers(b) : Fill(e) < BufferItems

CanRead(b) == \A e \in Inputs(b) : Fill(e) > 0

\* The next item on a connection.
Ahead(e) == out[From(e)][read[e] + 1]

Take(b) == read' = [e \in G.edges |-> read[e] + (IF To(e) = b THEN 1 ELSE 0)]
Put(b, item) == out' = [out EXCEPT ![b] = Append(@, item)]

Signal(from, at, by) == [from |-> from, at |-> at, loss |-> by]

\* A req_source sends a request when none is outstanding and it has room.
SendRequest(b) ==
  /\ Room(b)
  /\ Len(out[b]) < Sent(PeerAt(G.sources[b]))
  /\ ReqSend(PeerAt(G.sources[b]))
  /\ UNCHANGED flowVars

Receive(b) ==
  /\ Room(b)
  /\ LET p == PeerAt(G.sources[b]) IN
       /\ ReqRecv(p)
       /\ Put(b, {Signal(p, Len(out[b]) + 1, NoLoss)})
  /\ UNCHANGED read

\* A rep_sink takes a request only when it has samples, and replies at once.
Reply(b) ==
  /\ CanRead(b)
  /\ LET p == PeerAt(G.sinks[b]) IN
       /\ RequestQueued(p)
       /\ \/ /\ asked[p] = "queued"
             /\ asked' = [asked EXCEPT ![p] = "no"]
             /\ UNCHANGED orphans
          \/ /\ orphans[p] > 0
             /\ orphans' = [orphans EXCEPT ![p] = @ - 1]
             /\ UNCHANGED asked
  /\ Take(b)
  /\ UNCHANGED <<reqVars, busy, restarts, out>>

Multiply(b) ==
  /\ CanRead(b) /\ Room(b)
  /\ \E e \in Inputs(b) :
       Put(b, {Signal(s.from, s.at, gain[b]) : s \in Ahead(e)})
  /\ Take(b)
  /\ UNCHANGED linkVars

\* add_vcc(1): the k-th item of every input.
Add(b) ==
  /\ CanRead(b) /\ Room(b)
  /\ Put(b, UNION {Ahead(e) : e \in Inputs(b)})
  /\ Take(b)
  /\ UNCHANGED linkVars

\* file_sinks and time_sinks take whatever comes, on all their inputs.
Tap(b) ==
  /\ CanRead(b)
  /\ Take(b)
  /\ UNCHANGED <<linkVars, out>>

ReadFile(b) ==
  /\ Len(out[b]) < session.length[G.files[b]]
  /\ Room(b)
  /\ Put(b, {Signal(G.files[b], Len(out[b]) + 1, NoLoss)})
  /\ UNCHANGED <<linkVars, read>>

\* Mutant: the heads stop one sample early.
HeadLengthShort == num_samples - 1

\* The length the heads are made with, and the size of the plots.
HeadLength == num_samples
PlotSize == num_samples

PassOn(b) ==
  /\ Len(out[b]) < HeadLength
  /\ CanRead(b) /\ Room(b)
  /\ \E e \in Inputs(b) : Put(b, Ahead(e))
  /\ Take(b)
  /\ UNCHANGED linkVars

\* The threads of the blocks end with wait.
BlocksNext ==
  /\ gui # "closed"
  /\ \/ \E b \in DOMAIN G.sources : SendRequest(b) \/ Receive(b)
     \/ \E b \in DOMAIN G.sinks : Reply(b)
     \/ \E b \in DOMAIN G.multipliers : Multiply(b)
     \/ \E b \in G.adders : Add(b)
     \/ \E b \in (DOMAIN G.logs \cup DOMAIN G.displays) : Tap(b)
     \/ \E b \in DOMAIN G.files : ReadFile(b)
     \/ \E b \in G.heads : PassOn(b)
  /\ UNCHANGED <<sliderVars, mainVars, session>>

-----------------------------------------------------------------------------
(* The main thread.                                                        *)

\* The slider of UE u calls its setter, which stores the value ...
set_path_loss_db(u, db) ==
  /\ gui = "idle"
  /\ moves < session.moves
  /\ u \in DOMAIN G.setters
  /\ loss' = [loss EXCEPT ![u] = db]
  /\ todo' = [i \in DOMAIN G.setters[u] |-> <<G.setters[u][i], u>>]
  /\ gui' = IF G.setters[u] = <<>> THEN "idle" ELSE "setting"
  /\ moves' = moves + 1
  /\ UNCHANGED <<linkVars, flowVars, gain, sigint, expired, session>>

\* ... and hands it to one block after the other, while they work.
set_k ==
  /\ gui = "setting"
  /\ LET b == todo[1][1]
         u == todo[1][2]
     IN gain' = [gain EXCEPT ![b] = <<u, loss[u]>>]
  /\ todo' = Tail(todo)
  /\ gui' = IF Tail(todo) = <<>> THEN "idle" ELSE "setting"
  /\ UNCHANGED <<linkVars, flowVars, loss, moves, sigint, expired, session>>

\* The window is closed: stop, and then wait for the threads of the blocks.
closeEvent ==
  /\ session.ends
  /\ gui = "idle"
  /\ gui' = "waiting"
  /\ UNCHANGED <<linkVars, flowVars, sliderVars, sigint, expired, session>>

Interrupt ==
  /\ session.ends
  /\ ~sigint
  /\ sigint' = TRUE
  /\ UNCHANGED <<linkVars, flowVars, sliderVars, gui, expired, session>>

\* Every half a second the timer calls Python code that has no effect; that
\* matters, and is a step, only when a signal has arrived.
timeout ==
  /\ sigint
  /\ gui = "idle"
  /\ gui' = "ticking"
  /\ UNCHANGED <<linkVars, flowVars, sliderVars, sigint, expired, session>>

\* Python calls the handler when it next runs Python code in the main thread:
\* in a setter, or in what the timer calls.
sig_handler ==
  /\ sigint
  /\ gui \in {"setting", "ticking"}
  /\ gui' = "waiting"
  /\ UNCHANGED <<linkVars, flowVars, sliderVars, sigint, expired, session>>

\* The thread of a block that polls its socket cannot be interrupted.
Polling(b) ==
  \/ b \in DOMAIN G.sources /\ Room(b) /\ pull[PeerAt(G.sources[b])] # "answered"
  \/ b \in DOMAIN G.sinks /\ CanRead(b) /\ ~RequestQueued(PeerAt(G.sinks[b]))

\* Mutant: -1, with which zmq_poll waits until there is a message.
zmq_timeout_endless == -1

zmq_timeout == 100

\* A poll ends at its time limit, and the thread finds that it was interrupted.
PollEnds(b) ==
  /\ gui = "waiting"
  /\ b \notin expired
  /\ Polling(b)
  /\ zmq_timeout >= 0
  /\ expired' = expired \cup {b}
  /\ UNCHANGED <<linkVars, flowVars, sliderVars, gui, sigint, session>>

\* wait returns when all the threads have ended: those in a poll end by a
\* message or by the time limit.
WaitReturns ==
  /\ gui = "waiting"
  /\ \A b \in Blocks : Polling(b) => b \in expired
  /\ gui' = "closed"
  /\ UNCHANGED <<linkVars, flowVars, sliderVars, sigint, expired, session>>

-----------------------------------------------------------------------------
(* The peers.                                                              *)

scriptVars == <<flowVars, sliderVars, mainVars, session>>

Answer(p) ==
  /\ p \in ScriptPeers
  /\ PeerAnswer(p, Chunk)
  /\ UNCHANGED scriptVars

Ask(p) ==
  /\ p \in ScriptPeers
  /\ Wanted(p) > 0
  /\ PeerAsk(p)
  /\ UNCHANGED scriptVars

Restart(p) ==
  /\ session.restarts
  /\ p \in ScriptPeers
  /\ PeerRestart(p)
  /\ UNCHANGED scriptVars

-----------------------------------------------------------------------------

MainNext == set_k \/ timeout \/ sig_handler \/ WaitReturns

PollsNext == \E b \in Blocks : PollEnds(b)

UserNext ==
  \/ \E u \in DOMAIN loss, db \in SliderValues : set_path_loss_db(u, db)
  \/ closeEvent
  \/ Interrupt

PeersServe == \E p \in Peers : Answer(p) \/ Ask(p)

Next ==
  \/ BlocksNext
  \/ MainNext
  \/ PollsNext
  \/ UserNext
  \/ PeersServe
  \/ \E p \in Peers : Restart(p)

Spec == Init /\ [][Next]_vars

\* The threads of the program go on; the peers may fall silent.  As each step
\* uses up something that is bounded, no behaviour takes steps for ever, and to
\* be fair to all of the threads together is to be fair to each.
FairSpec == Spec /\ WF_vars(MainNext \/ PollsNext \/ BlocksNext)

-----------------------------------------------------------------------------
(* Properties.                                                             *)

Decibels == SliderValues \cup {G.pathloss[u] : u \in DOMAIN G.pathloss}
OwnLosses == (DOMAIN G.pathloss) \X Decibels
Origins ==
  IF DOMAIN G.files = {} THEN Peers ELSE {G.files[b] : b \in DOMAIN G.files}
Signals == [from : Origins, at : Nat, loss : OwnLosses \cup {NoLoss}]

\* The types of the variables.
TypeOK ==
  /\ LinksTypeOK({Chunk})
  /\ session \in Sessions
  /\ out \in [Givers(session.script) -> Seq(SUBSET Signals)]
  /\ read \in [G.edges -> Nat]
  /\ loss \in [DOMAIN G.pathloss -> Decibels]
  /\ gain \in [DOMAIN G.multipliers -> OwnLosses]
  /\ gui \in {"idle", "setting", "ticking", "waiting", "closed"}
  /\ todo \in Seq((DOMAIN G.multipliers) \X (DOMAIN G.pathloss))
  /\ gui = "setting" => todo # <<>>
  /\ sigint \in BOOLEAN
  /\ expired \subseteq Blocks
  /\ moves \in Nat

UeSinkEdges ==
  {e \in G.edges : To(e) \in DOMAIN G.sinks /\ PeerAt(G.sinks[To(e)]) # Gnb}

\* No UE is served more than two buffers ahead of another, however long the
\* other does not ask: the gNB's stream goes to all the UEs at once and waits
\* for the slowest.
DownlinksInStep ==
  \A e, f \in UeSinkEdges : read[e] - read[f] <= 2 * BufferItems

\* No plot gets further than one buffer past the end of the shortest log: the
\* plot "Testing" has all four logs as inputs, and the others wait for it.
PlotsWaitForShortest ==
  \A e \in G.edges, b \in DOMAIN G.files :
    To(e) \in DOMAIN G.displays =>
      read[e] <= session.length[G.files[b]] + BufferItems

LogEdges == {e \in G.edges : To(e) \in DOMAIN G.logs}
SumLogEdges == {e \in LogEdges : G.logs[To(e)] = SumLog}
UeLogEdges == LogEdges \ SumLogEdges

\* Each item of the sum's log is the sum of the items that the UEs' logs have
\* at the same place, even if a slider is moved in between: the path loss is
\* applied once, in front of the log and of the adder.
LogsAddUp ==
  \A e \in SumLogEdges : \A k \in 1 .. Len(out[From(e)]) :
    /\ \A f \in UeLogEdges : k <= Len(out[From(f)])
    /\ out[From(e)][k] = UNION {out[From(f)][k] : f \in UeLogEdges}

MultipliersOf(u) ==
  {b \in DOMAIN G.multipliers :
     Feeds(G, b, SinkOf(u)) \/ Feeds(G, SourceOf(u), b)}

\* Whenever no setter is under way, the uplink and the downlink of each UE have
\* the path loss its slider shows.
BothWaysAlike ==
  gui = "idle" =>
    \A u \in ScriptPeers \ {Gnb} : \A b \in MultipliersOf(u) :
      gain[b] = <<u, loss[u]>>

Taken(e) == {out[From(e)][k] : k \in 1 .. read[e]}
Heard(item) == {s.from : s \in item}
OwnLoss(item) == \A s \in item : s.loss[1] = s.from

\* A log holds, and a plot shows, what its name says: the UE or the UEs, each
\* with the path loss of its own slider; and debug_samples.py shows under the
\* name of a UE the log which the scenarios wrote for it.
NamesAreTrue ==
  \A e \in G.edges : \A item \in Taken(e) :
    To(e) \in DOMAIN G.logs \cup DOMAIN G.displays =>
      IF DOMAIN G.files = {}
      THEN Heard(item) = About(G, e) \cap UesOf(G) /\ OwnLoss(item)
      ELSE \A s \in item : Named(s.from) = About(G, e)

\* The scripts are wired as they should be: what UE u is sent is the gNB's
\* signal with the path loss of UE u, and what the gNB is sent is the signals
\* of all the UEs, each with its own path loss.
RightRadio ==
  /\ GraphsRight[session.script]
  /\ \A e \in G.edges : \A item \in Taken(e) :
       To(e) \in DOMAIN G.sinks =>
         LET p == PeerAt(G.sinks[To(e)]) IN
           IF p = Gnb
           THEN Heard(item) = UesOf(G) /\ OwnLoss(item)
           ELSE Heard(item) = {Gnb} /\ \A s \in item : s.loss[1] = p

\* What the scripts have taken from each peer, and given to it.
ToSink(p) == CHOOSE e \in G.edges : To(e) = SinkOf(p)
Pulled == [p \in Peers |-> IF p \in ScriptPeers THEN Len(out[SourceOf(p)]) ELSE 0]
Served == [p \in Peers |-> IF p \in ScriptPeers THEN read[ToSink(p)] ELSE 0]
Signed(item) == {[from |-> s.from, at |-> s.at, loss |-> s.loss[1]] : s \in item}
LastServed ==
  [p \in Peers |->
     IF Served[p] = 0 THEN {} ELSE Signed(out[From(ToSink(p))][Served[p]])]

\* The scripts promise what StreamRelay says: messages are added up by their
\* number, through the path loss of the right UE, and none is lost or repeated,
\* however the threads are scheduled; two buffers lie between the gNB and a UE
\* on the downlink, and three on the uplink.
Relay == INSTANCE StreamRelay WITH
  DlWindow <- 2 * BufferItems, UlWindow <- 3 * BufferItems,
  cell <- ScriptPeers, taken <- Pulled, given <- Served, last <- LastServed
RelaySpec == Relay!Spec

\* Nothing more will come from q, and all that came went through connection e.
Drained(q, e) ==
  /\ pull[q] = "lost" \/ Len(out[SourceOf(q)]) = Sent(q)
  /\ read[e] = Len(out[SourceOf(q)])

\* Peer p was given all there is of somebody it listens to.
NoMoreFor(p) ==
  \E e \in Inputs(SinkOf(p)), q \in ScriptPeers :
    (p = Gnb <=> q # Gnb) /\ Drained(q, e)

LogsSuffice ==
  /\ DOMAIN G.files # {}
  /\ \A l \in DOMAIN session.length : session.length[l] >= num_samples

\* Every plot got, on each of its inputs, the samples it draws.
PlotsFull ==
  \A b \in DOMAIN G.displays : \A i \in 0 .. G.displays[b].inputs - 1 :
    \E e \in Inputs(b) : Input(e) = i /\ read[e] = PlotSize

\* No block can work, and no peer answers or asks.
AtRest ==
  /\ \A b \in DOMAIN G.sources :
       LET p == PeerAt(G.sources[b]) IN
         Room(b) => /\ pull[p] # "answered"
                    /\ pull[p] = "idle" => Len(out[b]) >= Sent(p)
  /\ \A b \in DOMAIN G.sinks : CanRead(b) => ~RequestQueued(PeerAt(G.sinks[b]))
  /\ \A b \in DOMAIN G.multipliers \cup G.adders : ~(CanRead(b) /\ Room(b))
  /\ \A b \in DOMAIN G.logs \cup DOMAIN G.displays : ~CanRead(b)
  /\ \A b \in DOMAIN G.files : Room(b) => Len(out[b]) >= session.length[G.files[b]]
  /\ \A b \in G.heads : CanRead(b) /\ Room(b) => Len(out[b]) >= HeadLength
  /\ \A p \in ScriptPeers :
       pull[p] # "sent" /\ (asked[p] = "no" => Wanted(p) = 0)

\* The blocks do not wait for each other in a circle, although streams fork and
\* join and the buffers between are limited: when nothing moves any more, a
\* peer that still asks was given all there is of somebody it listens to, and
\* plots of logs that are long enough are complete.
NobodyStuck ==
  AtRest => /\ \A p \in ScriptPeers : asked[p] = "queued" => NoMoreFor(p)
            /\ LogsSuffice => PlotsFull

\* Whom peer p depends on goes on: those it listens to answer, and a UE's
\* neighbours ask, since the gNB's stream waits for the slowest of them.
Answering(p) == \E q \in Peers : (p = Gnb <=> q # Gnb) /\ Answer(q)
Neighbours(p) == \E q \in Peers \ {p, Gnb} : p # Gnb /\ Ask(q)
OthersGoOn(p) == WF_vars(Answering(p) \/ Neighbours(p))

\* The gNB that asks gets samples if the UEs answer, whether or not any UE asks;
\* and a UE that asks gets them if the gNB answers and the other UEs ask, even
\* if its own uplink and those of the others are silent.  That a UE was
\* restarted does not stop the downlink.
AskersServed ==
  \A p \in Peers :
    OthersGoOn(p) =>
      (asked[p] = "queued" ~>
         asked[p] # "queued" \/ gui \in {"waiting", "closed"} \/ NoMoreFor(p))

\* All four logs are long enough, and nobody closes the window: each of the
\* five plots gets, on each of its inputs, the num_samples samples it draws.
PlotsComplete == LogsSuffice /\ ~session.ends ~> PlotsFull

\* Closing the window, or Ctrl-C, ends the program, although Qt does not call
\* Python by itself, and threads that wait in a poll for a peer that is silent
\* cannot be interrupted: the timer and the time limit of the polls see to it.
CloseEnds == (sigint \/ gui = "waiting") ~> gui = "closed"

=============================================================================
