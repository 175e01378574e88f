# Verification of system_level_simulation

The repository simulates a 5G cell: srsRAN processes (one gNB, several UEs)
exchange radio samples over ZeroMQ, and a *broker* between them plays the radio
channel. There are five brokers: three in C++, one made of GNU Radio blocks, and
a test of the idea in Python. MATLAB scripts compute channel responses, and a
GNU Radio script plots what was logged. This directory holds TLA+ models of the
brokers, of the channel server and of the plots, TLC configurations that check
them on small instances, and TLAPS proofs for every value of the constants.

Run a check with `tlc -config X.cfg M` and a proof with `tlapm M.tla`.
`PROJECT.json` lists the runs, for each property a mutation of the code that
breaks it, the source lines of every definition, the hazards and the findings.

## 1. Inventory

### The components

| Component | Source | State | Operations | Modules |
|---|---|---|---|---|
| Ring-buffer broker | `src/zmq_broker/broker.cpp` | per peer a REQ socket with `waiting`, a REP socket with `request_pending`; per UE `dl_ring`, `ul_ring` | `req_try_pull`, `rep_try_recv_request`, `rep_send_response`, `ring_push`, `ring_pop_exact`, the loop of `main` | `RingBroker`, `SampleRelay`, `ZmqLinks` |
| Its worker threads | `broker.cpp` 205-260 | the vector of `UePath`, shared by the threads | `parallel_push`, `parallel_pull` | `ChunkWorkers` |
| Asynchronous broker (what CMake builds) | `src/zmq_broker/source/Broker.cpp`, `Equipment.cpp`, `main.cpp` | per peer `rx_ready`, `tx_samples_ready`, a batch buffer; `all_ues_rxes_ready` | `run_async_world` and what it calls | `AsyncBroker`, `BatchRelay`, `ZmqLinks` |
| First broker | `src/zmq_broker/old_broker.cpp` | per side `rx_redy`, `tx_samples_redy`, sizes, buffers | the loop of `main` | `LockstepBroker`, `BatchRelay`, `ZmqLinks` |
| MATLAB channel server | `src/matlab/Quadriga.m` | `pauseFlag`, `stopFlag`, `updateChannelFlag`, `channelParams`, a REP socket, a window | the main loop, `updateChannelModel`, the window's callbacks, `cleanup` | `ChannelServer` |
| srsRAN and libzmq | not in the repository | the two ends of every link | answer, ask, die and start again | `ZmqLinks` (external) |
| GNU Radio brokers | `src/configs/{one,two,multi}_ue_scenario.py` | the graph of blocks, what the buffers of its connections hold, path losses and the gains made of them | the blocks' work, the path loss sliders, `closeEvent`, `sig_handler` | `GnuRadio` with `OneUeScenario`, `TwoUeScenario`, `MultiUeScenario`, `GnuRadioScripts`, `StreamRelay`, `ZmqLinks` |
| Plots of the logs | `src/logs/debug_samples.py` | the same, with files for peers | the same, without sliders | `GnuRadio` with `DebugSamples`, `GnuRadioScripts` |
| Python broker | `src/zmq_broker/python_broker.py` | the client's REQ socket, the servers' REP sockets and `reqnum` | `server`, `client` | `PythonBroker` |
| MATLAB signal scripts and clients | `processing_signal.m`, `simulation.m`, `subscribe.m`, `channel.m`, `test_client.m` | none that outlives a pass | floating-point signal processing | not modelled |
| Configuration parser, socket demonstrations | `source/subfuncs.cpp`, `tests/*` | none | read a file, try a socket | not modelled |

The submodules (srsRAN, QuaDRiGa, the JSON library) are empty directories.

### How they interact

Every srsRAN process has a *tx* port, a REP socket that answers a request with
samples, and an *rx* port, a REQ socket that asks for samples and waits. A
broker has the opposite end of each: it *pulls* from the tx port of every
process with a REQ socket, and *serves* the rx port with a REP socket. What it
pulls from the gNB goes to all UEs (downlink); what it pulls from the UEs is
added up and goes to the gNB (uplink). All calls are non-blocking and made by
one thread in an endless polling loop. The channel server is the REP end of one
more such link; the broker's calls of it are disabled (`enable_matlab` is false
in `main.cpp`).

Inside MATLAB there is one thread too, but the window's callbacks run in every
`drawnow` and `pause` of it, in the middle of the loop and of
`updateChannelModel`.

A GNU Radio script declares a graph of blocks and starts it. GNU Radio runs each
block in a thread of its own; blocks interact only through the buffers of their
connections. `req_source` blocks pull from the peers' tx ports, `rep_sink` blocks
serve their rx ports, in between are a `multiply_const` per path loss and the
adder of the uplink; what the UEs send, and its sum, also goes to `file_sink`s
and plots. The main thread runs Qt: sliders call setters that change the
constants of working blocks. `debug_samples.py` reads the logs back and plots
them, a part of `num_samples` samples of each.

The client of `python_broker.py` connects one REQ socket to four servers. The
socket deals the requests out to them in turn; the client sends ten, and looks
once, without waiting, for the reply to each.

### What is hard about them

- Interleaving: peers answer, ask, die and return between any two socket calls;
  callbacks change the settings between two lines of the script; worker threads
  share a vector without a lock.
- Flags that stand for the state of a socket. If they part, `zmq_send` fails
  with EFSM for ever, and no test of single calls shows it.
- Limits: a full ring drops its oldest samples; a count is incremented without
  bound and overflows; a chunk starts behind the end of the vector.
- Partial failure: samples are popped before the send that may fail; a model
  update may fail half way.
- Restarts leave requests of a dead process in the queue and swallow others.
- Liveness: loops that skip, `continue` and retry must still serve everybody.
- Streams without time stamps: samples are added, logged and plotted by their
  position, while threads and peers run at any pace.
- A stream that forks goes on only as fast as its slowest branch; one that joins
  only as fast as its slowest input. Over buffers of limited size, both in one
  graph may stop it for good.
- The end of a program whose threads wait for peers that may never come.

### What makes each component correct

- Ring-buffer broker: flags agree with sockets; a ring is a contiguous piece of
  its stream, the newest; no sample is relayed twice; losses have causes; the
  UEs whose samples are added up stay aligned; who asks is served.
- Worker threads: no two threads at one UE, no UE left out, the call returns.
- Asynchronous broker: no UE batch dropped or added twice; the gNB's batch
  reaches the UEs; the overflowing count does no harm; who asks is served.
- First broker: a batch is only fetched when it can be delivered at once.
- Channel server: settings that were applied are in force once no update is
  pending; response and gain belong together; STOP works, soon and always; a
  client is answered or the script ends.
- GNU Radio brokers: streams stay aligned; each UE hears the gNB and the gNB all
  UEs, each with its own path loss; logs hold what their names say, and add up;
  no UE runs ahead; blocks never wait for each other in a circle; who asks is
  served; closing the window ends the program.
- Plots: each shows the log of its title, complete if the logs are.
- Python broker: which requests are answered, and who is left waiting.

## 2. The modules

### ZmqLinks — the sockets and the peers

External: sockets and srsRAN are not in the repository; the module says what
the brokers' code relies on. For every peer, `pull` is the state of the broker's
REQ socket and of its request (idle, sent, answered, or lost with the peer that
held it) and `reply` the answer; `asked`, `orphans` and `busy` are the requests
on the broker's REP socket: that of the living process, those left behind by
dead ones, and whether one was received and not yet replied to. `PeerAnswer`,
`PeerAsk` and `PeerRestart` are the peers' actions. Messages are not reordered
within a link, as TCP does not. Reconnection takes no time, and high-water marks
are never reached since each REQ socket has at most one request in flight.

### RingBroker — broker.cpp

One pass of the loop of `main` is a chain of actions, one per socket call:

| Code | Actions |
|---|---|
| `req_try_pull` for the gNB, then each UE (354-374) | `SendRequest`, `SendRefused`, `NothingToReceive`, `DiscardReply`, `PullFromGnb` (with `parallel_push`), `PullFromUe` |
| `rep_try_recv_request` (375-387) | `Listen` |
| downlink (389-403) | `ServeUe`, `SkipUe`, `LoseUeSlot` |
| uplink (405-431, with `parallel_pull`) | `ServeGnb`, `SkipGnb`, `LoseGnbSlot` |

`stage` and `cur` are the program counter. A sample is its position in its
stream, so that gaps, repetitions and misalignment can be seen; path loss
(a factor) is left out. `accepted`, `lastDl`, `lastUl`, `dlGap`, `ulGap` are
history variables that no guard but the bound on the streams reads.
A send may fail for want of resources (`LoseUeSlot`, `LoseGnbSlot`): the code
has popped the slot already. `rep_send_response` returns 0 then, and the test
for a negative value (401, 428) never fires.

### SampleRelay — what any relay promises

The abstract specification: slots of consecutive samples, in order, none twice,
none older than the ring is long, and an uplink slot from all UEs at once. It
may leave samples out. `RingBroker` implements it with the history variables as
the refinement mapping (`Relay`, `RelaySpec`).

### ChunkWorkers — the threads of broker.cpp

`parallel_push` and `parallel_pull` differ only in the work on a `UePath`.
`num_threads`, `chunk_size`, `Start`, `End` are the code's integer arithmetic;
`Spawn`, `Enter`, `Leave`, `Join` its steps. The broker's actions can treat the
calls as atomic because all threads are joined before they return
(`EachUeOnce`), and touch disjoint UEs (`NoRace`).

### AsyncBroker — Broker.cpp and Equipment.cpp

The loop of `run_async_world` with one action per call of an `Equipment`
method. The unit is the batch, the one message an Equipment can hold; its buffer
is `zeros`, `fresh` or `used` (forwarded already). `all_ues_rxes_ready` is an
int that `Wrap` lets overflow. What `start_the_proxy` does not reach with
`enable_matlab` false is left out: Broker.cpp 35-176 and 248-293, and the `OLD`
functions of Equipment.cpp.

Every `zmq_send` may fail, because the socket is in the wrong state or for want of
resources (`SendRefused`; `MaxSendFailures` bounds the latter). The code looks at
the result of none but the request: `send_samples_to_req_rx` resets `rx_ready` all
the same (108), and the REP socket owes a reply for good (`LoseUeBatch`,
`LoseGnbBatches`, `unsent`); a request that could not be sent leaves the last batch
in the buffer (77-82), which is added to the next sum again (`AskRefused`,
`unasked`). The properties name these two exceptions and no others.

### LockstepBroker — old_broker.cpp

The loop with one action per socket call or check. The length of the request to
one side is the return value of the receive from the other, -1 included
(`size_rep`, `CanAsk`): the loop depends on the failure of a send of size_t(-1).
Sends may fail for want of resources too, a request (`SendRequest`) as well as a
batch (`LoseBatch`), which resets `rx_redy` (193, 200) as in `AsyncBroker`.

### BatchRelay — what a broker without rings promises

The abstract specification of both brokers above: who asked and was not forwarded
to (`waiting`), and which batches were fetched and not forwarded (`held`). A batch
is fetched only when a listener waits and forwarded once, to everyone who waits at
that moment. A reply may be lost on the way (`LoseReply`): the peer is then cut off
(`cut`), and never counts as waiting again. `AsyncBroker` implements it with the
decision to send downlink as the forwarding, before the UEs are sent the batch one
by one;
`LockstepBroker` with the flag of a batch until it is forwarded in the pass that
received it (`Waiting`, `Held`, `RelaySpec` in both). Since "everyone who waits"
may be one UE of two, finding 1 is within this promise.

### ChannelServer — Quadriga.m

`stage` is the place in the main loop or in `updateChannelModel`; in the stages
of `Yielding` any number of callbacks may run. Settings are records of mode,
place (distance, scenario, clusters: compared alike), antenna height and path
loss model. `H` and `gain` say for which settings they were computed, or that
they are the fallback. Heights may contain `NaN`, which is what `str2double`
makes of text. The remaining numerics (path loss formulas and signal
processing) are abstracted to the outcomes of `ComputeOutcome` and
`Reply`/`ReplyFails`. What the QuaDRiGa toolbox returns has a shape (`Shapes`,
external), `getQuadrigaHfreq` makes a column of it or nothing, and
`StoredResponses` is 446-457, which leaves the old response in place, and stores the
new gain, when the size is wrong. `ChannelInForce` says that this never happens:
the checks of `getQuadrigaHfreq` let only columns of the right size through, so that
449-457 are never reached. Without the last of these checks (552; the mutation of
that property) a response of several snapshots would reach them.

`fig`, `statusText` and `currentGainText` are `global` in the function and not
in the script, so in `updateChannelModel` they are empty: the test for a closed
window (376) never fires. The model follows the code in this.

### GnuRadio — the scenarios and the plots at work

The scripts only wire blocks, so the module has two parts: what any graph of such
blocks does, and, as the value of the constant `Graphs`, the graphs the scripts
build. What the blocks do is not in the repository and marked external, as the
sockets are.

- `out[b]` is all that block `b` has put out, `read[e]` how many items were taken
  over connection `e`; their difference, `Fill`, is what the buffer of `e` holds,
  `BufferItems` at most. An item stands for the samples of one message and is the
  set of the signals added up in it, each with its origin, its position and the
  path loss it went through. Noise and amplitude are left out.
- A block works when every input has an item and every reader of its output has
  room (`CanRead`, `Room`). `SendRequest` and `Receive` are the `req_source`,
  `Reply` the `rep_sink`, which takes a request only when it has samples and so
  never leaves one unanswered, `Multiply`, `Add`, `ReadFile`, `PassOn` (the heads)
  and `Tap` (logs and plots) the others.
- `gui` is the main thread. A setter stores the value (`set_path_loss_db`) and then
  gives it to one block after the other (`set_k`, `todo`), the others working on.
  While Qt idles, no Python code runs and a signal waits for the timer (`timeout`);
  `sig_handler` runs there or inside a setter. `closeEvent` and `sig_handler` call
  `stop`, and `wait`, which returns (`WaitReturns`) when no thread sits in a poll of
  its socket: a poll ends with a message, or at its time limit (`PollEnds`,
  `zmq_timeout`, `expired`). Until then blocks go on; how far each gets after `stop`
  does not matter to a property.
- `session` says what is looked at: which script, how many messages each side is
  asked for, how often a slider is moved, whether the window is closed, whether
  peers are restarted, how long the logs are.

`OneUeScenario`, `TwoUeScenario`, `MultiUeScenario` and `DebugSamples` are the
graphs, read off `__init__`: ports, path losses, file names, titles, every
connection with the number of the input it leads to, and which blocks the setter
of each slider changes. `GnuRadioScripts` puts them together as `ScriptGraphs`.

How a graph ought to be wired is said once, for any graph (`WellWired`): every
socket is connected, each UE's sink is fed from the gNB through one path loss
(`DownlinkWired`), the gNB's by all UEs, each through its own (`UplinkWired`), the
sum's log by what is added up (`SumWired`), a plot of several logs by heads of the
logs (`PlotsWired`), logs and plots by the blocks their names speak of
(`NamesWired`), and each slider has exactly the blocks of its UE (`SlidersWired`).
What follows from it in every state are properties of their own: `NamesAreTrue`,
`BothWaysAlike` and `RightRadio`.

`AtRest` says that no block can work and no peer asks or answers; while the
window is open it is the negation of ENABLED of the steps of blocks and peers.
`NobodyStuck` is then the safety core of `AskersServed` and `PlotsComplete`: a
graph that has come to rest has not stopped early. `AskersServed` adds who must go
on for a peer to be served (`OthersGoOn`): the UEs that answer for the gNB; for a UE
the gNB that answers and, since the gNB's stream waits for the slowest, the other
UEs that ask. Nobody else is needed: a silent uplink stops no downlink, and UEs that
do not ask stop no uplink.

The sliders for noise, seed and slow-down store values that no block uses, and
are left out; so are setters nothing calls, `set_num_samples` among them.

### StreamRelay — what a broker made of streams promises

The abstract specification of the GNU Radio scripts. It knows only how many
messages each peer was relieved of (`taken`) and given (`given`), and the last
one given (`last`): the k-th message given to a peer is the sum of the k-th
messages of those it listens to, each with the path loss of the UE at one of its
ends, and messages are taken at most `DlWindow` or `UlWindow` ahead of the slowest
listener. `GnuRadio` implements it with two buffers for the downlink window and
three for the uplink's, one more for the adder (`Relay`, `RelaySpec`); blocks in
between, logs, plots, sliders, restarts and the end of the program are stutters.

### PythonBroker — python_broker.py

One action per socket call. `link[s]` is what is under way between the client and
server `s`: there is one message at most, as the REQ socket alternates. `Send` is
outside of the `try` (28): while a reply is due it raises, and the client is
`dead`. `Leave` is the end of the process, whose last request may have left it or
not. A server may bind late; ZeroMQ keeps the request for it.

### The others

`MCRingBroker`, `MCAsyncBroker`, `MCLockstepBroker`, `MCChannelServer` and
`MCGnuRadio` hold the values of constants that a cfg cannot write. The `*Proofs`
modules hold the theorems. Definitions commented as *Mutant* are plausible bugs
that show, by replacing the definition that follows them, that a property can fail;
no specification uses them.

## 3. The runs

| Run | Question | Bounds | Distinct states |
|---|---|---|---|
| `RingBrokerSafety` | Are rings contiguous, does `RingPush` what the loop of `ring_push` does, are UEs aligned, losses caused, and is `SampleRelay` implemented? | 2 UEs, slots of 2, rings of 3, replies of 3, two replies per peer, one failing send | 5.8 M |
| `RingBrokerRestarts` | Do flags and sockets agree, is the downlink gapless, and is a UE that asks served, through restarts? | 1 UE, 2 restarts in all of either side, one failing send | 0.9 M |
| `RingBrokerLive` | Is everyone served who asks? | 2 UEs, slots of 1, two replies per peer; peers may be silent | 0.6 M |
| `AsyncBroker` | Is `BatchRelay` implemented, are batches added once, is the count harmless, is everyone served who asks? | 2 UEs, one restart of the gNB or a UE, one failing send, int of -7..6 | 1.0 M |
| `AsyncBrokerDlAll` | Does the downlink reach all UEs? No (finding 1). | 2 UEs | — |
| `LockstepBroker` | Is no batch wasted, `BatchRelay` implemented, and each side served? | 3 restarts, 2 failing sends | 0.1 M |
| `ChunkWorkers` | Are chunks disjoint and complete? | 5 UEs, 4 threads | 201 |
| `ChannelServer` | Settings, stop, replies | 1 place, 2 heights, 2 models, 3 errors | 0.8 M |
| `ChannelServerRace` | Are applied settings always computed? No (finding 2). | 1 model | — |
| `ChannelServerNaN` | Are they in force when heights may be NaN? No (finding 3). | 2 places | — |
| `GnuRadio` | Is `StreamRelay` implemented, are UEs in step, logs and plots what they say and complete, does everyone get served and nobody stuck, does the program end? | the four graphs, 22 sessions, buffers of one item, one slider move | 82 k |
| `PythonBroker` | Who is left without an answer? | as in the code: 4 servers of 5, 10 requests | 304 |

Why the bounds are enough: in `RingBrokerSafety` a reply of three does not fit
a ring that still holds a sample, and slots of two leave a sample behind, so
every ring overflows, is popped, and is left half full, in every order; two UEs
are needed for alignment, and a third adds nothing that pairs do not show
(`UlAligned` is about pairs). Two restarts are needed for two stale requests in
one queue. The int of `AsyncBroker` is just long enough for the counts a pass
can add (`AsyncAssumption`), so that it overflows within a few passes; there, a gNB and
one UE of two are enough restarts, as the code treats its UEs alike. One failing
send is enough for every send there is, since a peer that is cut off stays so; a
second one in `LockstepBroker` meets what the first has left. Five UEs
on four threads is the smallest case with a chunk that begins behind the vector.
Three errors stand for ten. The streams are bounded by `MaxStream`, and
properties of liveness except the samples that never come (`Exhausted`). In
`GnuRadio` buffers of one item make every join and fork wait for every other
branch; the sessions split what would be too many interleavings at once: the
downlink alone with three messages, which is one more than the two buffers
between source and sink hold, so that a UE that does not ask stops the others; the
uplink alone, with and without a slider moved in between; both together only for
one UE, as the two directions share no block. Logs have two samples, and one of
the four may have none, one or three. TLC explores all of each graph, without
symmetry reduction. The theorems remove the bounds for most safety properties
(section 5).

Deadlock is checked in all runs but two. `GnuRadio` and `PythonBroker` really
stop: a script whose peers ask for no more, or that has ended, and servers that
wait for requests of a client that is gone. `Done` of ChunkWorkers and
ChannelServer is the state in which the code has returned.

Some properties are in no cfg, since they are proved and follow from, or carry,
others that are: `TypeOK`; `RxMatchesSockets`, `UlNeverDropped` and
`BatchesAreAwaited`, which the refinements of `BatchRelay` rest on; `SentOnce`; and
`RightRadio`, which says of the streams what `RelaySpec` says of the messages.

### Fairness

- The loops: `WF` of the next step of the code, since every call is
  non-blocking, the loops never sleep for ever, and no condition ends them (but
  `stopFlag` in MATLAB). For `ChunkWorkers`, each thread is scheduled.
- In MATLAB, a `drawnow` or `pause` ends: the user cannot press buttons so fast
  that it never does. This is `WF_vars(Loop)`; callbacks are not fair, and the
  client need not send.
- The peers: nothing is assumed in `FairSpec`. A property that needs a peer to
  answer says so itself (`AnswerFairness({Gnb}) => ...`, `Answers(p) => ...`), so
  that the run still contains behaviours in which the others are silent. Only
  `AskersServed` assumes that some peers ask, the other UEs in a GNU Radio script;
  with that premise left out TLC finds it violated. No property assumes that a peer
  stays alive.
- GNU Radio: the threads are scheduled, the main thread goes on, polls come to
  their time limit and the timer fires, so `WF` of their steps; the peers may fall
  silent. One `WF` of all the threads together is as strong as one for each: every
  step uses up some of a bounded supply (messages, items, requests), so a run that
  never lets a thread have its turn must stop while that thread could go on. The
  same goes for the peers in `OthersGoOn`. `AskersServed` excepts
  what a peer has no more samples for (`Drained`), and a request lost with a
  restarted peer. Nobody moves a slider, closes the window, hits Ctrl-C or
  restarts a peer by fairness.

## 4. Findings

1. `AsyncBrokerDlAll`: `async_send_samples_to_all_ues` sends when the count of
   waiting UEs is 2, but the count is added up over passes and not reset
   (`Broker.cpp` 379), so one waiting UE is counted twice, gets the batch alone,
   and the batch is marked as forwarded.
2. `ChannelServerRace`: settings applied in the last `drawnow` of
   `updateChannelModel` are stored, and the loop then clears the flag that asks
   for the update (220). The user is told that an update was requested, and that
   nothing changed when applying them again.
3. `ChannelServerNaN`: heights are not validated in full QuaDRiGa mode (763). A
   NaN height, once stored along with another change, compares as equal to every
   other (795-796), so correcting it is refused as no change.

`SettingsInForce` states what holds of the channel server apart from finding 2
(`late`), and its theorem assumes `NaN \notin Heights`, which excludes finding 3.

Limitations of the code that the models contain and no property calls wrong:

- A REQ socket whose peer died with the request waits for ever (`waiting` is never
  reset, `broker.cpp` 60), so a restarted peer that held a request is never asked
  again and liveness assumes a peer that answers; a request of a dead process
  costs one slot, which is sent to nobody. The same holds of the GNU Radio
  scripts: one UE restarted while it holds a request stops the uplink of all.
- After one reply that could not be sent, the asynchronous and the first broker
  never serve that peer again: the flag says that no request is pending, the REP
  socket still owes the reply, and every further receive fails with EFSM
  (`Equipment.cpp` 106-108, `old_broker.cpp` 191-200). `broker.cpp` keeps the request
  pending and tries again.
- After one request to a UE that could not be sent, the asynchronous broker adds
  the UE's last batch to the uplink a second time (`Equipment.cpp` 77-82 and
  `Broker.cpp` 338-342), unless the reply comes before the sum is made.
- In a GNU Radio script a UE that does not ask stops the downlink of the others
  within the buffers of the connections (`DownlinksInStep` says how far apart they
  get).
- The client of `python_broker.py` catches `zmq.Again`, but its socket then still
  waits for the reply and the next send raises: the first reply that is late is
  the last (`OneMissEnds`). "serves only 5 request and dies" (11) is true of the
  loop of a server, but no server comes to its end in this program: the client sends
  ten requests, and ZeroMQ deals them to four servers in turn. The program, which
  waits for all its processes, does not end.
- The slider of UE 2 in `one_ue_scenario.py` changes no block.
- One log that is missing or short stops all the plots of `debug_samples.py` that
  share a log with the plot of everything (`PlotsWaitForShortest`). Its
  `set_num_samples` would change the length of the heads and not of the plots;
  nothing calls it.

Outside the models: `hardware_concurrency` of 0 or no UEs divides by zero
(`broker.cpp` 211, 234; excluded by `ChunkAssumption`); with more than six UEs
`distance[i]` reads behind its array (323).

## 5. What is proved

All theorems are for every number of UEs, every slot size and capacity (a ring
holds a slot at least, `RingAssumption`), every set of replies, and any number of
restarts and of failing sends in all three C++ brokers. They use the named
assumptions of the modules, and the hypotheses a theorem names itself, and nothing
else.

- **RingBrokerProofs.** `IInv` is `TypeOK`, `SocketAgreement`,
  `RingHoldsNewest`, `SentOnce`, `DlGapless` and `UlAligned` together. They need
  each other: what a pop takes from a ring is known only because the ring is a
  contiguous piece of the stream, and that it follows the last sample sent only
  because of `SentOnce` and `DlGapless`. `PushKeepsNewest` and `PopKeepsNewest`
  say what `ring_push` and `ring_pop_exact` do to such a piece, and carry the
  data; there is one lemma per action that touches the streams and `QuietStep`
  for all the others. `ImplementsRelay` is the refinement: a pull is `Accept`, a
  slot is `RelayToUe` or `RelayToGnb`, every other step a stutter.
  `LossesHaveCauses` needs one more fact, `FormerFromRestart`: a request of a
  former incarnation, queued or received, is left over from a restart.
  `PushesAreLoops`: the definition of `RingPush` by `SubSeq` is the code's loop of
  single pushes (`PushLoop`). The induction over the arriving samples is made with
  sets: were the loop wrong somewhere, there would be a least number of rounds after
  which it is (`LeastNumber`, from the library's `WFMin`), and the round before
  contradicts it (`LoopComputes`).
- **AsyncBrokerProofs.** `IInv` adds to the properties where in the pass the loop
  is: a UE is asked only while the gNB waits (`AskedForGnb`), a request clears
  the buffer until the reply comes (`AskedBuffersClear`), so every UE that was
  asked or passed over in this pass holds no forwarded batch
  (`PassedBuffersUnused`), unless a request could not be sent. The count is followed through its overflow by
  `CountFacts`: a single pass cannot bring it from above two round to zero.
  `ImplementsRelay` is the refinement of `BatchRelay`; it needs in addition that
  the gNB is asked for a batch only after a count of two or more (`AskedForUes`) and
  that the downlink leaves no request behind (`DlProgress`).
- **LockstepBrokerProofs.** A length other than -1 is that of a request still
  unanswered (`SizesTell`), hence a batch received in this pass is awaited
  (`FetchedAwaited`), and so `ImplementsRelay`: no batch is given up.
- **ChunkWorkersProofs.** The arithmetic (`ChunksDisjoint`, `ChunksCover`) and,
  from it, `ThreadsDoNotRace` and `WorkDoneOnce`.
- **ChannelServerProofs.** Type correctness and `PromptStop` from where in the
  loop an error or a late request can have been counted (`Bounds`);
  `AppliedSettingsInForce` from `Agreement`, which says that
  settings found unchanged make the same channel, and that the model shown in the
  last `drawnow` is that of the settings unless they were changed there;
  `SamplesGetChannel` from it and from what getQuadrigaHfreq lets through
  (`SizesRight`, `GainStep`).
- **GnuRadioProofs.** For every graph that satisfies `GraphsAssumption` (which
  blocks there are and that they have ports of peers, not how they are connected),
  every size of the buffers and every number of messages. `IInv` is `TypeOK` and
  `FlowInv`: no reader is ahead of its writer or further behind it than a buffer
  (`Buffers`); a block that passes items on has put out as many as it has taken
  (`OneForOne`) and has taken the same number from every input (`Level`); files
  end (`FilesEnd`); the k-th item is of k-th messages (`InPosition`); an adder's
  k-th item is the sum of its inputs' k-th items (`SumsAddUp`). These need each
  other: position is kept because readers are level, and sums are because nothing
  that was put out changes. There is one lemma per kind of block. The other
  theorems need graphs that are wired in a certain way, which their hypotheses say
  (parts of `WellWired`, and `OneWay`):
  - `InStepAlways`, `SumsLogged` and `PlotsBounded` follow from `IInv` alone.
  - `SlidersTrue` from `Slides`: each block has the gain of its slider's value, or
    is among those the running setter has still to change.
  - `RadioRight` and `NamesRight` from `Contents`: every item of every stream is
    what its block makes of the items at the same place of its inputs (`Made`),
    whatever gain it was multiplied with. With `SumsAddUp`, the names at the end of
    a path are those of the sources at its beginning.
  - `ImplementsRelay`: the number of messages in `taken` and `given` are lengths of
    streams, which `Between` bounds by the buffers on the way; `SignedRight` says
    what the message in `last` is made of, from `IInv` and `Contents`.
  - `NoneStuck`: take the blocks of the same direction that have worked no more often
    than the socket that asks, or than the plot that lacks samples. Of those that
    have worked least, the first along the connections (which lead one way) has
    items on all its inputs and room at all its outputs (`SomeoneFree`), whatever the
    size of the buffers. At rest it can only be a source or a file that has given
    all it has (`FreeAtRest`). `Asking` is the invariant that ties the requests under
    way to the messages still to come. `OneWay` also says that the downlink has no
    connection with the uplink: if it had, a UE that does not ask could stop the
    uplink of the others.
- **ScriptProofs.** The graphs of the four scripts satisfy the hypotheses
  (`ScriptsWired`), so that `ScriptsTellTruth`, `ScriptsStayAligned`,
  `ScriptsImplementRelay` and `ScriptsNeverStuck` hold of the scripts themselves,
  in every use of them, with buffers of any size and any number of messages. The
  only hypothesis is that `Graphs` is `ScriptGraphs`, as it is in the run.
- **PythonBrokerProofs.** `Lockstep` says how the client's state, the requests it
  has sent and those it awaits belong together, and gives `OneMiss`.

Every safety property and action property of the passing runs is a theorem, and so
are the refinements. Only model-checked are the liveness properties (`DlServed`,
`UlServed`, `UeServed`, `GnbServed`, `Served`, `Returns`, `StopEnds`,
`ClientServed`, `AskersServed`, `PlotsComplete`, `CloseEnds`), which need fairness
and ENABLED, out of the prover's reach; of `AskersServed` and `PlotsComplete` the
part without fairness is proved (`NoneStuck`). That `AtRest` is the negation of
ENABLED TLC finds true of every state of the run; it is likewise not proved. The findings are
counterexamples TLC found, and need no proof.

## 6. What is not modelled, and why

- Sample values: path loss, noise, gain, FFT. The properties are about which
  samples meet, not about their sum.
- The MATLAB helpers of `Broker.cpp` and the first versions of its functions: they
  have no caller in the built program.
- GNU Radio's own scheduler, beyond one thread per block and bounded buffers; tags
  and messages, which the scripts do not use; how many samples a block takes at
  once, which only changes when items arrive and not which.
- The layout of the windows and the look of the plots, which is most of the text
  of the GNU Radio scripts; setters that nothing calls.
- Sizes of batches in `AsyncBroker`, and replies longer than the buffers.
- Signal scripts and clients of MATLAB, configuration parser, demonstrations: no
  state that outlives a call.

## 7. Order of the work, and what could follow

Done, in this order: the sockets (`ZmqLinks`); the ring-buffer broker with its
abstract relay and its threads; the asynchronous broker; the first broker; the
channel server; the safety theorems; the GNU Radio scripts and the plots; the
Python broker; their theorems; the relay of batches and its refinements; the relay
of streams, the theorems about the wiring, and that the four scripts satisfy them.

What would add most next:

1. Batch sizes in `AsyncBroker` (`ready_to_tx_n_bytes`, `max_size`), to see which
   bytes of a longer batch are added to those of a shorter one.
2. The `enable_matlab` paths of `Broker.cpp` composed with the channel server,
   once the program enables them.
