---------------------------- MODULE ScriptProofs ----------------------------
(***************************************************************************)
(* Proofs about the four scripts of the repository: their graphs are wired *)
(* as GnuRadioProofs supposes, so that what it proves of well-wired graphs *)
(* holds of them, for any sessions, any size of the buffers and any peers. *)
(*                                                                         *)
(* A script's lemma first reads tables off its module: the peers of its    *)
(* sockets, the UEs of its multiply_consts, which block feeds which, the   *)
(* names of its logs and plots.  Then the graph is hidden, and the tables  *)
(* give each part of WellWired.                                            *)
(***************************************************************************)
EXTENDS GnuRadioScripts, GnuRadioProofs

\* The peers of the ports.
LEMMA Ports ==
  /\ PeerAt(2000) = 0 /\ PeerAt(2101) = 1 /\ PeerAt(2201) = 2 /\ PeerAt(2301) = 3
  /\ PeerAt(2001) = 0 /\ PeerAt(2100) = 1 /\ PeerAt(2200) = 2 /\ PeerAt(2300) = 3
BY DEF PeerAt

\* The UEs the names speak of.
LEMMA NamesOf ==
  /\ Named("UE1") = {1} /\ Named("gnu_ue1.log") = {1}
  /\ Named("UE2") = {2} /\ Named("gnu_ue2.log") = {2}
  /\ Named("UE3") = {3} /\ Named("gnu_ue3.log") = {3}
  /\ Named("MULTIPLE UES ADD") = {1, 2, 3} /\ Named("Multiple") = {1, 2, 3}
  /\ Named("Testing") = {1, 2, 3} /\ Named("gnu_multi.log") = {1, 2, 3}
<1>1. 1 .. 3 = {1, 2, 3}
  OBVIOUS
<1> QED BY <1>1 DEF Named

\* Every connection starts in one of three stages of blocks and ends in a later
\* one, or beyond the last.
Staged(g, first, second, third) ==
  \A b, c : Feeds(g, b, c) =>
    \/ b \in first /\ c \notin first
    \/ b \in second \ first /\ c \notin first \cup second
    \/ b \in third \ (first \cup second) /\ c \notin first \cup second \cup third

\* dl is the downlink: what starts at gNb and ends at the UEs.
Downlink(g, dl) ==
  /\ \A b, c : Feeds(g, b, c) => (b \in dl <=> c \in dl)
  /\ \A b \in DOMAIN g.sources : b \in dl <=> PeerAt(g.sources[b]) = Gnb
  /\ \A b \in DOMAIN g.sinks : b \in dl <=> PeerAt(g.sinks[b]) # Gnb

\* What multiplies, adds or counts is fed, and feeds another block.
InnerJoined(g) ==
  \A b \in DOMAIN g.multipliers \cup g.adders \cup g.heads :
    (\E c : Feeds(g, c, b)) /\ (\E c : Feeds(g, b, c))

\* Every input of a display is connected.
DisplaysFed(g) ==
  \A b \in DOMAIN g.displays : \A i \in 0 .. g.displays[b].inputs - 1 :
    \E e \in g.edges : To(e) = b /\ Input(e) = i

\* A graph leads one way if it leads from its sources through at most two
\* stages of blocks, and no connection leaves or enters the downlink.
LEMMA ByStages ==
  ASSUME NEW g, NEW first, NEW second, NEW third, NEW dl,
         SocketsWired(g), Staged(g, first, second, third), Downlink(g, dl),
         InnerJoined(g), DisplaysFed(g), DOMAIN g.files = {} => g.heads = {}
  PROVE  OneWay(g)
<1> DEFINE blocks == {From(e) : e \in g.edges} \cup {To(e) : e \in g.edges}
           stage(b) == IF b \in first THEN 0
                       ELSE IF b \in second THEN 1 ELSE IF b \in third THEN 2 ELSE 3
<1>1. \A e \in g.edges : Feeds(g, From(e), To(e)) /\ From(e) \in blocks /\ To(e) \in blocks
  BY DEF Feeds
<1>2. \E rank \in [blocks -> Nat] : \A e \in g.edges : rank[From(e)] < rank[To(e)]
  <2> DEFINE rank == [b \in blocks |-> stage(b)]
  <2>1. rank \in [blocks -> Nat]
    OBVIOUS
  <2>2. \A e \in g.edges : stage(From(e)) < stage(To(e))
    BY <1>1 DEF Staged
  <2> HIDE DEF stage, blocks
  <2>3. \A e \in g.edges : rank[From(e)] < rank[To(e)]
    BY <1>1, <2>2
  <2> QED BY <2>1, <2>3
<1>3. \E d \in SUBSET blocks :
        /\ \A e \in g.edges : From(e) \in d <=> To(e) \in d
        /\ \A b \in DOMAIN g.sources : b \in d <=> PeerAt(g.sources[b]) = Gnb
        /\ \A b \in DOMAIN g.sinks : b \in d <=> PeerAt(g.sinks[b]) # Gnb
  <2>1. /\ \A b \in DOMAIN g.sources : b \in blocks
        /\ \A b \in DOMAIN g.sinks : b \in blocks
    BY DEF SocketsWired
  <2> HIDE DEF blocks
  <2>2. WITNESS dl \cap blocks \in SUBSET blocks
  <2> QED BY <1>1, <2>1 DEF Downlink
<1>4. \A b \in DOMAIN g.multipliers \cup g.adders \cup g.heads :
        \E e, f \in g.edges : To(e) = b /\ From(f) = b
  BY DEF Feeds, InnerJoined
<1> QED BY <1>2, <1>3, <1>4 DEF OneWay, DisplaysFed

-----------------------------------------------------------------------------
(* one_ue_scenario.py                                                      *)

\* The parts of its graph.
LEMMA OneParts ==
  LET g == ScriptGraphs.one IN
  /\ g.sources = One!Sources /\ g.sinks = One!Sinks
  /\ g.multipliers = One!Multipliers /\ g.adders = {}
  /\ g.logs = One!Logs /\ g.displays = One!Displays
  /\ g.files = Nothing /\ g.heads = {} /\ g.edges = One!Edges
  /\ g.pathloss = One!PathLoss /\ g.setters = One!Setters
BY DEF ScriptGraphs, Scenario

\* one_ue_scenario.py is wired as it should be.
LEMMA OneRight == WellWired(ScriptGraphs.one) /\ OneWay(ScriptGraphs.one)
<1> DEFINE g == ScriptGraphs.one
<1>1. /\ DOMAIN g.sources = {"req_source_1", "req_source_0"}
      /\ PeerAt(g.sources["req_source_0"]) = 0 /\ PeerAt(g.sources["req_source_1"]) = 1
  BY OneParts, Ports DEF One!Sources
<1>2. /\ DOMAIN g.sinks = {"rep_sink_0_1", "rep_sink_0"}
      /\ PeerAt(g.sinks["rep_sink_0_1"]) = 0 /\ PeerAt(g.sinks["rep_sink_0"]) = 1
  BY OneParts, Ports DEF One!Sinks
<1>3. /\ DOMAIN g.multipliers = {"multiply_const_vxx_0_1", "multiply_const_vxx_0"}
      /\ g.multipliers["multiply_const_vxx_0"] = 1
      /\ g.multipliers["multiply_const_vxx_0_1"] = 1
  BY OneParts DEF One!Multipliers
<1>4. \A b, c : Feeds(g, b, c) <=>
       \/ /\ b = "multiply_const_vxx_0"
          /\ c \in {"file_sink_0", "file_sink_0_0", "time_sink_x_0", "time_sink_x_0_0",
                    "rep_sink_0_1"}
       \/ b = "req_source_1" /\ c = "multiply_const_vxx_0"
       \/ b = "req_source_0" /\ c = "multiply_const_vxx_0_1"
       \/ b = "multiply_const_vxx_0_1" /\ c = "rep_sink_0"
  BY OneParts DEF Feeds, From, To, One!Edges
<1>5. \A e \in g.edges : Feeds(g, From(e), To(e))
  BY DEF Feeds
<1>6. g.files = Nothing /\ g.heads = {} /\ g.adders = {}
  BY OneParts
<1>7. /\ DOMAIN g.logs = {"file_sink_0_0", "file_sink_0"}
      /\ g.logs["file_sink_0_0"] = "gnu_ue1.log"
      /\ g.logs["file_sink_0"] = "gnu_multi.log"
  BY OneParts DEF One!Logs
<1>8. /\ DOMAIN g.displays = {"time_sink_x_0_0", "time_sink_x_0"}
      /\ g.displays["time_sink_x_0_0"].title = "UE1"
      /\ g.displays["time_sink_x_0"].title = "MULTIPLE UES ADD"
  <2>1. /\ DOMAIN One!Displays = {"time_sink_x_0_0", "time_sink_x_0"}
        /\ One!Displays["time_sink_x_0_0"].title = "UE1"
        /\ One!Displays["time_sink_x_0"].title = "MULTIPLE UES ADD"
    BY DEF One!Displays
  <2> QED BY <2>1, OneParts
<1>9. g.setters = One!Setters
  BY OneParts
<1>10. DOMAIN Nothing = {}
  BY DEF Nothing
<1> HIDE DEF g
<1>11. DownlinkWired(g)
  BY <1>1, <1>2, <1>3, <1>4, <1>5 DEF DownlinkWired, Gnb
<1>12. PlotsWired(g)
  BY <1>6, <1>10 DEF PlotsWired
<1>13. SlidersWired(g)
  <2>1. \A b \in DOMAIN g.multipliers :
       LET blocks == g.setters[g.multipliers[b]] IN \E i \in DOMAIN blocks : blocks[i] = b
    BY <1>3, <1>9 DEF One!Setters
  <2>2. \A u \in DOMAIN g.setters : \A i \in DOMAIN g.setters[u] :
       g.multipliers[g.setters[u][i]] = u
    BY <1>3, <1>9 DEF One!Setters
  <2>3. \A e \in g.edges :
       /\ From(e) \in DOMAIN g.multipliers /\ To(e) \in DOMAIN g.sinks =>
            PeerAt(g.sinks[To(e)]) \in {Gnb, g.multipliers[From(e)]}
       /\ From(e) \in DOMAIN g.sources /\ To(e) \in DOMAIN g.multipliers =>
            PeerAt(g.sources[From(e)]) \in {Gnb, g.multipliers[To(e)]}
    BY <1>1, <1>2, <1>3, <1>4, <1>5 DEF Gnb
  <2>4. \A b \in DOMAIN g.sources : \E c \in DOMAIN g.sinks :
       PeerAt(g.sinks[c]) = PeerAt(g.sources[b])
    BY <1>1, <1>2
  <2> QED BY <2>1, <2>2, <2>3, <2>4 DEF SlidersWired
<1>14. UesOf(g) = {1}
  BY <1>1 DEF UesOf, Gnb
<1>15. Scales(g, "multiply_const_vxx_0", 1, 1)
  BY <1>1, <1>3, <1>4 DEF Scales
<1>16. Carries(g, "multiply_const_vxx_0", {1})
  BY <1>15 DEF Carries
<1>17. UplinkWired(g)
  BY <1>2, <1>4, <1>5, <1>14, <1>16 DEF UplinkWired, Gnb
<1>18. ASSUME NEW e \in g.edges, To(e) \in DOMAIN g.logs \cup DOMAIN g.displays
       PROVE  Carries(g, From(e), About(g, e) \cap UesOf(g))
  <2>1. About(g, e) = Named(Label(g, To(e)))
    BY <1>7, <1>8, <1>18 DEF About, Label
  <2>2. About(g, e) \in {{1}, {1, 2, 3}}
    BY <1>7, <1>8, <1>18, <2>1, NamesOf DEF Label
  <2>3. {1} \cap {1} = {1} /\ {1, 2, 3} \cap {1} = {1}
    OBVIOUS
  <2>4. About(g, e) \cap UesOf(g) = {1}
    BY <1>14, <2>2, <2>3
  <2>5. From(e) = "multiply_const_vxx_0"
    <3>1. To(e) \in {"file_sink_0", "file_sink_0_0", "time_sink_x_0", "time_sink_x_0_0"}
      BY <1>7, <1>8, <1>18
    <3> QED BY <1>4, <1>5, <3>1
  <2> QED BY <1>16, <2>4, <2>5
<1>19. NamesWired(g)
  BY <1>6, <1>10, <1>18 DEF NamesWired
<1>20. UeStreams(g) = {"multiply_const_vxx_0"}
  <2>1. \A b : b \in UeStreams(g) <=> \E c \in DOMAIN g.logs : g.logs[c] # SumLog /\ Feeds(g, b, c)
    BY DEF UeStreams, Feeds
  <2> QED BY <1>4, <1>7, <2>1 DEF SumLog
<1>21. SumWired(g)
  BY <1>4, <1>5, <1>7, <1>20 DEF SumWired
<1>22. SocketsWired(g)
  <2>1. \A b \in DOMAIN g.sources : \E c : Feeds(g, b, c)
    BY <1>1, <1>4
  <2>2. \A c \in DOMAIN g.sinks : \E b : Feeds(g, b, c)
    BY <1>2, <1>4
  <2>3. \A c \in DOMAIN g.sinks : \E b \in DOMAIN g.sources :
       PeerAt(g.sources[b]) = PeerAt(g.sinks[c])
    BY <1>1, <1>2
  <2>4. \A b, c \in DOMAIN g.sinks : PeerAt(g.sinks[b]) = PeerAt(g.sinks[c]) => b = c
    BY <1>2
  <2> QED BY <2>1, <2>2, <2>3, <2>4 DEF SocketsWired, Feeds
<1>23. DisplaysFed(g)
  <2>1. /\ One!Displays["time_sink_x_0_0"].inputs = 1
        /\ One!Displays["time_sink_x_0"].inputs = 1
    BY DEF One!Displays
  <2>2. \A b \in DOMAIN g.displays : g.displays[b].inputs = 1
    BY <1>8, <2>1, OneParts DEF g
  <2>3. /\ <<"multiply_const_vxx_0", "time_sink_x_0", 0>> \in g.edges
        /\ <<"multiply_const_vxx_0", "time_sink_x_0_0", 0>> \in g.edges
    BY OneParts DEF g, One!Edges
  <2>4. \A b \in DOMAIN g.displays : \E e \in g.edges : To(e) = b /\ Input(e) = 0
    BY <1>8, <2>3 DEF To, Input
  <2> QED BY <2>2, <2>4 DEF DisplaysFed
<1>24. OneWay(g)
  <2> DEFINE dl == {"req_source_0", "multiply_const_vxx_0_1", "rep_sink_0"}
  <2>1. Downlink(g, dl)
    <3>1. \A b, c : Feeds(g, b, c) => (b \in dl <=> c \in dl)
      BY <1>4
    <3>2. \A b \in DOMAIN g.sources : b \in dl <=> PeerAt(g.sources[b]) = Gnb
      BY <1>1 DEF Gnb
    <3>3. \A b \in DOMAIN g.sinks : b \in dl <=> PeerAt(g.sinks[b]) # Gnb
      BY <1>2 DEF Gnb
    <3> HIDE DEF dl
    <3> QED BY <3>1, <3>2, <3>3 DEF Downlink
  <2>2. InnerJoined(g)
    BY <1>3, <1>4, <1>6 DEF InnerJoined
  <2>3. Staged(g, DOMAIN g.sources, DOMAIN g.multipliers, g.adders)
    BY <1>1, <1>3, <1>4, <1>6 DEF Staged
  <2>4. g.heads = {}
    BY <1>6
  <2> HIDE DEF dl
  <2> QED BY <1>23, <1>22, <2>1, <2>2, <2>3, <2>4, ByStages
<1> QED BY <1>11, <1>12, <1>13, <1>17, <1>19, <1>21, <1>22, <1>24 DEF WellWired, g

-----------------------------------------------------------------------------
(* two_ue_scenario.py                                                      *)

\* The parts of its graph.
LEMMA TwoParts ==
  LET g == ScriptGraphs.two IN
  /\ g.sources = Two!Sources /\ g.sinks = Two!Sinks
  /\ g.multipliers = Two!Multipliers /\ g.adders = Two!Adders
  /\ g.logs = Two!Logs /\ g.displays = Two!Displays
  /\ g.files = Nothing /\ g.heads = {} /\ g.edges = Two!Edges
  /\ g.pathloss = Two!PathLoss /\ g.setters = Two!Setters
BY DEF ScriptGraphs, Scenario

\* two_ue_scenario.py is wired as it should be.
LEMMA TwoRight == WellWired(ScriptGraphs.two) /\ OneWay(ScriptGraphs.two)
<1> DEFINE g == ScriptGraphs.two
<1>1. /\ DOMAIN g.sources = {"req_source_0", "req_source_1", "req_source_1_0"}
      /\ PeerAt(g.sources["req_source_0"]) = 0 /\ PeerAt(g.sources["req_source_1"]) = 1
      /\ PeerAt(g.sources["req_source_1_0"]) = 2
  BY TwoParts, Ports DEF Two!Sources
<1>2. /\ DOMAIN g.sinks = {"rep_sink_0_1", "rep_sink_0", "rep_sink_0_0"}
      /\ PeerAt(g.sinks["rep_sink_0_1"]) = 0 /\ PeerAt(g.sinks["rep_sink_0"]) = 1
      /\ PeerAt(g.sinks["rep_sink_0_0"]) = 2
  BY TwoParts, Ports DEF Two!Sinks
<1>3. /\ DOMAIN g.multipliers = {"multiply_const_vxx_0", "multiply_const_vxx_0_0",
          "multiply_const_vxx_0_1", "multiply_const_vxx_0_1_1"}
      /\ g.multipliers["multiply_const_vxx_0"] = 1
      /\ g.multipliers["multiply_const_vxx_0_0"] = 2
      /\ g.multipliers["multiply_const_vxx_0_1"] = 1
      /\ g.multipliers["multiply_const_vxx_0_1_1"] = 2
  BY TwoParts DEF Two!Multipliers
<1>4. \A b, c : Feeds(g, b, c) <=>
       \/ b = "add_xx_0" /\ c \in {"file_sink_0", "time_sink_x_0", "rep_sink_0_1"}
       \/ b = "multiply_const_vxx_0" /\ c \in {"add_xx_0", "file_sink_0_0", "time_sink_x_0_0"}
       \/ b = "multiply_const_vxx_0_0" /\ c \in {"add_xx_0", "file_sink_0_0_0", "time_sink_x_0_0_1"}
       \/ b = "req_source_0" /\ c \in {"multiply_const_vxx_0_1", "multiply_const_vxx_0_1_1"}
       \/ b = "multiply_const_vxx_0_1" /\ c = "rep_sink_0"
       \/ b = "multiply_const_vxx_0_1_1" /\ c = "rep_sink_0_0"
       \/ b = "req_source_1" /\ c = "multiply_const_vxx_0"
       \/ b = "req_source_1_0" /\ c = "multiply_const_vxx_0_0"
  BY TwoParts DEF Feeds, From, To, Two!Edges, Two!SumEdges, Two!UplinkEdges, Two!DownlinkEdges, Two!SourceEdges
<1>5. \A e \in g.edges : Feeds(g, From(e), To(e))
  BY DEF Feeds
<1>6. /\ g.adders = {"add_xx_0"} /\ g.files = Nothing /\ g.heads = {}
  BY TwoParts DEF Two!Adders
<1>7. /\ DOMAIN g.logs = {"file_sink_0_0_0", "file_sink_0_0", "file_sink_0"}
      /\ g.logs["file_sink_0_0_0"] = "gnu_ue2.log"
      /\ g.logs["file_sink_0_0"] = "gnu_ue1.log"
      /\ g.logs["file_sink_0"] = "gnu_multi.log"
  BY TwoParts DEF Two!Logs
<1>8. /\ DOMAIN g.displays = {"time_sink_x_0_0_1", "time_sink_x_0_0", "time_sink_x_0"}
      /\ g.displays["time_sink_x_0_0_1"].title = "UE2"
      /\ g.displays["time_sink_x_0_0"].title = "UE1"
      /\ g.displays["time_sink_x_0"].title = "MULTIPLE UES ADD"
  <2>1. /\ DOMAIN Two!Displays = {"time_sink_x_0_0_1", "time_sink_x_0_0", "time_sink_x_0"}
        /\ Two!Displays["time_sink_x_0_0_1"].title = "UE2"
        /\ Two!Displays["time_sink_x_0_0"].title = "UE1"
        /\ Two!Displays["time_sink_x_0"].title = "MULTIPLE UES ADD"
    BY DEF Two!Displays
  <2> QED BY <2>1, TwoParts
<1>9. g.setters = Two!Setters
  BY TwoParts
<1>10. DOMAIN Nothing = {}
  BY DEF Nothing
<1> HIDE DEF g
<1>11. DownlinkWired(g)
  BY <1>1, <1>2, <1>3, <1>4, <1>5 DEF DownlinkWired, Gnb
<1>12. PlotsWired(g)
  BY <1>6, <1>10 DEF PlotsWired
<1>13. SlidersWired(g)
  <2>1. \A b \in DOMAIN g.multipliers :
       LET blocks == g.setters[g.multipliers[b]] IN \E i \in DOMAIN blocks : blocks[i] = b
    BY <1>3, <1>9 DEF Two!Setters
  <2>2. \A u \in DOMAIN g.setters : \A i \in DOMAIN g.setters[u] :
       g.multipliers[g.setters[u][i]] = u
    BY <1>3, <1>9 DEF Two!Setters
  <2>3. \A e \in g.edges :
       /\ From(e) \in DOMAIN g.multipliers /\ To(e) \in DOMAIN g.sinks =>
            PeerAt(g.sinks[To(e)]) \in {Gnb, g.multipliers[From(e)]}
       /\ From(e) \in DOMAIN g.sources /\ To(e) \in DOMAIN g.multipliers =>
            PeerAt(g.sources[From(e)]) \in {Gnb, g.multipliers[To(e)]}
    BY <1>1, <1>2, <1>3, <1>4, <1>5 DEF Gnb
  <2>4. \A b \in DOMAIN g.sources : \E c \in DOMAIN g.sinks :
       PeerAt(g.sinks[c]) = PeerAt(g.sources[b])
    BY <1>1, <1>2
  <2> QED BY <2>1, <2>2, <2>3, <2>4 DEF SlidersWired
<1>14. UesOf(g) = {1, 2}
  BY <1>1 DEF UesOf, Gnb
<1>15. /\ Scales(g, "multiply_const_vxx_0", 1, 1)
       /\ Scales(g, "multiply_const_vxx_0_0", 2, 2)
  BY <1>1, <1>3, <1>4 DEF Scales
<1>16. /\ Carries(g, "multiply_const_vxx_0", {1})
       /\ Carries(g, "multiply_const_vxx_0_0", {2})
  BY <1>15 DEF Carries
<1>17. Carries(g, "add_xx_0", {1, 2})
  BY <1>3, <1>4, <1>5, <1>6, <1>15 DEF Carries
<1>18. UplinkWired(g)
  BY <1>2, <1>4, <1>5, <1>14, <1>17 DEF UplinkWired, Gnb
<1>19. ASSUME NEW e \in g.edges, To(e) \in DOMAIN g.logs \cup DOMAIN g.displays
       PROVE  Carries(g, From(e), About(g, e) \cap UesOf(g))
  <2>1. About(g, e) = Named(Label(g, To(e)))
    BY <1>7, <1>8, <1>19 DEF About, Label
  <2>2. CASE To(e) \in {"file_sink_0", "time_sink_x_0"}
    <3>1. From(e) = "add_xx_0"
      BY <1>4, <1>5, <2>2
    <3>2. About(g, e) = {1, 2, 3}
      BY <1>7, <1>8, <2>1, <2>2, NamesOf DEF Label
    <3>3. {1, 2, 3} \cap {1, 2} = {1, 2}
      OBVIOUS
    <3> QED BY <1>14, <1>16, <1>17, <3>1, <3>2, <3>3
  <2>3. CASE To(e) \in {"file_sink_0_0", "time_sink_x_0_0"}
    <3>1. From(e) = "multiply_const_vxx_0"
      BY <1>4, <1>5, <2>3
    <3>2. About(g, e) = {1}
      BY <1>7, <1>8, <2>1, <2>3, NamesOf DEF Label
    <3>3. {1} \cap {1, 2} = {1}
      OBVIOUS
    <3> QED BY <1>14, <1>16, <1>17, <3>1, <3>2, <3>3
  <2>4. CASE To(e) \in {"file_sink_0_0_0", "time_sink_x_0_0_1"}
    <3>1. From(e) = "multiply_const_vxx_0_0"
      BY <1>4, <1>5, <2>4
    <3>2. About(g, e) = {2}
      BY <1>7, <1>8, <2>1, <2>4, NamesOf DEF Label
    <3>3. {2} \cap {1, 2} = {2}
      OBVIOUS
    <3> QED BY <1>14, <1>16, <1>17, <3>1, <3>2, <3>3
  <2> QED BY <1>7, <1>8, <1>19, <2>2, <2>3, <2>4
<1>20. NamesWired(g)
  BY <1>6, <1>10, <1>19 DEF NamesWired
<1>21. UeStreams(g) = {"multiply_const_vxx_0", "multiply_const_vxx_0_0"}
  <2>1. \A b : b \in UeStreams(g) <=> \E c \in DOMAIN g.logs : g.logs[c] # SumLog /\ Feeds(g, b, c)
    BY DEF UeStreams, Feeds
  <2> QED BY <1>4, <1>7, <2>1 DEF SumLog
<1>22. {From(f) : f \in {f \in g.edges : To(f) = "add_xx_0"}}
         = {"multiply_const_vxx_0", "multiply_const_vxx_0_0"}
  <2>1. \A b : b \in {From(f) : f \in {f \in g.edges : To(f) = "add_xx_0"}} <=> Feeds(g, b, "add_xx_0")
    BY DEF Feeds
  <2> QED BY <1>4, <2>1
<1>23. SumWired(g)
  <2> SUFFICES ASSUME NEW e \in g.edges, To(e) \in DOMAIN g.logs, g.logs[To(e)] = SumLog
               PROVE  From(e) = "add_xx_0"
    BY <1>6, <1>21, <1>22 DEF SumWired
  <2> QED BY <1>4, <1>5, <1>7 DEF SumLog
<1>24. SocketsWired(g)
  <2>1. \A b \in DOMAIN g.sources : \E c : Feeds(g, b, c)
    BY <1>1, <1>4
  <2>2. \A c \in DOMAIN g.sinks : \E b : Feeds(g, b, c)
    BY <1>2, <1>4
  <2>3. \A c \in DOMAIN g.sinks : \E b \in DOMAIN g.sources :
       PeerAt(g.sources[b]) = PeerAt(g.sinks[c])
    BY <1>1, <1>2
  <2>4. \A b, c \in DOMAIN g.sinks : PeerAt(g.sinks[b]) = PeerAt(g.sinks[c]) => b = c
    BY <1>2
  <2> QED BY <2>1, <2>2, <2>3, <2>4 DEF SocketsWired, Feeds
<1>25. DisplaysFed(g)
  <2>1. /\ Two!Displays["time_sink_x_0_0_1"].inputs = 1
        /\ Two!Displays["time_sink_x_0_0"].inputs = 1
        /\ Two!Displays["time_sink_x_0"].inputs = 1
    BY DEF Two!Displays
  <2>2. \A b \in DOMAIN g.displays : g.displays[b].inputs = 1
    BY <1>8, <2>1, TwoParts DEF g
  <2>3. /\ <<"add_xx_0", "time_sink_x_0", 0>> \in g.edges
        /\ <<"multiply_const_vxx_0", "time_sink_x_0_0", 0>> \in g.edges
        /\ <<"multiply_const_vxx_0_0", "time_sink_x_0_0_1", 0>> \in g.edges
    BY TwoParts DEF g, Two!Edges, Two!SumEdges, Two!UplinkEdges
  <2>4. \A b \in DOMAIN g.displays : \E e \in g.edges : To(e) = b /\ Input(e) = 0
    BY <1>8, <2>3 DEF To, Input
  <2> QED BY <2>2, <2>4 DEF DisplaysFed
<1>26. OneWay(g)
  <2> DEFINE dl == {"req_source_0", "multiply_const_vxx_0_1", "multiply_const_vxx_0_1_1",
                 "rep_sink_0", "rep_sink_0_0"}
  <2>1. Downlink(g, dl)
    <3>1. \A b, c : Feeds(g, b, c) => (b \in dl <=> c \in dl)
      BY <1>4
    <3>2. \A b \in DOMAIN g.sources : b \in dl <=> PeerAt(g.sources[b]) = Gnb
      BY <1>1 DEF Gnb
    <3>3. \A b \in DOMAIN g.sinks : b \in dl <=> PeerAt(g.sinks[b]) # Gnb
      BY <1>2 DEF Gnb
    <3> HIDE DEF dl
    <3> QED BY <3>1, <3>2, <3>3 DEF Downlink
  <2>2. InnerJoined(g)
    BY <1>3, <1>4, <1>6 DEF InnerJoined
  <2>3. Staged(g, DOMAIN g.sources, DOMAIN g.multipliers, g.adders)
    BY <1>1, <1>3, <1>4, <1>6 DEF Staged
  <2>4. g.heads = {}
    BY <1>6
  <2> HIDE DEF dl
  <2> QED BY <1>25, <1>24, <2>1, <2>2, <2>3, <2>4, ByStages
<1> QED BY <1>11, <1>12, <1>13, <1>18, <1>20, <1>23, <1>24, <1>26 DEF WellWired, g
-----------------------------------------------------------------------------
(* multi_ue_scenario.py                                                    *)

\* The parts of its graph.
LEMMA MultiParts ==
  LET g == ScriptGraphs.multi IN
  /\ g.sources = Multi!Sources /\ g.sinks = Multi!Sinks
  /\ g.multipliers = Multi!Multipliers /\ g.adders = Multi!Adders
  /\ g.logs = Multi!Logs /\ g.displays = Both(Multi!UeDisplays, Multi!SumDisplay)
  /\ g.files = Nothing /\ g.heads = {} /\ g.edges = Multi!Edges
  /\ g.pathloss = Multi!PathLoss /\ g.setters = Multi!Setters
BY DEF ScriptGraphs, Scenario

\* multi_ue_scenario.py is wired as it should be.
LEMMA MultiRight == WellWired(ScriptGraphs.multi) /\ OneWay(ScriptGraphs.multi)
<1> DEFINE g == ScriptGraphs.multi
<1>1. /\ DOMAIN g.sources = {"req_source_0", "req_source_1", "req_source_1_0", "req_source_0_0"}
      /\ PeerAt(g.sources["req_source_0"]) = 0 /\ PeerAt(g.sources["req_source_1"]) = 1
      /\ PeerAt(g.sources["req_source_1_0"]) = 2 /\ PeerAt(g.sources["req_source_0_0"]) = 3
  BY MultiParts, Ports DEF Multi!Sources
<1>2. /\ DOMAIN g.sinks = {"rep_sink_0_1", "rep_sink_0", "rep_sink_0_0", "rep_sink_0_2"}
      /\ PeerAt(g.sinks["rep_sink_0_1"]) = 0 /\ PeerAt(g.sinks["rep_sink_0"]) = 1
      /\ PeerAt(g.sinks["rep_sink_0_0"]) = 2 /\ PeerAt(g.sinks["rep_sink_0_2"]) = 3
  BY MultiParts, Ports DEF Multi!Sinks
<1>3. /\ DOMAIN g.multipliers = {"multiply_const_vxx_0", "multiply_const_vxx_0_0", "multiply_const_vxx_0_0_0",
          "multiply_const_vxx_0_1", "multiply_const_vxx_0_1_1", "multiply_const_vxx_0_1_0"}
      /\ g.multipliers["multiply_const_vxx_0"] = 1
      /\ g.multipliers["multiply_const_vxx_0_0"] = 2
      /\ g.multipliers["multiply_const_vxx_0_0_0"] = 3
      /\ g.multipliers["multiply_const_vxx_0_1"] = 1
      /\ g.multipliers["multiply_const_vxx_0_1_1"] = 2
      /\ g.multipliers["multiply_const_vxx_0_1_0"] = 3
  BY MultiParts DEF Multi!Multipliers
<1>4. \A b, c : Feeds(g, b, c) <=>
       \/ b = "add_xx_0" /\ c \in {"file_sink_0", "time_sink_x_0", "rep_sink_0_1"}
       \/ b = "multiply_const_vxx_0" /\ c \in {"add_xx_0", "file_sink_0_0", "time_sink_x_0_0"}
       \/ b = "multiply_const_vxx_0_0" /\ c \in {"add_xx_0", "file_sink_0_0_0", "time_sink_x_0_0_1"}
       \/ b = "multiply_const_vxx_0_0_0" /\ c \in {"add_xx_0", "file_sink_0_0_0_0", "time_sink_x_0_0_1_0"}
       \/ b = "req_source_0" /\ c \in {"multiply_const_vxx_0_1", "multiply_const_vxx_0_1_1", "multiply_const_vxx_0_1_0"}
       \/ b = "multiply_const_vxx_0_1" /\ c = "rep_sink_0"
       \/ b = "multiply_const_vxx_0_1_1" /\ c = "rep_sink_0_0"
       \/ b = "multiply_const_vxx_0_1_0" /\ c = "rep_sink_0_2"
       \/ b = "req_source_1" /\ c = "multiply_const_vxx_0"
       \/ b = "req_source_1_0" /\ c = "multiply_const_vxx_0_0"
       \/ b = "req_source_0_0" /\ c = "multiply_const_vxx_0_0_0"
  BY MultiParts DEF Feeds, From, To, Multi!Edges, Multi!SumEdges, Multi!UplinkEdges, Multi!DownlinkEdges, Multi!SourceEdges
<1>5. \A e \in g.edges : Feeds(g, From(e), To(e))
  BY DEF Feeds
<1>6. /\ g.adders = {"add_xx_0"} /\ g.files = Nothing /\ g.heads = {}
  BY MultiParts DEF Multi!Adders
<1>7. /\ DOMAIN g.logs = {"file_sink_0_0_0_0", "file_sink_0_0_0", "file_sink_0_0", "file_sink_0"}
      /\ g.logs["file_sink_0_0_0_0"] = "gnu_ue3.log"
      /\ g.logs["file_sink_0_0_0"] = "gnu_ue2.log"
      /\ g.logs["file_sink_0_0"] = "gnu_ue1.log"
      /\ g.logs["file_sink_0"] = "gnu_multi.log"
  BY MultiParts DEF Multi!Logs
<1>8. /\ DOMAIN g.displays = {"time_sink_x_0_0_1_0", "time_sink_x_0_0_1", "time_sink_x_0_0", "time_sink_x_0"}
      /\ g.displays["time_sink_x_0_0_1_0"].title = "UE3"
      /\ g.displays["time_sink_x_0_0_1"].title = "UE2"
      /\ g.displays["time_sink_x_0_0"].title = "UE1"
      /\ g.displays["time_sink_x_0"].title = "MULTIPLE UES ADD"
  <2>1. /\ DOMAIN Multi!UeDisplays = {"time_sink_x_0_0_1_0", "time_sink_x_0_0_1", "time_sink_x_0_0"}
        /\ Multi!UeDisplays["time_sink_x_0_0_1_0"].title = "UE3"
        /\ Multi!UeDisplays["time_sink_x_0_0_1"].title = "UE2"
        /\ Multi!UeDisplays["time_sink_x_0_0"].title = "UE1"
    BY DEF Multi!UeDisplays
  <2>2. /\ DOMAIN Multi!SumDisplay = {"time_sink_x_0"}
        /\ Multi!SumDisplay["time_sink_x_0"].title = "MULTIPLE UES ADD"
    BY DEF Multi!SumDisplay
  <2>3. g.displays = Both(Multi!UeDisplays, Multi!SumDisplay)
    BY MultiParts
  <2> QED BY <2>1, <2>2, <2>3 DEF Both
<1>9. g.setters = Multi!Setters
  BY MultiParts
<1>10. DOMAIN Nothing = {}
  BY DEF Nothing
<1> HIDE DEF g
<1>11. DownlinkWired(g)
  BY <1>1, <1>2, <1>3, <1>4, <1>5 DEF DownlinkWired, Gnb
<1>12. PlotsWired(g)
  BY <1>6, <1>10 DEF PlotsWired
<1>13. SlidersWired(g)
  <2>1. \A b \in DOMAIN g.multipliers :
       LET blocks == g.setters[g.multipliers[b]] IN \E i \in DOMAIN blocks : blocks[i] = b
    BY <1>3, <1>9 DEF Multi!Setters
  <2>2. \A u \in DOMAIN g.setters : \A i \in DOMAIN g.setters[u] :
       g.multipliers[g.setters[u][i]] = u
    BY <1>3, <1>9 DEF Multi!Setters
  <2>3. \A e \in g.edges :
       /\ From(e) \in DOMAIN g.multipliers /\ To(e) \in DOMAIN g.sinks =>
            PeerAt(g.sinks[To(e)]) \in {Gnb, g.multipliers[From(e)]}
       /\ From(e) \in DOMAIN g.sources /\ To(e) \in DOMAIN g.multipliers =>
            PeerAt(g.sources[From(e)]) \in {Gnb, g.multipliers[To(e)]}
    BY <1>1, <1>2, <1>3, <1>4, <1>5 DEF Gnb
  <2>4. \A b \in DOMAIN g.sources : \E c \in DOMAIN g.sinks :
       PeerAt(g.sinks[c]) = PeerAt(g.sources[b])
    BY <1>1, <1>2
  <2> QED BY <2>1, <2>2, <2>3, <2>4 DEF SlidersWired
<1>14. UesOf(g) = {1, 2, 3}
  BY <1>1 DEF UesOf, Gnb
<1>15. /\ Scales(g, "multiply_const_vxx_0", 1, 1)
       /\ Scales(g, "multiply_const_vxx_0_0", 2, 2)
       /\ Scales(g, "multiply_const_vxx_0_0_0", 3, 3)
  BY <1>1, <1>3, <1>4 DEF Scales
<1>16. /\ Carries(g, "multiply_const_vxx_0", {1})
       /\ Carries(g, "multiply_const_vxx_0_0", {2})
       /\ Carries(g, "multiply_const_vxx_0_0_0", {3})
  BY <1>15 DEF Carries
<1>17. Carries(g, "add_xx_0", {1, 2, 3})
  BY <1>3, <1>4, <1>5, <1>6, <1>15 DEF Carries
<1>18. UplinkWired(g)
  BY <1>2, <1>4, <1>5, <1>14, <1>17 DEF UplinkWired, Gnb
<1>19. ASSUME NEW e \in g.edges, To(e) \in DOMAIN g.logs \cup DOMAIN g.displays
       PROVE  Carries(g, From(e), About(g, e) \cap UesOf(g))
  <2>1. About(g, e) = Named(Label(g, To(e)))
    BY <1>7, <1>8, <1>19 DEF About, Label
  <2>2. CASE To(e) \in {"file_sink_0", "time_sink_x_0"}
    <3>1. From(e) = "add_xx_0"
      BY <1>4, <1>5, <2>2
    <3>2. About(g, e) = {1, 2, 3}
      BY <1>7, <1>8, <2>1, <2>2, NamesOf DEF Label
    <3>3. {1, 2, 3} \cap {1, 2, 3} = {1, 2, 3}
      OBVIOUS
    <3> QED BY <1>14, <1>16, <1>17, <3>1, <3>2, <3>3
  <2>3. CASE To(e) \in {"file_sink_0_0", "time_sink_x_0_0"}
    <3>1. From(e) = "multiply_const_vxx_0"
      BY <1>4, <1>5, <2>3
    <3>2. About(g, e) = {1}
      BY <1>7, <1>8, <2>1, <2>3, NamesOf DEF Label
    <3>3. {1} \cap {1, 2, 3} = {1}
      OBVIOUS
    <3> QED BY <1>14, <1>16, <1>17, <3>1, <3>2, <3>3
  <2>4. CASE To(e) \in {"file_sink_0_0_0", "time_sink_x_0_0_1"}
    <3>1. From(e) = "multiply_const_vxx_0_0"
      BY <1>4, <1>5, <2>4
    <3>2. About(g, e) = {2}
      BY <1>7, <1>8, <2>1, <2>4, NamesOf DEF Label
    <3>3. {2} \cap {1, 2, 3} = {2}
      OBVIOUS
    <3> QED BY <1>14, <1>16, <1>17, <3>1, <3>2, <3>3
  <2>5. CASE To(e) \in {"file_sink_0_0_0_0", "time_sink_x_0_0_1_0"}
    <3>1. From(e) = "multiply_const_vxx_0_0_0"
      BY <1>4, <1>5, <2>5
    <3>2. About(g, e) = {3}
      BY <1>7, <1>8, <2>1, <2>5, NamesOf DEF Label
    <3>3. {3} \cap {1, 2, 3} = {3}
      OBVIOUS
    <3> QED BY <1>14, <1>16, <1>17, <3>1, <3>2, <3>3
  <2> QED BY <1>7, <1>8, <1>19, <2>2, <2>3, <2>4, <2>5
<1>20. NamesWired(g)
  BY <1>6, <1>10, <1>19 DEF NamesWired
<1>21. UeStreams(g) = {"multiply_const_vxx_0", "multiply_const_vxx_0_0", "multiply_const_vxx_0_0_0"}
  <2>1. \A b : b \in UeStreams(g) <=> \E c \in DOMAIN g.logs : g.logs[c] # SumLog /\ Feeds(g, b, c)
    BY DEF UeStreams, Feeds
  <2> QED BY <1>4, <1>7, <2>1 DEF SumLog
<1>22. {From(f) : f \in {f \in g.edges : To(f) = "add_xx_0"}}
         = {"multiply_const_vxx_0", "multiply_const_vxx_0_0", "multiply_const_vxx_0_0_0"}
  <2>1. \A b : b \in {From(f) : f \in {f \in g.edges : To(f) = "add_xx_0"}} <=> Feeds(g, b, "add_xx_0")
    BY DEF Feeds
  <2> QED BY <1>4, <2>1
<1>23. SumWired(g)
  <2> SUFFICES ASSUME NEW e \in g.edges, To(e) \in DOMAIN g.logs, g.logs[To(e)] = SumLog
               PROVE  From(e) = "add_xx_0"
    BY <1>6, <1>21, <1>22 DEF SumWired
  <2> QED BY <1>4, <1>5, <1>7 DEF SumLog
<1>24. SocketsWired(g)
  <2>1. \A b \in DOMAIN g.sources : \E c : Feeds(g, b, c)
    BY <1>1, <1>4
  <2>2. \A c \in DOMAIN g.sinks : \E b : Feeds(g, b, c)
    BY <1>2, <1>4
  <2>3. \A c \in DOMAIN g.sinks : \E b \in DOMAIN g.sources :
       PeerAt(g.sources[b]) = PeerAt(g.sinks[c])
    BY <1>1, <1>2
  <2>4. \A b, c \in DOMAIN g.sinks : PeerAt(g.sinks[b]) = PeerAt(g.sinks[c]) => b = c
    BY <1>2
  <2> QED BY <2>1, <2>2, <2>3, <2>4 DEF SocketsWired, Feeds
<1>25. DisplaysFed(g)
  <2>1. /\ DOMAIN Multi!UeDisplays =
             {"time_sink_x_0_0_1_0", "time_sink_x_0_0_1", "time_sink_x_0_0"}
        /\ Multi!UeDisplays["time_sink_x_0_0_1_0"].inputs = 1
        /\ Multi!UeDisplays["time_sink_x_0_0_1"].inputs = 1
        /\ Multi!UeDisplays["time_sink_x_0_0"].inputs = 1
        /\ DOMAIN Multi!SumDisplay = {"time_sink_x_0"}
        /\ Multi!SumDisplay["time_sink_x_0"].inputs = 1
    BY DEF Multi!UeDisplays, Multi!SumDisplay
  <2>2. \A b \in DOMAIN g.displays : g.displays[b].inputs = 1
    BY <1>8, <2>1, MultiParts DEF g, Both
  <2>3. /\ <<"add_xx_0", "time_sink_x_0", 0>> \in g.edges
        /\ <<"multiply_const_vxx_0", "time_sink_x_0_0", 0>> \in g.edges
        /\ <<"multiply_const_vxx_0_0", "time_sink_x_0_0_1", 0>> \in g.edges
        /\ <<"multiply_const_vxx_0_0_0", "time_sink_x_0_0_1_0", 0>> \in g.edges
    BY MultiParts DEF g, Multi!Edges, Multi!SumEdges, Multi!UplinkEdges
  <2>4. \A b \in DOMAIN g.displays : \E e \in g.edges : To(e) = b /\ Input(e) = 0
    BY <1>8, <2>3 DEF To, Input
  <2> QED BY <2>2, <2>4 DEF DisplaysFed
<1>26. OneWay(g)
  <2> DEFINE dl == {"req_source_0", "multiply_const_vxx_0_1", "multiply_const_vxx_0_1_1",
                 "multiply_const_vxx_0_1_0", "rep_sink_0", "rep_sink_0_0", "rep_sink_0_2"}
  <2>1. Downlink(g, dl)
    <3>1. \A b, c : Feeds(g, b, c) => (b \in dl <=> c \in dl)
      BY <1>4
    <3>2. \A b \in DOMAIN g.sources : b \in dl <=> PeerAt(g.sources[b]) = Gnb
      BY <1>1 DEF Gnb
    <3>3. \A b \in DOMAIN g.sinks : b \in dl <=> PeerAt(g.sinks[b]) # Gnb
      BY <1>2 DEF Gnb
    <3> HIDE DEF dl
    <3> QED BY <3>1, <3>2, <3>3 DEF Downlink
  <2>2. InnerJoined(g)
    BY <1>3, <1>4, <1>6 DEF InnerJoined
  <2>3. Staged(g, DOMAIN g.sources, DOMAIN g.multipliers, g.adders)
    BY <1>1, <1>3, <1>4, <1>6 DEF Staged
  <2>4. g.heads = {}
    BY <1>6
  <2> HIDE DEF dl
  <2> QED BY <1>25, <1>24, <2>1, <2>2, <2>3, <2>4, ByStages
<1> QED BY <1>11, <1>12, <1>13, <1>18, <1>20, <1>23, <1>24, <1>26 DEF WellWired, g
-----------------------------------------------------------------------------
(* debug_samples.py                                                        *)

\* The parts of its graph.
LEMMA DebugParts ==
  LET g == ScriptGraphs.debug IN
  /\ g.sources = Nothing /\ g.sinks = Nothing
  /\ g.multipliers = Nothing /\ g.adders = {} /\ g.logs = Nothing
  /\ g.displays = Both(Debug!LogDisplays, Both(Debug!TestingDisplay, Debug!FirstUeDisplay))
  /\ g.files = Debug!Files /\ g.heads = Debug!Heads /\ g.edges = Debug!Edges
  /\ g.pathloss = <<>> /\ g.setters = <<>>
BY DEF ScriptGraphs

\* debug_samples.py is wired as it should be.
LEMMA DebugRight == WellWired(ScriptGraphs.debug) /\ OneWay(ScriptGraphs.debug)
<1> DEFINE g == ScriptGraphs.debug
<1>1. DOMAIN Nothing = {}
  BY DEF Nothing
<1>2. /\ DOMAIN g.sources = {} /\ DOMAIN g.sinks = {} /\ DOMAIN g.multipliers = {}
      /\ DOMAIN g.logs = {} /\ DOMAIN g.setters = {}
  BY DebugParts, <1>1
<1>3. /\ DOMAIN g.files = {"file_source_0_2", "file_source_0_1", "file_source_0_0", "file_source_0"}
      /\ g.files["file_source_0_2"] = "gnu_ue3.log"
      /\ g.files["file_source_0_1"] = "gnu_ue2.log"
      /\ g.files["file_source_0_0"] = "gnu_ue1.log"
      /\ g.files["file_source_0"] = "gnu_multi.log"
  BY DebugParts DEF Debug!Files
<1>4. g.heads = {"head_0_0_0_0_0", "head_0_0_0_0", "head_0_0_0", "head_0"}
  BY DebugParts DEF Debug!Heads
<1>5. \A b, c : Feeds(g, b, c) <=>
       \/ b = "file_source_0" /\ c = "head_0"
       \/ b = "file_source_0_0" /\ c = "head_0_0_0"
       \/ b = "file_source_0_1" /\ c = "head_0_0_0_0"
       \/ b = "file_source_0_2" /\ c = "head_0_0_0_0_0"
       \/ b = "head_0" /\ c \in {"time_sink_x_0_0_0_0", "time_sink_x_0_0_1"}
       \/ b = "head_0_0_0" /\ c \in {"time_sink_x_0_0_0_0", "time_sink_x_0_0"}
       \/ b = "head_0_0_0_0" /\ c \in {"time_sink_x_0_0_0_0", "time_sink_x_0_1"}
       \/ b = "head_0_0_0_0_0" /\ c \in {"time_sink_x_0_0_0_0", "time_sink_x_0_2"}
  BY DebugParts DEF Feeds, From, To, Debug!Edges
<1>6. \A e \in g.edges : Feeds(g, From(e), To(e))
  BY DEF Feeds
<1>7. ASSUME NEW e \in g.edges, To(e) = "time_sink_x_0_0_0_0"
      PROVE  \/ Input(e) = 0 /\ From(e) = "head_0_0_0"
             \/ Input(e) = 1 /\ From(e) = "head_0_0_0_0"
             \/ Input(e) = 2 /\ From(e) = "head_0_0_0_0_0"
             \/ Input(e) = 3 /\ From(e) = "head_0"
  BY <1>7, DebugParts DEF From, To, Input, Debug!Edges
<1>8. /\ DOMAIN g.displays = {"time_sink_x_0_2", "time_sink_x_0_1", "time_sink_x_0_0_1",
                              "time_sink_x_0_0_0_0", "time_sink_x_0_0"}
      /\ g.displays["time_sink_x_0_2"].title = "UE3"
      /\ g.displays["time_sink_x_0_1"].title = "UE2"
      /\ g.displays["time_sink_x_0_0"].title = "UE1"
      /\ g.displays["time_sink_x_0_0_1"].title = "Multiple"
      /\ g.displays["time_sink_x_0_0_0_0"].title = "Testing"
  <2>1. /\ DOMAIN Debug!LogDisplays = {"time_sink_x_0_2", "time_sink_x_0_1", "time_sink_x_0_0_1"}
        /\ Debug!LogDisplays["time_sink_x_0_2"].title = "UE3"
        /\ Debug!LogDisplays["time_sink_x_0_1"].title = "UE2"
        /\ Debug!LogDisplays["time_sink_x_0_0_1"].title = "Multiple"
    BY DEF Debug!LogDisplays
  <2>2. /\ DOMAIN Debug!TestingDisplay = {"time_sink_x_0_0_0_0"}
        /\ Debug!TestingDisplay["time_sink_x_0_0_0_0"].title = "Testing"
    BY DEF Debug!TestingDisplay
  <2>3. /\ DOMAIN Debug!FirstUeDisplay = {"time_sink_x_0_0"}
        /\ Debug!FirstUeDisplay["time_sink_x_0_0"].title = "UE1"
    BY DEF Debug!FirstUeDisplay
  <2>4. g.displays = Both(Debug!LogDisplays, Both(Debug!TestingDisplay, Debug!FirstUeDisplay))
    BY DebugParts
  <2> QED BY <2>1, <2>2, <2>3, <2>4 DEF Both
<1>9. g.setters = <<>>
  BY DebugParts
<1> HIDE DEF g
<1>10. DownlinkWired(g)
  BY <1>2 DEF DownlinkWired
<1>11. SumWired(g)
  BY <1>2 DEF SumWired
<1>12. SlidersWired(g)
  BY <1>2 DEF SlidersWired
<1>13. UplinkWired(g)
  BY <1>2 DEF UplinkWired
<1>14. PlotsWired(g)
  <2> SUFFICES ASSUME NEW e \in g.edges, NEW b \in DOMAIN g.files, To(e) \in DOMAIN g.displays
               PROVE  \E t \in DOMAIN g.displays, h \in g.heads :
                        Feeds(g, From(e), t) /\ Feeds(g, h, t) /\ Feeds(g, b, h)
    BY DEF PlotsWired
  <2>1. Feeds(g, From(e), "time_sink_x_0_0_0_0")
    BY <1>5, <1>6, <1>8
  <2>2. \E h \in g.heads : Feeds(g, h, "time_sink_x_0_0_0_0") /\ Feeds(g, b, h)
    BY <1>3, <1>4, <1>5
  <2> QED BY <1>8, <2>1, <2>2
<1>15. ASSUME NEW h, NEW us,
              \/ h = "head_0_0_0" /\ us = {1}
              \/ h = "head_0_0_0_0" /\ us = {2}
              \/ h = "head_0_0_0_0_0" /\ us = {3}
              \/ h = "head_0" /\ us = {1, 2, 3}
       PROVE  \E b \in DOMAIN g.files : Feeds(g, b, h) /\ Named(g.files[b]) = us
  <2>1. CASE h = "head_0_0_0" /\ us = {1}
    <3>1. /\ "file_source_0_0" \in DOMAIN g.files /\ Feeds(g, "file_source_0_0", h)
          /\ Named(g.files["file_source_0_0"]) = us
      BY <1>3, <1>5, <2>1, NamesOf
    <3> QED BY <3>1
  <2>2. CASE h = "head_0_0_0_0" /\ us = {2}
    <3>1. /\ "file_source_0_1" \in DOMAIN g.files /\ Feeds(g, "file_source_0_1", h)
          /\ Named(g.files["file_source_0_1"]) = us
      BY <1>3, <1>5, <2>2, NamesOf
    <3> QED BY <3>1
  <2>3. CASE h = "head_0_0_0_0_0" /\ us = {3}
    <3>1. /\ "file_source_0_2" \in DOMAIN g.files /\ Feeds(g, "file_source_0_2", h)
          /\ Named(g.files["file_source_0_2"]) = us
      BY <1>3, <1>5, <2>3, NamesOf
    <3> QED BY <3>1
  <2>4. CASE h = "head_0" /\ us = {1, 2, 3}
    <3>1. /\ "file_source_0" \in DOMAIN g.files /\ Feeds(g, "file_source_0", h)
          /\ Named(g.files["file_source_0"]) = us
      BY <1>3, <1>5, <2>4, NamesOf
    <3> QED BY <3>1
  <2> QED BY <1>15, <2>1, <2>2, <2>3, <2>4
<1>16. ASSUME NEW e \in g.edges, To(e) \in DOMAIN g.displays
       PROVE  /\ From(e) \in g.heads
              /\ \E b \in DOMAIN g.files :
                   Feeds(g, b, From(e)) /\ Named(g.files[b]) = About(g, e)
  <2>1. From(e) \in g.heads
    BY <1>4, <1>5, <1>6, <1>8, <1>16
  <2>2. Label(g, To(e)) = g.displays[To(e)].title
    BY <1>2 DEF Label
  <2>3. CASE To(e) = "time_sink_x_0_0_0_0"
    <3>1. About(g, e) = IF Input(e) < 3 THEN {Input(e) + 1} ELSE {1, 2, 3}
      BY <1>8, <2>2, <2>3, NamesOf DEF About
    <3>2. \/ From(e) = "head_0_0_0" /\ About(g, e) = {1}
          \/ From(e) = "head_0_0_0_0" /\ About(g, e) = {2}
          \/ From(e) = "head_0_0_0_0_0" /\ About(g, e) = {3}
          \/ From(e) = "head_0" /\ About(g, e) = {1, 2, 3}
      BY <1>7, <2>3, <3>1
    <3> QED BY <2>1, <3>2, <1>15
  <2>4. CASE To(e) # "time_sink_x_0_0_0_0"
    <3>1. About(g, e) = Named(g.displays[To(e)].title)
      BY <1>8, <1>16, <2>2, <2>4 DEF About
    <3>2. \/ From(e) = "head_0_0_0" /\ About(g, e) = {1}
          \/ From(e) = "head_0_0_0_0" /\ About(g, e) = {2}
          \/ From(e) = "head_0_0_0_0_0" /\ About(g, e) = {3}
          \/ From(e) = "head_0" /\ About(g, e) = {1, 2, 3}
      <4>1. CASE To(e) = "time_sink_x_0_0"
        <5>1. From(e) = "head_0_0_0"
          BY <1>5, <1>6, <4>1
        <5>2. About(g, e) = {1}
          BY <1>8, <3>1, <4>1, NamesOf
        <5> QED BY <5>1, <5>2
      <4>2. CASE To(e) = "time_sink_x_0_1"
        <5>1. From(e) = "head_0_0_0_0"
          BY <1>5, <1>6, <4>2
        <5>2. About(g, e) = {2}
          BY <1>8, <3>1, <4>2, NamesOf
        <5> QED BY <5>1, <5>2
      <4>3. CASE To(e) = "time_sink_x_0_2"
        <5>1. From(e) = "head_0_0_0_0_0"
          BY <1>5, <1>6, <4>3
        <5>2. About(g, e) = {3}
          BY <1>8, <3>1, <4>3, NamesOf
        <5> QED BY <5>1, <5>2
      <4>4. CASE To(e) = "time_sink_x_0_0_1"
        <5>1. From(e) = "head_0"
          BY <1>5, <1>6, <4>4
        <5>2. About(g, e) = {1, 2, 3}
          BY <1>8, <3>1, <4>4, NamesOf
        <5> QED BY <5>1, <5>2
      <4> QED BY <1>8, <1>16, <2>4, <4>1, <4>2, <4>3, <4>4
    <3> QED BY <2>1, <3>2, <1>15
  <2> QED BY <2>3, <2>4
<1>17. NamesWired(g)
  BY <1>2, <1>3, <1>16 DEF NamesWired
<1>18. SocketsWired(g)
  BY <1>2 DEF SocketsWired
<1>19. DisplaysFed(g)
  <2>1. /\ \A b \in DOMAIN Debug!LogDisplays : Debug!LogDisplays[b].inputs = 1
        /\ \A b \in DOMAIN Debug!FirstUeDisplay : Debug!FirstUeDisplay[b].inputs = 1
        /\ \A b \in DOMAIN Debug!TestingDisplay :
             b = "time_sink_x_0_0_0_0" /\ Debug!TestingDisplay[b].inputs = 4
    BY DEF Debug!LogDisplays, Debug!FirstUeDisplay, Debug!TestingDisplay
  <2>2. \A b \in DOMAIN g.displays :
          \/ g.displays[b].inputs = 1
          \/ b = "time_sink_x_0_0_0_0" /\ g.displays[b].inputs = 4
    BY <2>1, DebugParts DEF g, Both
  <2>3. /\ <<"head_0_0_0", "time_sink_x_0_0_0_0", 0>> \in g.edges
        /\ <<"head_0_0_0_0", "time_sink_x_0_0_0_0", 1>> \in g.edges
        /\ <<"head_0_0_0_0_0", "time_sink_x_0_0_0_0", 2>> \in g.edges
        /\ <<"head_0", "time_sink_x_0_0_0_0", 3>> \in g.edges
        /\ <<"head_0", "time_sink_x_0_0_1", 0>> \in g.edges
        /\ <<"head_0_0_0", "time_sink_x_0_0", 0>> \in g.edges
        /\ <<"head_0_0_0_0", "time_sink_x_0_1", 0>> \in g.edges
        /\ <<"head_0_0_0_0_0", "time_sink_x_0_2", 0>> \in g.edges
    BY DebugParts DEF g, Debug!Edges
  <2>4. /\ \A b \in DOMAIN g.displays : \E e \in g.edges : To(e) = b /\ Input(e) = 0
        /\ \A i \in {0, 1, 2, 3} :
             \E e \in g.edges : To(e) = "time_sink_x_0_0_0_0" /\ Input(e) = i
    BY <1>8, <2>3 DEF To, Input
  <2> QED BY <2>2, <2>4 DEF DisplaysFed
<1>20. OneWay(g)
  <2>1. InnerJoined(g)
    BY <1>2, <1>4, <1>5, DebugParts DEF InnerJoined, g
  <2>2. Staged(g, DOMAIN g.files, g.heads, {})
    BY <1>3, <1>4, <1>5 DEF Staged
  <2>3. Downlink(g, {})
    <3>1. DOMAIN g.sources = {} /\ DOMAIN g.sinks = {}
      BY <1>2
    <3> QED BY <3>1 DEF Downlink
  <2>4. DOMAIN g.files # {}
    BY <1>3
  <2> QED BY <1>18, <1>19, <2>1, <2>2, <2>3, <2>4, ByStages
<1> QED BY <1>10, <1>11, <1>12, <1>13, <1>14, <1>17, <1>18, <1>20 DEF WellWired, g

-----------------------------------------------------------------------------

\* All four scripts are wired as they should be.
LEMMA ScriptsWired ==
  \A s \in DOMAIN ScriptGraphs : WellWired(ScriptGraphs[s]) /\ OneWay(ScriptGraphs[s])
<1>1. DOMAIN ScriptGraphs = {"one", "two", "multi", "debug"}
  BY DEF ScriptGraphs
<1> QED BY <1>1, OneRight, TwoRight, MultiRight, DebugRight

\* The theorems of GnuRadioProofs hold of graphs that are wired well.
LEMMA ScriptsSuit ==
  ASSUME Graphs = ScriptGraphs
  PROVE  /\ \A s \in DOMAIN Graphs : WellWired(Graphs[s]) /\ OneWay(Graphs[s])
         /\ \A s \in DOMAIN Graphs : WellWired(Graphs[s])
         /\ \A s \in DOMAIN Graphs : DownlinkWired(Graphs[s])
         /\ \A s \in DOMAIN Graphs : SumWired(Graphs[s])
         /\ \A s \in DOMAIN Graphs : PlotsWired(Graphs[s])
         /\ \A s \in DOMAIN Graphs : SlidersWired(Graphs[s])
<1>1. \A s \in DOMAIN Graphs : WellWired(Graphs[s]) /\ OneWay(Graphs[s])
  BY ScriptsWired
<1> QED BY <1>1 DEF WellWired

\* In the scripts of the repository each UE is sent the gNB's signal with its
\* own path loss, the gNB that of all the UEs each with its own, the logs and
\* the plots hold what their names say, and the uplink and the downlink of a UE
\* have the path loss its slider shows.
THEOREM ScriptsTellTruth ==
  ASSUME Graphs = ScriptGraphs
  PROVE  Spec => [](RightRadio /\ NamesAreTrue /\ BothWaysAlike)
<1>1. Spec => []RightRadio
  BY ScriptsSuit, RadioRight
<1>2. Spec => []NamesAreTrue
  BY ScriptsSuit, NamesRight
<1>3. Spec => []BothWaysAlike
  BY ScriptsSuit, SlidersTrue
<1> QED BY <1>1, <1>2, <1>3, PTL

\* In the scripts of the repository no UE is served more than two buffers ahead
\* of another, the sum's log is the sum of the UEs' logs, item by item, and no
\* plot gets further than a buffer past the end of the shortest log.
THEOREM ScriptsStayAligned ==
  ASSUME Graphs = ScriptGraphs
  PROVE  Spec => [](DownlinksInStep /\ LogsAddUp /\ PlotsWaitForShortest)
<1>1. Spec => []DownlinksInStep
  BY ScriptsSuit, InStepAlways
<1>2. Spec => []LogsAddUp
  BY ScriptsSuit, SumsLogged
<1>3. Spec => []PlotsWaitForShortest
  BY ScriptsSuit, PlotsBounded
<1> QED BY <1>1, <1>2, <1>3, PTL

\* Each of the scripts of the repository implements StreamRelay: messages are
\* added up by their number and with the right path loss, none is lost or comes
\* twice, and nobody falls further behind than the buffers are large.
THEOREM ScriptsImplementRelay ==
  ASSUME Graphs = ScriptGraphs
  PROVE  Spec => RelaySpec
<1>1. \A s \in DOMAIN Graphs : WellWired(Graphs[s])
  BY ScriptsSuit
<1> QED BY <1>1, ImplementsRelay

\* The blocks of the scripts of the repository never wait for each other in a
\* circle, whatever the size of the buffers: when nothing moves any more, a peer
\* that still asks was given all there is of somebody it listens to, and the
\* plots of logs that are long enough are complete.
THEOREM ScriptsNeverStuck ==
  ASSUME Graphs = ScriptGraphs
  PROVE  Spec => []NobodyStuck
<1>1. \A s \in DOMAIN Graphs : WellWired(Graphs[s]) /\ OneWay(Graphs[s])
  BY ScriptsSuit
<1> QED BY <1>1, NoneStuck
=============================================================================
