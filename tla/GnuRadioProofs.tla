--------------------------- MODULE GnuRadioProofs ---------------------------
(***************************************************************************)
(* What holds of every graph that is wired as those of the scripts are,    *)
(* for any number of UEs and messages, and any size of the buffers.        *)
(***************************************************************************)
EXTENDS GnuRadio, SequenceTheorems, WellFoundedInduction, TLAPS

Streams == Givers(session.script)
Givings == DOMAIN G.sources \cup DOMAIN G.files
Passers == DOMAIN G.multipliers \cup G.adders \cup G.heads
Takers  == DOMAIN G.sinks \cup DOMAIN G.logs \cup DOMAIN G.displays

FlowTypeOK ==
  /\ session \in Sessions
  /\ out \in [Streams -> Seq(SUBSET Signals)]
  /\ read \in [G.edges -> Nat]

\* No item is read before it is there, nor overwritten before it is read.
Buffers ==
  \A e \in G.edges :
    /\ read[e] <= Len(out[From(e)])
    /\ Len(out[From(e)]) <= read[e] + BufferItems

\* A block that passes items on puts out one for each that it takes.
OneForOne ==
  \A e \in G.edges :
    To(e) \in Passers /\ To(e) \in Streams => Len(out[To(e)]) = read[e]

\* A block takes from all its inputs at once.
Level == \A e, f \in G.edges : To(e) = To(f) => read[e] = read[f]

\* A file_source ends with its file.
FilesEnd ==
  \A b \in DOMAIN G.files : b \in Streams => Len(out[b]) <= session.length[G.files[b]]

\* An adder's k-th item is the sum of its inputs' k-th items.
SumsAddUp ==
  \A b \in G.adders : b \in Streams =>
    \A k \in 1 .. Len(out[b]) :
      out[b][k] = UNION {out[From(e)][k] : e \in {e \in G.edges : To(e) = b}}

\* The k-th item of every stream stems from the k-th message of each peer, or
\* the k-th item of each log, that is part of it.
InPosition ==
  \A b \in DOMAIN out : \A k \in 1 .. Len(out[b]) : \A s \in out[b][k] : s.at = k

FlowInv ==
  /\ FlowTypeOK
  /\ Buffers
  /\ OneForOne
  /\ Level
  /\ FilesEnd
  /\ InPosition
  /\ SumsAddUp

-----------------------------------------------------------------------------
(* The graph.                                                              *)

LEMMA Kinds ==
  ASSUME session \in Sessions
  PROVE  /\ Givings \cap Passers = {} /\ Passers \cap Takers = {} /\ Givings \cap Takers = {}
         /\ \A e \in G.edges : From(e) \notin Takers /\ To(e) \notin Givings
         /\ G.adders \cap DOMAIN G.multipliers = {}
         /\ G.adders \cap G.heads = {}
         /\ \A b \in DOMAIN G.files : session.length[G.files[b]] \in Nat
         /\ BufferItems \in Nat \ {0}
<1>1. session.script \in DOMAIN Graphs
  BY GnuRadioAssumption
<1>2. \A b \in DOMAIN G.files : session.length[G.files[b]] \in Nat
  BY GnuRadioAssumption DEF G
<1> QED
  BY <1>1, <1>2, GraphsAssumption, GnuRadioAssumption DEF G, Givings, Passers, Takers

LEMMA Ends ==
  ASSUME session \in Sessions
  PROVE  /\ \A e \in G.edges : From(e) \in Streams
         /\ \A b \in Streams : Readers(b) = {e \in G.edges : From(e) = b}
         /\ \A b \in Streams : Inputs(b) = {e \in G.edges : To(e) = b}
         /\ \A e \in G.edges : Inputs(To(e)) = {f \in G.edges : To(f) = To(e)}
<1>1. session.script \in DOMAIN Graphs
  BY GnuRadioAssumption
<1>2. \A e \in G.edges : From(e) \in Streams
  BY DEF G, Streams, Givers
<1>3. /\ \A b \in Streams : b \in BlocksOf[session.script]
      /\ \A e \in G.edges : To(e) \in BlocksOf[session.script]
  BY <1>1 DEF BlocksOf, Streams, G
<1>4. \A b \in BlocksOf[session.script] :
        /\ Readers(b) = {e \in G.edges : From(e) = b}
        /\ Inputs(b) = {e \in G.edges : To(e) = b}
  BY <1>1 DEF Readers, Inputs, ReadersOf, InputsOf, G
<1> QED
  BY <1>2, <1>3, <1>4

-----------------------------------------------------------------------------
(* What a block does to the streams.                                       *)

\* b is put out, its other items and all other streams stay.
Grown(b, item) ==
  /\ \A c \in Streams : c # b => out'[c] = out[c]
  /\ b \in Streams =>
       /\ Len(out'[b]) = Len(out[b]) + 1
       /\ out'[b][Len(out[b]) + 1] = item
       /\ \A k \in 1 .. Len(out[b]) : out'[b][k] = out[b][k]

LEMMA PutAppends ==
  ASSUME FlowTypeOK, NEW b, NEW item, Put(b, item)
  PROVE  Grown(b, item)
<1>1. CASE b \notin Streams
  BY <1>1 DEF FlowTypeOK, Put, Grown
<1>2. CASE b \in Streams
  <2>1. out[b] \in Seq((SUBSET Signals) \cup {item})
    BY <1>2 DEF FlowTypeOK
  <2>2. /\ Len(Append(out[b], item)) = Len(out[b]) + 1
        /\ Append(out[b], item)[Len(out[b]) + 1] = item
        /\ \A k \in 1 .. Len(out[b]) : Append(out[b], item)[k] = out[b][k]
    BY <2>1, AppendProperties
  <2>3. out'[b] = Append(out[b], item) /\ \A c \in Streams : c # b => out'[c] = out[c]
    BY <1>2 DEF FlowTypeOK, Put
  <2> QED
    BY <1>2, <2>2, <2>3 DEF Grown
<1> QED
  BY <1>1, <1>2

LEMMA PutGrows ==
  ASSUME FlowTypeOK, NEW b, NEW item,
         b \in Streams => item \in SUBSET Signals,
         Put(b, item)
  PROVE  /\ out' \in [Streams -> Seq(SUBSET Signals)]
         /\ Grown(b, item)
<1>1. CASE b \notin Streams
  BY <1>1, PutAppends DEF FlowTypeOK, Put
<1>2. CASE b \in Streams
  <2>1. Append(out[b], item) \in Seq(SUBSET Signals)
    BY <1>2, AppendProperties DEF FlowTypeOK
  <2>2. out' \in [Streams -> Seq(SUBSET Signals)]
    BY <1>2, <2>1 DEF FlowTypeOK, Put
  <2> QED
    BY <2>2, PutAppends
<1> QED
  BY <1>1, <1>2

LEMMA TakeTypes ==
  ASSUME FlowTypeOK, NEW b, Take(b)
  PROVE  /\ read' \in [G.edges -> Nat]
         /\ \A e \in G.edges : read'[e] = IF To(e) = b THEN read[e] + 1 ELSE read[e]
BY DEF FlowTypeOK, Take

LEMMA Lengths ==
  ASSUME FlowTypeOK
  PROVE  /\ \A b \in Streams : Len(out[b]) \in Nat
         /\ \A e \in G.edges : read[e] \in Nat /\ Len(out[From(e)]) \in Nat
<1>1. \A b \in Streams : Len(out[b]) \in Nat
  BY DEF FlowTypeOK
<1> QED
  BY <1>1, Ends DEF FlowTypeOK

\* The next item of a connection that can be read.
LEMMA AheadIs ==
  ASSUME FlowInv, NEW e \in G.edges, Fill(e) > 0
  PROVE  /\ Ahead(e) \in SUBSET Signals
         /\ \A s \in Ahead(e) : s.at = read[e] + 1
         /\ read[e] + 1 \in 1 .. Len(out[From(e)])
<1> DEFINE b == From(e)
<1>1. b \in Streams /\ Len(out[b]) \in Nat /\ read[e] \in Nat
  BY Ends, Lengths DEF FlowInv, FlowTypeOK
<1>2. read[e] + 1 \in 1 .. Len(out[b])
  BY <1>1 DEF Fill
<1>3. out[b] \in Seq(SUBSET Signals)
  BY <1>1 DEF FlowInv, FlowTypeOK
<1>4. out[b][read[e] + 1] \in SUBSET Signals
  BY <1>2, <1>3
<1>5. \A s \in out[b][read[e] + 1] : s.at = read[e] + 1
  BY <1>1, <1>2 DEF FlowInv, FlowTypeOK, InPosition
<1> QED
  BY <1>2, <1>4, <1>5 DEF Ahead

\* The streams stay as they are.
LEMMA FlowStays ==
  ASSUME FlowInv, UNCHANGED <<out, read, session>>
  PROVE  FlowInv'
<1>1. UNCHANGED <<G, Streams, Passers, Signals>>
  BY DEF G, Streams, Passers, Givers, Signals, Origins, OwnLosses, Decibels
<1>2. FlowTypeOK'
  BY <1>1 DEF FlowInv, FlowTypeOK
<1>3. Buffers' /\ OneForOne' /\ Level' /\ FilesEnd' /\ SumsAddUp'
  BY <1>1 DEF FlowInv, Buffers, OneForOne, Level, FilesEnd, SumsAddUp
<1>4. InPosition'
  BY DEF FlowInv, InPosition
<1> QED
  BY <1>2, <1>3, <1>4 DEF FlowInv

\* A req_source or a file_source puts an item out.
LEMMA GivingKeeps ==
  ASSUME FlowInv, NEW b \in Givings, NEW item,
         b \in Streams => item \in SUBSET Signals,
         b \in Streams => \A s \in item : s.at = Len(out[b]) + 1,
         b \in DOMAIN G.files => Len(out[b]) < session.length[G.files[b]],
         b \in Streams => Room(b), Put(b, item), UNCHANGED <<read, session>>
  PROVE  FlowInv'
<1> USE DEF FlowInv
<1>1. session' = session /\ read' = read /\ session \in Sessions
  BY DEF FlowTypeOK
<1>2. UNCHANGED <<G, Streams, Passers, Signals>>
  BY <1>1 DEF G, Streams, Passers, Givers, Signals, Origins, OwnLosses, Decibels
<1>3. out' \in [Streams -> Seq(SUBSET Signals)] /\ Grown(b, item)
  BY PutGrows
<1>4. FlowTypeOK'
  BY <1>1, <1>2, <1>3 DEF FlowTypeOK
<1>5. /\ \A c \in Streams : Len(out[c]) \in Nat
      /\ \A e \in G.edges : read[e] \in Nat /\ Len(out[From(e)]) \in Nat
      /\ \A e \in G.edges : From(e) \in Streams
  BY Lengths, Ends, <1>1
<1>6. BufferItems \in Nat
  BY Kinds, <1>1
<1>7. Buffers'
  <2> SUFFICES ASSUME NEW e \in G.edges
               PROVE  read[e] <= Len(out'[From(e)]) /\ Len(out'[From(e)]) <= read[e] + BufferItems
    BY <1>1, <1>2 DEF Buffers
  <2>1. read[e] <= Len(out[From(e)]) /\ Len(out[From(e)]) <= read[e] + BufferItems
    BY DEF Buffers
  <2>2. CASE From(e) # b
    BY <1>3, <1>5, <2>1, <2>2 DEF Grown
  <2>3. CASE From(e) = b
    <3>1. e \in Readers(b)
      BY <1>1, <1>5, <2>3, Ends
    <3>2. Len(out[b]) - read[e] < BufferItems
      BY <1>5, <2>3, <3>1 DEF Room, Fill
    <3> QED
      BY <1>3, <1>5, <1>6, <2>1, <2>3, <3>2 DEF Grown
  <2> QED
    BY <2>2, <2>3
<1>8. OneForOne'
  <2>1. b \notin Passers
    BY Kinds, <1>1
  <2> QED
    BY <1>1, <1>2, <1>3, <2>1 DEF OneForOne, Grown
<1>9. Level'
  BY <1>1, <1>2 DEF Level
<1>10. FilesEnd'
  <2> SUFFICES ASSUME NEW c \in DOMAIN G.files, c \in Streams
               PROVE  Len(out'[c]) <= session.length[G.files[c]]
    BY <1>1, <1>2 DEF FilesEnd
  <2>1. Len(out[c]) <= session.length[G.files[c]] /\ session.length[G.files[c]] \in Nat
    BY <1>1, Kinds DEF FilesEnd
  <2> QED
    BY <1>3, <1>5, <2>1 DEF Grown
<1>11. InPosition'
  <2> SUFFICES ASSUME NEW c \in Streams, NEW k \in 1 .. Len(out'[c]), NEW s \in out'[c][k]
               PROVE  s.at = k
    BY <1>2, <1>4 DEF InPosition, FlowTypeOK
  <2>1. \A j \in 1 .. Len(out[c]) : \A t \in out[c][j] : t.at = j
    BY DEF InPosition, FlowTypeOK
  <2>2. CASE c # b
    BY <1>3, <2>1, <2>2 DEF Grown
  <2>3. CASE c = b /\ k = Len(out[b]) + 1
    BY <1>3, <2>3 DEF Grown
  <2>4. CASE c = b /\ k # Len(out[b]) + 1
    <3>1. k \in 1 .. Len(out[b])
      BY <1>3, <1>5, <2>4 DEF Grown
    <3> QED
      BY <1>3, <2>1, <2>4, <3>1 DEF Grown
  <2> QED
    BY <2>2, <2>3, <2>4
<1>12. SumsAddUp'
  <2> SUFFICES ASSUME NEW c \in G.adders, c \in Streams, NEW k \in 1 .. Len(out'[c])
               PROVE  out'[c][k] = UNION {out'[From(e)][k] : e \in {e \in G.edges : To(e) = c}}
    BY <1>2 DEF SumsAddUp
  <2>1. c # b
    BY Kinds, <1>1 DEF Passers
  <2>2. out'[c] = out[c]
    BY <1>3, <2>1 DEF Grown
  <2>3. \A e \in G.edges : To(e) = c => out'[From(e)][k] = out[From(e)][k]
    <3> SUFFICES ASSUME NEW e \in G.edges, To(e) = c
                 PROVE  out'[From(e)][k] = out[From(e)][k]
      OBVIOUS
    <3>1. Len(out[c]) = read[e] /\ read[e] <= Len(out[From(e)])
      BY DEF OneForOne, Buffers, Passers
    <3>2. k \in 1 .. Len(out[From(e)])
      BY <1>5, <2>2, <3>1
    <3> QED
      BY <1>3, <1>5, <3>2 DEF Grown
  <2>4. out[c][k] = UNION {out[From(e)][k] : e \in {e \in G.edges : To(e) = c}}
    BY <2>2 DEF SumsAddUp
  <2> QED
    BY <2>2, <2>3, <2>4
<1> QED
  BY <1>4, <1>7, <1>8, <1>9, <1>10, <1>11, <1>12

\* A rep_sink, a file_sink or a time_sink takes an item of each input.
LEMMA TakingKeeps ==
  ASSUME FlowInv, NEW b \in Takers, CanRead(b), Take(b), UNCHANGED <<out, session>>
  PROVE  FlowInv'
<1> USE DEF FlowInv
<1>1. session' = session /\ out' = out /\ session \in Sessions
  BY DEF FlowTypeOK
<1>2. UNCHANGED <<G, Streams, Passers, Signals>>
  BY <1>1 DEF G, Streams, Passers, Givers, Signals, Origins, OwnLosses, Decibels
<1>3. /\ read' \in [G.edges -> Nat]
      /\ \A e \in G.edges : read'[e] = IF To(e) = b THEN read[e] + 1 ELSE read[e]
  BY TakeTypes
<1>4. FlowTypeOK'
  BY <1>1, <1>2, <1>3 DEF FlowTypeOK
<1>5. \A e \in G.edges : read[e] \in Nat /\ Len(out[From(e)]) \in Nat
  BY Lengths
<1>6. BufferItems \in Nat
  BY Kinds, <1>1
<1>7. Buffers'
  <2> SUFFICES ASSUME NEW e \in G.edges
               PROVE  read'[e] <= Len(out[From(e)]) /\ Len(out[From(e)]) <= read'[e] + BufferItems
    BY <1>1, <1>2 DEF Buffers
  <2>1. read[e] <= Len(out[From(e)]) /\ Len(out[From(e)]) <= read[e] + BufferItems
    BY DEF Buffers
  <2>2. CASE To(e) = b
    <3>1. e \in Inputs(b)
      BY <1>1, <2>2, Ends
    <3>2. Len(out[From(e)]) - read[e] > 0
      BY <3>1 DEF CanRead, Fill
    <3> QED
      BY <1>3, <1>5, <1>6, <2>1, <2>2, <3>2
  <2> QED
    BY <1>3, <2>1, <2>2
<1>8. OneForOne'
  <2>1. b \notin Passers
    BY Kinds, <1>1
  <2> QED
    BY <1>1, <1>2, <1>3, <2>1 DEF OneForOne
<1>9. Level'
  BY <1>2, <1>3 DEF Level
<1>10. FilesEnd'
  BY <1>1, <1>2 DEF FilesEnd
<1>11. InPosition'
  BY <1>1 DEF InPosition
<1>12. SumsAddUp'
  BY <1>1, <1>2 DEF SumsAddUp
<1> QED
  BY <1>4, <1>7, <1>8, <1>9, <1>10, <1>11, <1>12

\* A multiply_const, an adder or a head passes an item on.
LEMMA PassingKeeps ==
  ASSUME FlowInv, NEW b \in Passers, NEW item,
         b \in Streams => item \in SUBSET Signals,
         b \in Streams => \A s \in item : s.at = Len(out[b]) + 1,
         b \in G.adders /\ b \in Streams =>
           item = UNION {Ahead(e) : e \in {e \in G.edges : To(e) = b}},
         CanRead(b), b \in Streams => Room(b),
         Put(b, item), Take(b), session' = session
  PROVE  FlowInv'
<1> USE DEF FlowInv
<1>1. session' = session /\ session \in Sessions
  BY DEF FlowTypeOK
<1>2. UNCHANGED <<G, Streams, Passers, Signals>>
  BY <1>1 DEF G, Streams, Passers, Givers, Signals, Origins, OwnLosses, Decibels
<1>3. out' \in [Streams -> Seq(SUBSET Signals)] /\ Grown(b, item)
  BY PutGrows
<1>4. /\ read' \in [G.edges -> Nat]
      /\ \A e \in G.edges : read'[e] = IF To(e) = b THEN read[e] + 1 ELSE read[e]
  BY TakeTypes
<1>5. FlowTypeOK'
  BY <1>1, <1>2, <1>3, <1>4 DEF FlowTypeOK
<1>6. /\ \A c \in Streams : Len(out[c]) \in Nat
      /\ \A e \in G.edges : read[e] \in Nat /\ Len(out[From(e)]) \in Nat
      /\ \A e \in G.edges : From(e) \in Streams
  BY Lengths, Ends, <1>1
<1>7. BufferItems \in Nat
  BY Kinds, <1>1
<1>8. \A e \in G.edges : To(e) = b => Len(out[From(e)]) - read[e] > 0
  BY <1>1, Ends DEF CanRead, Fill
<1>9. Buffers'
  <2> SUFFICES ASSUME NEW e \in G.edges
               PROVE  read'[e] <= Len(out'[From(e)]) /\ Len(out'[From(e)]) <= read'[e] + BufferItems
    BY <1>2 DEF Buffers
  <2>1. read[e] <= Len(out[From(e)]) /\ Len(out[From(e)]) <= read[e] + BufferItems
    BY DEF Buffers
  <2>2. CASE From(e) # b
    <3>1. out'[From(e)] = out[From(e)]
      BY <1>3, <1>6, <2>2 DEF Grown
    <3> QED
      BY <1>4, <1>6, <1>7, <1>8, <2>1, <3>1
  <2>3. CASE From(e) = b
    <3>1. e \in Readers(b)
      BY <1>1, <1>6, <2>3, Ends
    <3>2. Len(out[b]) - read[e] < BufferItems
      BY <1>6, <2>3, <3>1 DEF Room, Fill
    <3>3. Len(out'[b]) = Len(out[b]) + 1
      BY <1>3, <1>6, <2>3 DEF Grown
    <3> QED
      BY <1>4, <1>6, <1>7, <2>1, <2>3, <3>2, <3>3
  <2> QED
    BY <2>2, <2>3
<1>10. OneForOne'
  <2> SUFFICES ASSUME NEW e \in G.edges, To(e) \in Passers, To(e) \in Streams
               PROVE  Len(out'[To(e)]) = read'[e]
    BY <1>2 DEF OneForOne
  <2>1. Len(out[To(e)]) = read[e]
    BY DEF OneForOne
  <2> QED
    BY <1>3, <1>4, <2>1 DEF Grown
<1>11. Level'
  BY <1>2, <1>4 DEF Level
<1>12. FilesEnd'
  <2>1. b \notin DOMAIN G.files
    BY Kinds, <1>1 DEF Givings
  <2> QED
    BY <1>1, <1>2, <1>3, <2>1 DEF FilesEnd, Grown
<1>13. InPosition'
  <2> SUFFICES ASSUME NEW c \in Streams, NEW k \in 1 .. Len(out'[c]), NEW s \in out'[c][k]
               PROVE  s.at = k
    BY <1>2, <1>5 DEF InPosition, FlowTypeOK
  <2>1. \A j \in 1 .. Len(out[c]) : \A t \in out[c][j] : t.at = j
    BY DEF InPosition, FlowTypeOK
  <2>2. CASE c # b
    BY <1>3, <2>1, <2>2 DEF Grown
  <2>3. CASE c = b /\ k = Len(out[b]) + 1
    BY <1>3, <2>3 DEF Grown
  <2>4. CASE c = b /\ k # Len(out[b]) + 1
    <3>1. k \in 1 .. Len(out[b])
      BY <1>3, <1>6, <2>4 DEF Grown
    <3> QED
      BY <1>3, <2>1, <2>4, <3>1 DEF Grown
  <2> QED
    BY <2>2, <2>3, <2>4
<1>14. SumsAddUp'
  <2> SUFFICES ASSUME NEW c \in G.adders, c \in Streams, NEW k \in 1 .. Len(out'[c])
               PROVE  out'[c][k] = UNION {out'[From(e)][k] : e \in {e \in G.edges : To(e) = c}}
    BY <1>2 DEF SumsAddUp
  <2>1. \A e \in G.edges : \A j \in 1 .. Len(out[From(e)]) : out'[From(e)][j] = out[From(e)][j]
    BY <1>3, <1>6 DEF Grown
  <2>2. CASE k \in 1 .. Len(out[c])
    <3>1. \A e \in G.edges : To(e) = c => k \in 1 .. Len(out[From(e)])
      <4> SUFFICES ASSUME NEW e \in G.edges, To(e) = c
                   PROVE  k \in 1 .. Len(out[From(e)])
        OBVIOUS
      <4>1. Len(out[c]) = read[e] /\ read[e] <= Len(out[From(e)])
        BY DEF OneForOne, Buffers, Passers
      <4> QED
        BY <1>6, <2>2, <4>1
    <3>2. \A e \in G.edges : To(e) = c => out'[From(e)][k] = out[From(e)][k]
      BY <2>1, <3>1
    <3>3. out[c][k] = UNION {out[From(e)][k] : e \in {e \in G.edges : To(e) = c}}
      BY <2>2 DEF SumsAddUp
    <3>4. out'[c][k] = out[c][k]
      BY <1>3, <2>2 DEF Grown
    <3> QED
      BY <3>2, <3>3, <3>4
  <2>3. CASE k \notin 1 .. Len(out[c])
    <3>1. c = b /\ k = Len(out[b]) + 1
      BY <1>3, <1>6, <2>3 DEF Grown
    <3>2. out'[c][k] = UNION {Ahead(e) : e \in {e \in G.edges : To(e) = b}}
      BY <1>3, <3>1 DEF Grown
    <3>3. \A e \in G.edges : To(e) = b => Ahead(e) = out'[From(e)][k]
      <4> SUFFICES ASSUME NEW e \in G.edges, To(e) = b
                   PROVE  Ahead(e) = out'[From(e)][k]
        OBVIOUS
      <4>1. k = read[e] + 1
        BY <3>1 DEF OneForOne
      <4>2. k \in 1 .. Len(out[From(e)])
        BY <1>6, <1>8, <4>1
      <4> QED
        BY <2>1, <4>1, <4>2 DEF Ahead
    <3> QED
      BY <3>1, <3>2, <3>3
  <2> QED
    BY <2>2, <2>3
<1> QED
  BY <1>5, <1>9, <1>10, <1>11, <1>12, <1>13, <1>14

-----------------------------------------------------------------------------
(* The blocks keep FlowInv.                                                *)

LEMMA BlocksKeepFlow ==
  ASSUME FlowInv, TypeOK, BlocksNext
  PROVE  FlowInv'
<1> USE DEF BlocksNext
<1>1. session \in Sessions /\ session' = session
  BY DEF TypeOK
<1>2. /\ \A c \in Streams : Len(out[c]) \in Nat
      /\ \A e \in G.edges : read[e] \in Nat
      /\ \A c \in Streams : Inputs(c) = {e \in G.edges : To(e) = c}
      /\ \A e \in G.edges : From(e) \in Streams
  BY <1>1, Lengths, Ends DEF FlowInv
<1>3. \A b \in Passers : b \in Streams /\ CanRead(b) =>
        \A e \in Inputs(b) : /\ Ahead(e) \in SUBSET Signals
                            /\ \A s \in Ahead(e) : s.at = Len(out[b]) + 1
  <2> SUFFICES ASSUME NEW b \in Passers, b \in Streams, CanRead(b), NEW e \in Inputs(b)
               PROVE  /\ Ahead(e) \in SUBSET Signals
                      /\ \A s \in Ahead(e) : s.at = Len(out[b]) + 1
    OBVIOUS
  <2>1. e \in G.edges /\ To(e) = b
    BY <1>2
  <2>2. Fill(e) > 0
    BY DEF CanRead
  <2>3. Len(out[b]) = read[e]
    BY <2>1 DEF FlowInv, OneForOne
  <2> QED
    BY <2>1, <2>2, <2>3, AheadIs
<1>4. ASSUME NEW b \in DOMAIN G.sources, SendRequest(b)
      PROVE  FlowInv'
  BY <1>1, <1>4, FlowStays DEF SendRequest, flowVars
<1>5. ASSUME NEW b \in DOMAIN G.sources, Receive(b)
      PROVE  FlowInv'
  <2> DEFINE p == PeerAt(G.sources[b])
             item == {Signal(p, Len(out[b]) + 1, NoLoss)}
  <2>1. b \in Givings /\ b \notin DOMAIN G.files /\ p \in Origins
    BY <1>1, GnuRadioAssumption, GraphsAssumption DEF G, Givings, Origins
  <2>2. Put(b, item) /\ Room(b) /\ UNCHANGED <<read, session>>
    BY <1>1, <1>5 DEF Receive
  <2>3. b \in Streams => item \in SUBSET Signals /\ \A s \in item : s.at = Len(out[b]) + 1
    BY <1>2, <2>1 DEF Signal, Signals
  <2> QED
    BY <2>1, <2>2, <2>3, GivingKeeps
<1>6. ASSUME NEW b \in DOMAIN G.sinks, Reply(b)
      PROVE  FlowInv'
  BY <1>1, <1>6, TakingKeeps DEF Reply, Takers
<1>7. ASSUME NEW b \in DOMAIN G.multipliers, Multiply(b)
      PROVE  FlowInv'
  <2>1. PICK e \in Inputs(b) : Put(b, {Signal(s.from, s.at, gain[b]) : s \in Ahead(e)})
    BY <1>7 DEF Multiply
  <2> DEFINE item == {Signal(s.from, s.at, gain[b]) : s \in Ahead(e)}
  <2>2. b \in Passers /\ b \notin G.adders /\ gain[b] \in OwnLosses
    BY <1>1, Kinds DEF Passers, TypeOK
  <2>3. CanRead(b) /\ Room(b) /\ Take(b)
    BY <1>7 DEF Multiply
  <2>4. b \in Streams => item \in SUBSET Signals /\ \A s \in item : s.at = Len(out[b]) + 1
    <3> SUFFICES ASSUME b \in Streams, NEW s \in Ahead(e)
                 PROVE  /\ Signal(s.from, s.at, gain[b]) \in Signals
                        /\ s.at = Len(out[b]) + 1
      BY DEF Signal
    <3>1. s \in Signals /\ s.at = Len(out[b]) + 1
      BY <1>3, <2>2, <2>3
    <3> QED
      BY <2>2, <3>1 DEF Signals, Signal
  <2> QED
    BY <1>1, <2>1, <2>2, <2>3, <2>4, PassingKeeps
<1>8. ASSUME NEW b \in G.adders, Add(b)
      PROVE  FlowInv'
  <2> DEFINE item == UNION {Ahead(e) : e \in Inputs(b)}
  <2>1. b \in Passers /\ CanRead(b) /\ Room(b) /\ Take(b) /\ Put(b, item)
    BY <1>8 DEF Add, Passers
  <2>2. b \in Streams => item \in SUBSET Signals /\ \A s \in item : s.at = Len(out[b]) + 1
    BY <1>3, <2>1
  <2>3. b \in Streams => item = UNION {Ahead(e) : e \in {e \in G.edges : To(e) = b}}
    BY <1>2
  <2> QED
    BY <1>1, <2>1, <2>2, <2>3, PassingKeeps
<1>9. ASSUME NEW b \in DOMAIN G.logs \cup DOMAIN G.displays, Tap(b)
      PROVE  FlowInv'
  BY <1>1, <1>9, TakingKeeps DEF Tap, Takers
<1>10. ASSUME NEW b \in DOMAIN G.files, ReadFile(b)
       PROVE  FlowInv'
  <2> DEFINE item == {Signal(G.files[b], Len(out[b]) + 1, NoLoss)}
  <2>1. b \in Givings /\ G.files[b] \in Origins
    BY DEF Givings, Origins
  <2>2. /\ Put(b, item) /\ Room(b) /\ UNCHANGED <<read, session>>
        /\ Len(out[b]) < session.length[G.files[b]]
    BY <1>1, <1>10 DEF ReadFile
  <2>3. b \in Streams => item \in SUBSET Signals /\ \A s \in item : s.at = Len(out[b]) + 1
    BY <1>2, <2>1 DEF Signal, Signals
  <2> QED
    BY <2>1, <2>2, <2>3, GivingKeeps
<1>11. ASSUME NEW b \in G.heads, PassOn(b)
       PROVE  FlowInv'
  <2>1. PICK e \in Inputs(b) : Put(b, Ahead(e))
    BY <1>11 DEF PassOn
  <2>2. b \in Passers /\ b \notin G.adders
    BY <1>1, Kinds DEF Passers
  <2>3. CanRead(b) /\ Room(b) /\ Take(b)
    BY <1>11 DEF PassOn
  <2> QED
    BY <1>1, <1>3, <2>1, <2>2, <2>3, PassingKeeps
<1> QED
  BY <1>4, <1>5, <1>6, <1>7, <1>8, <1>9, <1>10, <1>11

-----------------------------------------------------------------------------
(* Types.                                                                  *)

LEMMA LinksType ==
  ASSUME LinksTypeOK({Chunk}), NEW p \in Peers,
         \/ ReqSend(p) \/ ReqRecv(p) \/ PeerAnswer(p, Chunk)
         \/ PeerAsk(p) \/ PeerRestart(p)
  PROVE  LinksTypeOK({Chunk})'
<1> USE DEF LinksTypeOK, PullStates, AskStates
<1>1. CASE ReqSend(p)
  BY <1>1 DEF ReqSend, repVars
<1>2. CASE ReqRecv(p)
  BY <1>2 DEF ReqRecv, repVars
<1>3. CASE PeerAnswer(p, Chunk)
  BY <1>3 DEF PeerAnswer, repVars
<1>4. CASE PeerAsk(p)
  BY <1>4 DEF PeerAsk, reqVars
<1>5. CASE PeerRestart(p)
  BY <1>5, LinksAssumption DEF PeerRestart
<1> QED
  BY <1>1, <1>2, <1>3, <1>4, <1>5

LEMMA ReplyLinksType ==
  ASSUME LinksTypeOK({Chunk}), session \in Sessions, NEW b \in DOMAIN G.sinks, Reply(b)
  PROVE  LinksTypeOK({Chunk})'
<1>1. PeerAt(G.sinks[b]) \in Peers
  BY GnuRadioAssumption, GraphsAssumption DEF G
<1> QED
  BY <1>1 DEF Reply, LinksTypeOK, PullStates, AskStates, reqVars

LEMMA BlocksKeepLinks ==
  ASSUME TypeOK, BlocksNext
  PROVE  LinksTypeOK({Chunk})'
<1>1. session \in Sessions /\ LinksTypeOK({Chunk})
  BY DEF TypeOK
<1>2. \A b \in DOMAIN G.sources : PeerAt(G.sources[b]) \in Peers
  BY <1>1, GnuRadioAssumption, GraphsAssumption DEF G
<1>3. ASSUME NEW b \in DOMAIN G.sources, SendRequest(b) \/ Receive(b)
      PROVE  LinksTypeOK({Chunk})'
  BY <1>1, <1>2, <1>3, LinksType DEF SendRequest, Receive
<1>4. ASSUME NEW b \in DOMAIN G.sinks, Reply(b)
      PROVE  LinksTypeOK({Chunk})'
  BY <1>1, <1>4, ReplyLinksType
<1>5. ASSUME UNCHANGED linkVars
      PROVE  LinksTypeOK({Chunk})'
  BY <1>1, <1>5 DEF LinksTypeOK, linkVars
<1>6. ASSUME NEW b, Multiply(b) \/ Add(b) \/ Tap(b) \/ ReadFile(b) \/ PassOn(b)
      PROVE  UNCHANGED linkVars
  BY <1>6 DEF Multiply, Add, Tap, ReadFile, PassOn
<1> QED
  BY <1>3, <1>4, <1>5, <1>6 DEF BlocksNext

LEMMA SlidersType ==
  ASSUME TypeOK,
         set_k \/ \E u \in DOMAIN loss, db \in SliderValues : set_path_loss_db(u, db)
  PROVE  TypeOK'
<1>1. session \in Sessions
  BY DEF TypeOK
<1>2. session' = session
  BY DEF set_k, set_path_loss_db
<1>3. G.setters \in [DOMAIN G.pathloss -> Seq(DOMAIN G.multipliers)]
  BY <1>1, GnuRadioAssumption, GraphsAssumption DEF G
<1>4. UNCHANGED <<G, Blocks, Decibels, OwnLosses, Signals, Origins>>
  BY <1>2 DEF G, Blocks, Decibels, OwnLosses, Signals, Origins
<1>5. LinksTypeOK({Chunk})' /\ UNCHANGED <<out, read, sigint, expired>>
  BY DEF TypeOK, set_k, set_path_loss_db, flowVars, LinksTypeOK, linkVars
<1>6. CASE set_k
  <2>1. /\ todo[1] \in (DOMAIN G.multipliers) \X (DOMAIN G.pathloss)
        /\ Tail(todo) \in Seq((DOMAIN G.multipliers) \X (DOMAIN G.pathloss))
    BY <1>6 DEF TypeOK, set_k
  <2>2. <<todo[1][2], loss[todo[1][2]]>> \in OwnLosses
    BY <2>1 DEF TypeOK, OwnLosses
  <2>3. gain' \in [DOMAIN G.multipliers -> OwnLosses]
    BY <1>6, <2>2 DEF TypeOK, set_k
  <2> QED
    BY <1>2, <1>4, <1>5, <1>6, <2>1, <2>3 DEF TypeOK, set_k
<1>7. CASE \E u \in DOMAIN loss, db \in SliderValues : set_path_loss_db(u, db)
  <2>1. PICK u \in DOMAIN loss, db \in SliderValues : set_path_loss_db(u, db)
    BY <1>7
  <2>2. u \in DOMAIN G.pathloss /\ G.setters[u] \in Seq(DOMAIN G.multipliers)
    BY <1>3 DEF TypeOK
  <2>3. loss' \in [DOMAIN G.pathloss -> Decibels]
    BY <2>1 DEF TypeOK, set_path_loss_db, Decibels
  <2>4. /\ todo' \in Seq((DOMAIN G.multipliers) \X (DOMAIN G.pathloss))
        /\ G.setters[u] # <<>> => todo' # <<>>
    <3> DEFINE n == Len(G.setters[u])
    <3>1. n \in Nat /\ DOMAIN G.setters[u] = 1 .. n
      BY <2>2
    <3>2. todo' = [i \in 1 .. n |-> <<G.setters[u][i], u>>]
      BY <2>1, <3>1 DEF set_path_loss_db
    <3>3. \A i \in 1 .. n : <<G.setters[u][i], u>> \in (DOMAIN G.multipliers) \X (DOMAIN G.pathloss)
      BY <2>2, <3>1
    <3>4. todo' \in Seq((DOMAIN G.multipliers) \X (DOMAIN G.pathloss))
      BY <3>1, <3>2, <3>3
    <3>5. ASSUME G.setters[u] # <<>>
          PROVE  todo' # <<>>
      <4>1. n # 0
        BY <2>2, <3>5, EmptySeq
      <4>2. DOMAIN todo' = 1 .. n /\ 1 \in 1 .. n
        BY <3>1, <3>2, <4>1
      <4> QED
        BY <4>2
    <3> QED
      BY <3>4, <3>5
  <2> QED
    BY <1>2, <1>4, <1>5, <2>1, <2>3, <2>4 DEF TypeOK, set_path_loss_db
<1> QED
  BY <1>6, <1>7

-----------------------------------------------------------------------------
(* The whole.                                                              *)

IInv == TypeOK /\ FlowInv

LEMMA InitGives ==
  ASSUME Init
  PROVE  IInv
<1>1. session \in Sessions /\ session.script \in DOMAIN Graphs
  BY GnuRadioAssumption DEF Init
<1>2. /\ \A e \in G.edges : From(e) \in Streams
      /\ G.multipliers \in [DOMAIN G.multipliers -> DOMAIN G.pathloss]
      /\ G.pathloss \in [DOMAIN G.pathloss -> Nat]
      /\ BufferItems \in Nat
      /\ \A b \in DOMAIN G.files : session.length[G.files[b]] \in Nat
  BY <1>1, Ends, Kinds, GraphsAssumption DEF G
<1>3. out = [b \in Streams |-> <<>>] /\ read = [e \in G.edges |-> 0]
  BY DEF Init, Streams
<1>4. LinksTypeOK({Chunk})
  BY LinksAssumption DEF Init, LinksInit, LinksTypeOK, PullStates, AskStates
<1>5. loss \in [DOMAIN G.pathloss -> Decibels]
  BY <1>2 DEF Init, Decibels
<1>6. gain \in [DOMAIN G.multipliers -> OwnLosses]
  BY <1>2 DEF Init, Decibels, OwnLosses
<1>7. FlowTypeOK
  BY <1>1, <1>3 DEF FlowTypeOK
<1>8. TypeOK
  <2>1. todo \in Seq((DOMAIN G.multipliers) \X (DOMAIN G.pathloss))
    BY DEF Init
  <2> QED
    BY <1>4, <1>5, <1>6, <1>7, <2>1 DEF Init, TypeOK, FlowTypeOK, Streams
<1>9. /\ \A b \in Streams : Len(out[b]) = 0
      /\ \A e \in G.edges : read[e] = 0
  BY <1>3
<1>10. Buffers /\ OneForOne /\ Level /\ FilesEnd
  BY <1>2, <1>9 DEF Buffers, OneForOne, Level, FilesEnd
<1>11. InPosition /\ SumsAddUp
  BY <1>3, <1>9 DEF InPosition, SumsAddUp
<1> QED
  BY <1>7, <1>8, <1>10, <1>11 DEF IInv, FlowInv

LEMMA NextKeeps ==
  ASSUME IInv, [Next]_vars
  PROVE  IInv'
<1> USE DEF IInv
<1>1. session \in Sessions /\ LinksTypeOK({Chunk})
  BY DEF TypeOK
<1>2. session' = session
  BY DEF Next, vars, BlocksNext, MainNext, set_k, timeout, sig_handler, WaitReturns,
         PollsNext, PollEnds, UserNext, set_path_loss_db, closeEvent, Interrupt, PeersServe, Answer, Ask, Restart, scriptVars
<1>3. UNCHANGED <<G, Streams, Blocks, Decibels, OwnLosses, Signals, Origins>>
  BY <1>2 DEF G, Streams, Givers, Blocks, Decibels, OwnLosses, Signals, Origins
<1>4. CASE BlocksNext
  <2>1. FlowInv' /\ LinksTypeOK({Chunk})'
    BY <1>4, BlocksKeepFlow, BlocksKeepLinks
  <2>2. UNCHANGED <<loss, gain, gui, todo, sigint, expired, moves, session>>
    BY <1>4 DEF BlocksNext, sliderVars, mainVars
  <2>3. TypeOK'
    BY <1>3, <2>1, <2>2 DEF TypeOK, FlowInv, FlowTypeOK, Streams
  <2> QED
    BY <2>1, <2>3
<1>5. CASE set_k \/ \E u \in DOMAIN loss, db \in SliderValues : set_path_loss_db(u, db)
  BY <1>5, SlidersType, FlowStays DEF set_k, set_path_loss_db, flowVars
<1>6. CASE \/ timeout \/ sig_handler \/ WaitReturns \/ PollsNext \/ closeEvent \/ Interrupt
           \/ \E p \in Peers : Answer(p) \/ Ask(p) \/ Restart(p)
           \/ UNCHANGED vars
  <2>1. UNCHANGED <<out, read, session, loss, gain, todo, moves>>
    BY <1>6 DEF timeout, sig_handler, WaitReturns, PollsNext, PollEnds, closeEvent,
             Interrupt, Answer, Ask, Restart, scriptVars, flowVars, sliderVars, vars
  <2>2. LinksTypeOK({Chunk})'
    <3>1. CASE \E p \in Peers : Answer(p) \/ Ask(p) \/ Restart(p)
      BY <1>1, <3>1, LinksType DEF Answer, Ask, Restart
    <3>2. CASE UNCHANGED linkVars
      BY <1>1, <3>2 DEF LinksTypeOK, linkVars
    <3> QED
      BY <1>6, <3>1, <3>2 DEF timeout, sig_handler, WaitReturns, PollsNext, PollEnds,
            closeEvent, Interrupt, vars
  <2>3. /\ gui' \in {"idle", "setting", "ticking", "waiting", "closed"}
        /\ gui' = "setting" => gui = "setting"
        /\ sigint' \in BOOLEAN
    BY <1>6 DEF TypeOK, timeout, sig_handler, WaitReturns, PollsNext, PollEnds, closeEvent,
             Interrupt, Answer, Ask, Restart, scriptVars, mainVars, vars
  <2>4. expired' \subseteq Blocks
    BY <1>6 DEF TypeOK, timeout, sig_handler, WaitReturns, PollsNext, PollEnds, closeEvent,
             Interrupt, Answer, Ask, Restart, scriptVars, mainVars, vars
  <2>5. TypeOK'
    BY <1>3, <2>1, <2>2, <2>3, <2>4 DEF TypeOK
  <2> QED
    BY <2>1, <2>5, FlowStays
<1> QED
  BY <1>4, <1>5, <1>6 DEF Next, MainNext, UserNext, PeersServe

LEMMA Invariant == Spec => []IInv
BY InitGives, NextKeeps, PTL DEF Spec

\* Every variable keeps its type.
THEOREM TypeCorrect == Spec => []TypeOK
BY Invariant, PTL DEF IInv

-----------------------------------------------------------------------------
(* What the wiring makes of it.                                            *)

LEMMA InStep ==
  ASSUME IInv, DownlinkWired(G)
  PROVE  DownlinksInStep
<1>1. session \in Sessions /\ session.script \in DOMAIN Graphs
  BY GnuRadioAssumption DEF IInv, TypeOK
<1>2. /\ \A x \in G.edges : From(x) \in Streams
      /\ \A x \in G.edges : read[x] \in Nat /\ Len(out[From(x)]) \in Nat
      /\ BufferItems \in Nat
  BY <1>1, Ends, Kinds, Lengths DEF IInv, FlowInv
<1>3. \A x \in G.edges :
        read[x] <= Len(out[From(x)]) /\ Len(out[From(x)]) <= read[x] + BufferItems
  BY DEF IInv, FlowInv, Buffers
<1> SUFFICES ASSUME NEW e \in UeSinkEdges, NEW f \in UeSinkEdges
             PROVE  read[e] - read[f] <= 2 * BufferItems
  BY DEF DownlinksInStep
<1>4. /\ e \in G.edges /\ f \in G.edges
      /\ To(e) \in DOMAIN G.sinks /\ PeerAt(G.sinks[To(e)]) # Gnb
      /\ To(f) \in DOMAIN G.sinks /\ PeerAt(G.sinks[To(f)]) # Gnb
  BY DEF UeSinkEdges
<1>5. PICK b \in DOMAIN G.sources, x \in G.edges :
        /\ PeerAt(G.sources[b]) = Gnb
        /\ From(x) = b /\ To(x) = From(e) /\ From(e) \in DOMAIN G.multipliers
  BY <1>4 DEF DownlinkWired, Feeds
<1>6. PICK c \in DOMAIN G.sources, y \in G.edges :
        /\ PeerAt(G.sources[c]) = Gnb
        /\ From(y) = c /\ To(y) = From(f) /\ From(f) \in DOMAIN G.multipliers
  BY <1>4 DEF DownlinkWired, Feeds
<1>7. b = c
  BY <1>5, <1>6 DEF DownlinkWired
<1>8. Len(out[From(e)]) = read[x] /\ Len(out[From(f)]) = read[y]
  BY <1>2, <1>4, <1>5, <1>6 DEF IInv, FlowInv, OneForOne, Passers
<1>9. read[e] <= Len(out[b])
  <2>1. read[e] <= read[x] /\ read[x] <= Len(out[b])
    BY <1>3, <1>4, <1>5, <1>8
  <2> QED
    BY <1>2, <1>4, <1>5, <2>1
<1>10. Len(out[b]) <= read[f] + 2 * BufferItems
  <2>1. Len(out[b]) <= read[y] + BufferItems /\ read[y] <= read[f] + BufferItems
    BY <1>3, <1>4, <1>6, <1>7, <1>8
  <2>2. read[y] \in Nat /\ read[f] \in Nat /\ Len(out[b]) \in Nat
    BY <1>2, <1>4, <1>5
  <2> QED
    BY <1>2, <2>1, <2>2
<1> QED
  <2>1. read[e] \in Nat /\ read[f] \in Nat /\ Len(out[b]) \in Nat
    BY <1>2, <1>4, <1>5
  <2> QED
    BY <1>2, <1>9, <1>10, <2>1

LEMMA PlotsWait ==
  ASSUME IInv, PlotsWired(G)
  PROVE  PlotsWaitForShortest
<1>1. session \in Sessions /\ session.script \in DOMAIN Graphs
  BY GnuRadioAssumption DEF IInv, TypeOK
<1>2. /\ \A x \in G.edges : From(x) \in Streams
      /\ \A x \in G.edges : read[x] \in Nat /\ Len(out[From(x)]) \in Nat
      /\ BufferItems \in Nat
      /\ \A b \in DOMAIN G.files : session.length[G.files[b]] \in Nat
  BY <1>1, Ends, Kinds, Lengths DEF IInv, FlowInv
<1>3. \A x \in G.edges :
        read[x] <= Len(out[From(x)]) /\ Len(out[From(x)]) <= read[x] + BufferItems
  BY DEF IInv, FlowInv, Buffers
<1> SUFFICES ASSUME NEW e \in G.edges, NEW b \in DOMAIN G.files, To(e) \in DOMAIN G.displays
             PROVE  read[e] <= session.length[G.files[b]] + BufferItems
  BY DEF PlotsWaitForShortest
<1>4. PICK h \in G.heads, x \in G.edges, y \in G.edges, z \in G.edges :
        /\ From(x) = From(e) /\ To(x) = To(y)
        /\ From(y) = h /\ From(z) = b /\ To(z) = h
  <2>1. PICK t \in DOMAIN G.displays, h \in G.heads :
          Feeds(G, From(e), t) /\ Feeds(G, h, t) /\ Feeds(G, b, h)
    BY DEF PlotsWired
  <2> QED
    BY <2>1 DEF Feeds
<1>5. Len(out[From(y)]) = read[z] /\ read[x] = read[y]
  BY <1>2, <1>4 DEF IInv, FlowInv, OneForOne, Level, Passers
<1>6. Len(out[b]) <= session.length[G.files[b]]
  BY <1>2, <1>4 DEF IInv, FlowInv, FilesEnd
<1>7. read[e] <= read[z] + BufferItems
  <2>1. read[e] <= Len(out[From(x)]) /\ Len(out[From(x)]) <= read[x] + BufferItems
    BY <1>3, <1>4
  <2>2. read[x] <= Len(out[From(y)])
    BY <1>3, <1>5
  <2>3. /\ read[e] \in Nat /\ read[x] \in Nat /\ read[z] \in Nat
        /\ Len(out[From(x)]) \in Nat
    BY <1>2
  <2> QED
    BY <1>2, <1>5, <2>1, <2>2, <2>3
<1>8. read[z] <= session.length[G.files[b]]
  <2>1. read[z] <= Len(out[b])
    BY <1>3, <1>4
  <2>2. read[z] \in Nat /\ Len(out[b]) \in Nat /\ session.length[G.files[b]] \in Nat
    BY <1>2, <1>4
  <2> QED
    BY <1>6, <2>1, <2>2
<1> QED
  <2>1. read[e] \in Nat /\ read[z] \in Nat /\ session.length[G.files[b]] \in Nat
    BY <1>2
  <2> QED
    BY <1>2, <1>7, <1>8, <2>1

LEMMA AddUp ==
  ASSUME IInv, SumWired(G)
  PROVE  LogsAddUp
<1>1. session \in Sessions /\ session.script \in DOMAIN Graphs
  BY GnuRadioAssumption DEF IInv, TypeOK
<1>2. /\ \A x \in G.edges : From(x) \in Streams
      /\ \A x \in G.edges : read[x] \in Nat /\ Len(out[From(x)]) \in Nat
  BY <1>1, Ends, Lengths DEF IInv, FlowInv
<1> SUFFICES ASSUME NEW e \in SumLogEdges, NEW k \in 1 .. Len(out[From(e)])
             PROVE  /\ \A f \in UeLogEdges : k <= Len(out[From(f)])
                    /\ out[From(e)][k] = UNION {out[From(f)][k] : f \in UeLogEdges}
  BY DEF LogsAddUp
<1>3. e \in G.edges /\ To(e) \in DOMAIN G.logs /\ G.logs[To(e)] = SumLog
  BY DEF SumLogEdges, LogEdges
<1>4. UeLogEdges = {f \in G.edges : To(f) \in DOMAIN G.logs /\ G.logs[To(f)] # SumLog}
  BY DEF UeLogEdges, SumLogEdges, LogEdges
<1>5. /\ UeStreams(G) = {From(f) : f \in UeLogEdges}
      /\ \/ UeStreams(G) = {From(e)}
         \/ /\ From(e) \in G.adders
            /\ UeStreams(G) = {From(f) : f \in {f \in G.edges : To(f) = From(e)}}
  <2>1. UeStreams(G) = {From(f) : f \in UeLogEdges}
    BY <1>4 DEF UeStreams
  <2> QED
    BY <1>3, <2>1 DEF SumWired
<1>6. UNION {out[From(f)][k] : f \in UeLogEdges} = UNION {out[b][k] : b \in UeStreams(G)}
  BY <1>5
<1>7. CASE UeStreams(G) = {From(e)}
  <2>1. \A f \in UeLogEdges : From(f) = From(e)
    BY <1>5, <1>7
  <2>2. UNION {out[b][k] : b \in UeStreams(G)} = out[From(e)][k]
    BY <1>7
  <2>3. k <= Len(out[From(e)])
    BY <1>2, <1>3
  <2>4. \A f \in UeLogEdges : k <= Len(out[From(f)])
    BY <2>1, <2>3
  <2> QED
    BY <1>6, <2>2, <2>4
<1>8. CASE /\ From(e) \in G.adders
           /\ UeStreams(G) = {From(f) : f \in {f \in G.edges : To(f) = From(e)}}
  <2> DEFINE Ins == {f \in G.edges : To(f) = From(e)}
  <2>1. \A f \in Ins : k <= Len(out[From(f)])
    <3> SUFFICES ASSUME NEW f \in Ins
                 PROVE  k <= Len(out[From(f)])
      OBVIOUS
    <3>1. Len(out[From(e)]) = read[f] /\ read[f] <= Len(out[From(f)])
      <4>1. f \in G.edges /\ To(f) = From(e) /\ To(f) \in Passers /\ To(f) \in Streams
        BY <1>2, <1>3, <1>8 DEF Passers
      <4> QED
        BY <4>1 DEF IInv, FlowInv, OneForOne, Buffers
    <3>2. /\ k \in Nat /\ k <= Len(out[From(e)])
          /\ read[f] \in Nat /\ Len(out[From(f)]) \in Nat
      BY <1>2, <1>3
    <3> QED
      BY <3>1, <3>2
  <2>2. \A f \in UeLogEdges : \E x \in Ins : From(f) = From(x)
    <3>1. UeStreams(G) = {From(x) : x \in Ins}
      BY <1>8
    <3>2. \A f \in UeLogEdges : From(f) \in UeStreams(G)
      BY <1>5
    <3> QED
      BY <3>1, <3>2
  <2>3. out[From(e)][k] = UNION {out[From(f)][k] : f \in Ins}
    BY <1>2, <1>3, <1>8 DEF IInv, FlowInv, SumsAddUp
  <2>4. UNION {out[From(f)][k] : f \in Ins} = UNION {out[b][k] : b \in UeStreams(G)}
    BY <1>8
  <2> QED
    BY <1>6, <2>1, <2>2, <2>3, <2>4
<1> QED
  BY <1>5, <1>7, <1>8

\* No UE gets more than two buffers ahead of another, since the gNB's source
\* feeds all of them.
THEOREM InStepAlways ==
  ASSUME \A s \in DOMAIN Graphs : DownlinkWired(Graphs[s])
  PROVE  Spec => []DownlinksInStep
<1>1. ASSUME IInv
      PROVE  DownlinksInStep
  <2>1. session.script \in DOMAIN Graphs
    BY <1>1, GnuRadioAssumption DEF IInv, TypeOK
  <2>2. DownlinkWired(G)
    BY <2>1 DEF G
  <2> QED
    BY <1>1, <2>2, InStep
<1> QED
  BY <1>1, Invariant, PTL

\* The sum's log is at every place the sum of the UEs' logs.
THEOREM SumsLogged ==
  ASSUME \A s \in DOMAIN Graphs : SumWired(Graphs[s])
  PROVE  Spec => []LogsAddUp
<1>1. ASSUME IInv
      PROVE  LogsAddUp
  <2>1. session.script \in DOMAIN Graphs
    BY <1>1, GnuRadioAssumption DEF IInv, TypeOK
  <2>2. SumWired(G)
    BY <2>1 DEF G
  <2> QED
    BY <1>1, <2>2, AddUp
<1> QED
  BY <1>1, Invariant, PTL

\* No plot gets more than one buffer past the end of the shortest log.
THEOREM PlotsBounded ==
  ASSUME \A s \in DOMAIN Graphs : PlotsWired(Graphs[s])
  PROVE  Spec => []PlotsWaitForShortest
<1>1. ASSUME IInv
      PROVE  PlotsWaitForShortest
  <2>1. session.script \in DOMAIN Graphs
    BY <1>1, GnuRadioAssumption DEF IInv, TypeOK
  <2>2. PlotsWired(G)
    BY <2>1 DEF G
  <2> QED
    BY <1>1, <2>2, PlotsWait
<1> QED
  BY <1>1, Invariant, PTL

-----------------------------------------------------------------------------
(* The sliders.                                                            *)

\* Every multiply_const has the path loss of its UE, or a setter that is under
\* way will still set it.
Slides ==
  /\ \A b \in DOMAIN G.multipliers : gain[b][1] = G.multipliers[b]
  /\ \A i \in DOMAIN todo : G.multipliers[todo[i][1]] = todo[i][2]
  /\ \A b \in DOMAIN G.multipliers :
       \/ gain[b][2] = loss[G.multipliers[b]]
       \/ \E i \in DOMAIN todo : todo[i][1] = b
  /\ gui = "idle" => todo = <<>>

LEMMA InitSlides ==
  ASSUME Init
  PROVE  Slides
BY DEF Init, Slides

\* set_k does the first of the calls that are left.
LEMMA SetKeepsSlides ==
  ASSUME TypeOK, Slides, set_k
  PROVE  Slides'
<1> DEFINE M == DOMAIN G.multipliers
<1>1. UNCHANGED <<G, loss>>
  BY DEF set_k, G
<1>2. /\ todo # <<>> /\ todo \in Seq(M \X (DOMAIN G.pathloss))
      /\ gain \in [M -> OwnLosses]
      /\ todo' = Tail(todo) /\ gui' = IF Tail(todo) = <<>> THEN "idle" ELSE "setting"
      /\ gain' = [gain EXCEPT ![todo[1][1]] = <<todo[1][2], loss[todo[1][2]]>>]
  BY DEF TypeOK, set_k
<1>3. /\ Len(todo) \in Nat \ {0} /\ DOMAIN todo = 1 .. Len(todo)
      /\ DOMAIN todo' = 1 .. (Len(todo) - 1)
      /\ \A i \in DOMAIN todo' : i + 1 \in DOMAIN todo /\ todo'[i] = todo[i + 1]
  BY <1>2
<1>4. 1 \in DOMAIN todo /\ todo[1][1] \in M /\ G.multipliers[todo[1][1]] = todo[1][2]
  BY <1>2, <1>3 DEF Slides
<1>5. \A b \in M : gain'[b] = IF b = todo[1][1]
                              THEN <<todo[1][2], loss[todo[1][2]]>> ELSE gain[b]
  BY <1>2
<1>6. \A b \in M : gain'[b][1] = G.multipliers[b]
  BY <1>4, <1>5 DEF Slides
<1>7. \A i \in DOMAIN todo' : G.multipliers[todo'[i][1]] = todo'[i][2]
  BY <1>3 DEF Slides
<1>8. ASSUME NEW b \in M
      PROVE  \/ gain'[b][2] = loss[G.multipliers[b]]
             \/ \E i \in DOMAIN todo' : todo'[i][1] = b
  <2>1. CASE b = todo[1][1]
    BY <1>4, <1>5, <2>1
  <2>2. CASE b # todo[1][1] /\ gain[b][2] = loss[G.multipliers[b]]
    BY <1>5, <2>2
  <2>3. CASE b # todo[1][1] /\ gain[b][2] # loss[G.multipliers[b]]
    <3>1. PICK i \in DOMAIN todo : todo[i][1] = b
      BY <2>3 DEF Slides
    <3>2. i # 1 /\ i - 1 \in DOMAIN todo' /\ todo'[i - 1] = todo[i]
      BY <1>3, <2>3, <3>1
    <3> QED
      BY <3>1, <3>2
  <2> QED
    BY <2>1, <2>2, <2>3
<1>9. gui' = "idle" => todo' = <<>>
  BY <1>2
<1> QED
  BY <1>1, <1>6, <1>7, <1>8, <1>9 DEF Slides

\* The setter of UE u is left with all the multiply_consts of u.
LEMMA MoveKeepsSlides ==
  ASSUME TypeOK, Slides, SlidersWired(G),
         NEW u \in DOMAIN loss, NEW db \in SliderValues, set_path_loss_db(u, db)
  PROVE  Slides'
<1> DEFINE M == DOMAIN G.multipliers
           S == G.setters[u]
<1>1. UNCHANGED <<G, gain>> /\ todo = <<>> /\ u \in DOMAIN G.setters
  BY DEF set_path_loss_db, G, Slides
<1>2. /\ DOMAIN loss = DOMAIN G.pathloss
      /\ G.multipliers \in [M -> DOMAIN G.pathloss]
      /\ S \in Seq(M)
  BY GnuRadioAssumption, GraphsAssumption DEF TypeOK, G
<1>3. /\ loss' = [loss EXCEPT ![u] = db]
      /\ todo' = [i \in DOMAIN S |-> <<S[i], u>>]
      /\ gui' = IF S = <<>> THEN "idle" ELSE "setting"
  BY DEF set_path_loss_db
<1>4. \A b \in M : gain[b][1] = G.multipliers[b] /\ gain[b][2] = loss[G.multipliers[b]]
  BY <1>1 DEF Slides
<1>5. DOMAIN todo' = DOMAIN S /\ \A i \in DOMAIN S : todo'[i] = <<S[i], u>>
  BY <1>3
<1>6. \A i \in DOMAIN todo' : G.multipliers[todo'[i][1]] = todo'[i][2]
  BY <1>1, <1>5 DEF SlidersWired
<1>7. ASSUME NEW b \in M
      PROVE  \/ gain[b][2] = loss'[G.multipliers[b]]
             \/ \E i \in DOMAIN todo' : todo'[i][1] = b
  <2>1. CASE G.multipliers[b] # u
    BY <1>2, <1>3, <1>4, <2>1 DEF TypeOK
  <2>2. CASE G.multipliers[b] = u
    <3>1. PICK i \in DOMAIN S : S[i] = b
      BY <2>2 DEF SlidersWired
    <3> QED
      BY <1>5, <3>1
  <2> QED
    BY <2>1, <2>2
<1>8. gui' = "idle" => todo' = <<>>
  BY <1>3
<1> QED
  BY <1>1, <1>4, <1>6, <1>7, <1>8 DEF Slides

LEMMA NextKeepsSlides ==
  ASSUME TypeOK, Slides, SlidersWired(G), [Next]_vars
  PROVE  Slides'
<1>1. CASE set_k
  BY <1>1, SetKeepsSlides
<1>2. CASE \E u \in DOMAIN loss, db \in SliderValues : set_path_loss_db(u, db)
  BY <1>2, MoveKeepsSlides
<1>3. CASE \/ BlocksNext \/ timeout \/ sig_handler \/ WaitReturns \/ PollsNext
           \/ closeEvent \/ Interrupt
           \/ \E p \in Peers : Answer(p) \/ Ask(p) \/ Restart(p)
           \/ UNCHANGED vars
  <2>1. UNCHANGED <<session, loss, gain, todo>> /\ (gui' = "idle" => gui = "idle")
    BY <1>3 DEF BlocksNext, timeout, sig_handler, WaitReturns, PollsNext, PollEnds, closeEvent,
             Interrupt, Answer, Ask, Restart, scriptVars, sliderVars, mainVars, vars
  <2> QED
    BY <2>1 DEF Slides, G
<1> QED
  BY <1>1, <1>2, <1>3 DEF Next, MainNext, UserNext, PeersServe

\* A block at a socket of UE u has a socket of UE u for its neighbour.
LEMMA Sockets ==
  ASSUME session \in Sessions, SlidersWired(G), NEW u \in ScriptPeers
  PROVE  /\ SourceOf(u) \in DOMAIN G.sources /\ PeerAt(G.sources[SourceOf(u)]) = u
         /\ SinkOf(u) \in DOMAIN G.sinks /\ PeerAt(G.sinks[SinkOf(u)]) = u
<1>1. session.script \in DOMAIN Graphs
  BY GnuRadioAssumption
<1>2. ASSUME NEW ports, \E b \in DOMAIN ports : PeerAt(ports[b]) = u
      PROVE  AtPeers(ports)[u] \in DOMAIN ports /\ PeerAt(ports[AtPeers(ports)[u]]) = u
  <2>1. u \in {PeerAt(ports[b]) : b \in DOMAIN ports}
    BY <1>2
  <2>2. AtPeers(ports)[u] = CHOOSE b \in DOMAIN ports : PeerAt(ports[b]) = u
    BY <2>1 DEF AtPeers
  <2> QED
    BY <1>2, <2>2
<1>3. SourceOf(u) = AtPeers(G.sources)[u] /\ SinkOf(u) = AtPeers(G.sinks)[u]
  BY <1>1 DEF SourceOf, SinkOf, SourcesOf, SinksOf, G
<1>4. \E b \in DOMAIN G.sources : PeerAt(G.sources[b]) = u
  <2>1. ScriptPeers = {PeerAt(G.sources[b]) : b \in DOMAIN G.sources}
    BY <1>1 DEF ScriptPeers, SourcesOf, AtPeers, G
  <2> QED
    BY <2>1
<1>5. \E b \in DOMAIN G.sinks : PeerAt(G.sinks[b]) = u
  BY <1>4 DEF SlidersWired
<1> QED
  BY <1>2, <1>3, <1>4, <1>5

LEMMA Alike ==
  ASSUME IInv, Slides, SlidersWired(G)
  PROVE  BothWaysAlike
<1> SUFFICES ASSUME gui = "idle", NEW u \in ScriptPeers \ {Gnb}, NEW b \in MultipliersOf(u)
             PROVE  gain[b] = <<u, loss[u]>>
  BY DEF BothWaysAlike
<1>1. session \in Sessions /\ b \in DOMAIN G.multipliers
  BY DEF IInv, TypeOK, MultipliersOf
<1>2. PICK e \in G.edges : \/ From(e) = b /\ To(e) = SinkOf(u)
                           \/ From(e) = SourceOf(u) /\ To(e) = b
  BY DEF MultipliersOf, Feeds
<1>3. G.multipliers[b] = u
  BY <1>1, <1>2, Sockets DEF SlidersWired
<1>4. gain[b][1] = u /\ gain[b][2] = loss[u] /\ gain[b] \in OwnLosses
  BY <1>1, <1>3 DEF Slides, IInv, TypeOK
<1> QED
  BY <1>4 DEF OwnLosses

\* Whenever no setter is under way, both directions of each UE have the path
\* loss that its slider shows, however the sliders were moved before.
THEOREM SlidersTrue ==
  ASSUME \A s \in DOMAIN Graphs : SlidersWired(Graphs[s])
  PROVE  Spec => []BothWaysAlike
<1>1. ASSUME IInv
      PROVE  SlidersWired(G)
  BY <1>1, GnuRadioAssumption DEF IInv, TypeOK, G
<1>2. Init => Slides
  BY InitSlides
<1>3. IInv /\ Slides /\ [Next]_vars => Slides'
  BY <1>1, NextKeepsSlides DEF IInv
<1>4. IInv /\ Slides => BothWaysAlike
  BY <1>1, Alike
<1> QED
  BY <1>2, <1>3, <1>4, Invariant, PTL DEF Spec

-----------------------------------------------------------------------------
(* What the streams consist of.                                            *)

\* The item with a path loss db of UE u.
WithLoss(item, u, db) == {Signal(s.from, s.at, <<u, db>>) : s \in item}

\* What the k-th item of block b is made of: a source's is the k-th message
\* of its peer, or of its log; a multiply_const's is its input's with a path
\* loss of its UE; and a head's is its input's.
Made(g, streams, b, k, item) ==
  /\ b \in DOMAIN g.sources => item = {Signal(PeerAt(g.sources[b]), k, NoLoss)}
  /\ b \in DOMAIN g.files => item = {Signal(g.files[b], k, NoLoss)}
  /\ \A e \in g.edges : To(e) = b =>
       /\ b \in DOMAIN g.multipliers =>
            \E db : item = WithLoss(streams[From(e)][k], g.multipliers[b], db)
       /\ b \in g.heads => item = streams[From(e)][k]

Contents ==
  \A b \in Streams : \A k \in 1 .. Len(out[b]) : Made(G, out, b, k, out[b][k])

LEMMA InitContents ==
  ASSUME Init
  PROVE  Contents
BY DEF Init, Contents, Streams

\* An item is behind the inputs it is made of.
LEMMA Behind ==
  ASSUME FlowInv, NEW e \in G.edges, To(e) \in Passers, To(e) \in Streams,
         NEW k \in 1 .. Len(out[To(e)])
  PROVE  From(e) \in Streams /\ k \in 1 .. Len(out[From(e)])
<1>1. From(e) \in Streams /\ Len(out[From(e)]) \in Nat /\ Len(out[To(e)]) \in Nat
  BY Ends, Lengths DEF FlowInv, FlowTypeOK
<1>2. Len(out[To(e)]) = read[e] /\ read[e] <= Len(out[From(e)])
  BY DEF FlowInv, OneForOne, Buffers
<1> QED
  BY <1>1, <1>2

\* What an item is made of does not change.
LEMMA MadeStays ==
  ASSUME FlowInv, session' = session,
         \A c \in Streams : \A j \in 1 .. Len(out[c]) : out'[c][j] = out[c][j],
         NEW b, NEW k, NEW item, Made(G, out, b, k, item),
         \A e \in G.edges :
           To(e) = b /\ b \in Passers => From(e) \in Streams /\ k \in 1 .. Len(out[From(e)])
  PROVE  Made(G, out', b, k, item)
<1>1. ASSUME NEW e \in G.edges, To(e) = b, b \in Passers
      PROVE  out'[From(e)][k] = out[From(e)][k]
  BY <1>1
<1> QED
  BY <1>1 DEF Made, Passers

\* A block puts out an item that is made as it should be.
LEMMA PutKeepsContents ==
  ASSUME IInv, Contents, session' = session, NEW b, NEW item, Put(b, item),
         b \in Streams =>
           /\ Made(G, out, b, Len(out[b]) + 1, item)
           /\ \A e \in G.edges :
                To(e) = b /\ b \in Passers => Len(out[b]) + 1 \in 1 .. Len(out[From(e)])
  PROVE  Contents'
<1>1. FlowInv /\ FlowTypeOK /\ session \in Sessions
  BY DEF IInv, FlowInv, FlowTypeOK
<1>2. Streams' = Streams
  BY DEF Streams, Givers
<1>3. /\ \A c \in Streams : Len(out[c]) \in Nat
      /\ \A e \in G.edges : From(e) \in Streams
  BY <1>1, Lengths, Ends
<1>4. Grown(b, item)
  BY <1>1, PutAppends
<1>5. \A c \in Streams : \A j \in 1 .. Len(out[c]) : out'[c][j] = out[c][j]
  BY <1>4 DEF Grown
<1>6. ASSUME NEW c \in Streams, NEW k \in 1 .. Len(out'[c])
      PROVE  Made(G, out', c, k, out'[c][k])
  <2>1. CASE k \in 1 .. Len(out[c])
    <3>1. Made(G, out, c, k, out[c][k]) /\ out'[c][k] = out[c][k]
      BY <1>5, <2>1 DEF Contents
    <3>2. \A e \in G.edges : To(e) = c /\ c \in Passers =>
            From(e) \in Streams /\ k \in 1 .. Len(out[From(e)])
      BY <1>1, <2>1, Behind
    <3> QED
      BY <1>1, <1>5, <3>1, <3>2, MadeStays
  <2>2. CASE k \notin 1 .. Len(out[c])
    <3>1. c = b /\ k = Len(out[b]) + 1 /\ out'[c][k] = item
      BY <1>3, <1>4, <2>2 DEF Grown
    <3> QED
      BY <1>1, <1>3, <1>5, <3>1, MadeStays
  <2> QED
    BY <2>1, <2>2
<1>7. G' = G
  BY DEF G
<1> QED
  BY <1>2, <1>6, <1>7 DEF Contents

LEMMA ContentsStay ==
  ASSUME Contents, UNCHANGED <<out, session>>
  PROVE  Contents'
BY DEF Contents, Streams, Givers, G

\* Each kind of block puts out what it should.
LEMMA BlocksKeepContents ==
  ASSUME IInv, Slides, Contents, BlocksNext
  PROVE  Contents'
<1>1. FlowInv /\ TypeOK /\ session \in Sessions /\ session' = session
  BY DEF IInv, FlowInv, FlowTypeOK, BlocksNext
<1>2. /\ \A c \in Streams : Len(out[c]) \in Nat
      /\ \A e \in G.edges : read[e] \in Nat /\ Len(out[From(e)]) \in Nat
      /\ \A c \in Streams : Inputs(c) = {e \in G.edges : To(e) = c}
  BY <1>1, Lengths, Ends DEF FlowInv
<1>3. /\ Givings \cap Passers = {}
      /\ \A e \in G.edges : To(e) \notin Givings
      /\ G.adders \cap DOMAIN G.multipliers = {} /\ G.adders \cap G.heads = {}
  BY <1>1, Kinds
<1>4. /\ DOMAIN G.files = {} \/ DOMAIN G.sources = {}
      /\ DOMAIN G.multipliers \cap G.heads = {}
      /\ \A e, f \in G.edges :
           To(e) = To(f) /\ To(e) \in DOMAIN G.multipliers \cup G.heads => e = f
  BY <1>1, GnuRadioAssumption, GraphsAssumption DEF G
<1>5. ASSUME NEW b \in Passers, b \in Streams, CanRead(b), NEW e \in G.edges, To(e) = b
      PROVE  /\ Len(out[b]) + 1 \in 1 .. Len(out[From(e)])
             /\ Ahead(e) = out[From(e)][Len(out[b]) + 1]
  <2>1. e \in Inputs(b) /\ Fill(e) > 0 /\ Len(out[b]) = read[e]
    BY <1>1, <1>2, <1>5 DEF CanRead, FlowInv, OneForOne
  <2> QED
    BY <1>2, <1>5, <2>1 DEF Fill, Ahead
<1>6. CASE \E b \in DOMAIN G.sources : Receive(b)
  <2>1. PICK b \in DOMAIN G.sources : Receive(b)
    BY <1>6
  <2>2. Put(b, {Signal(PeerAt(G.sources[b]), Len(out[b]) + 1, NoLoss)})
    BY <2>1 DEF Receive
  <2>3. /\ b \in Givings /\ b \notin Passers /\ b \notin DOMAIN G.files
        /\ \A e \in G.edges : To(e) # b
    BY <1>3, <1>4 DEF Givings
  <2>4. Made(G, out, b, Len(out[b]) + 1, {Signal(PeerAt(G.sources[b]), Len(out[b]) + 1, NoLoss)})
    BY <2>3 DEF Made
  <2> QED
    BY <1>1, <2>2, <2>3, <2>4, PutKeepsContents
<1>7. CASE \E b \in DOMAIN G.files : ReadFile(b)
  <2>1. PICK b \in DOMAIN G.files : ReadFile(b)
    BY <1>7
  <2>2. Put(b, {Signal(G.files[b], Len(out[b]) + 1, NoLoss)})
    BY <2>1 DEF ReadFile
  <2>3. /\ b \in Givings /\ b \notin Passers /\ b \notin DOMAIN G.sources
        /\ \A e \in G.edges : To(e) # b
    BY <1>3, <1>4 DEF Givings
  <2>4. Made(G, out, b, Len(out[b]) + 1, {Signal(G.files[b], Len(out[b]) + 1, NoLoss)})
    BY <2>3 DEF Made
  <2> QED
    BY <1>1, <2>2, <2>3, <2>4, PutKeepsContents
<1>8. CASE \E b \in DOMAIN G.multipliers : Multiply(b)
  <2>1. PICK b \in DOMAIN G.multipliers : Multiply(b)
    BY <1>8
  <2>2. PICK e \in Inputs(b) : Put(b, {Signal(s.from, s.at, gain[b]) : s \in Ahead(e)})
    BY <2>1 DEF Multiply
  <2> DEFINE item == {Signal(s.from, s.at, gain[b]) : s \in Ahead(e)}
  <2>3. b \in Passers /\ b \notin Givings /\ b \notin G.heads /\ CanRead(b)
    BY <1>3, <1>4, <2>1 DEF Passers, Multiply
  <2>4. gain[b] = <<G.multipliers[b], gain[b][2]>>
    BY <1>1 DEF TypeOK, OwnLosses, Slides
  <2>5. ASSUME b \in Streams
        PROVE  /\ Made(G, out, b, Len(out[b]) + 1, item)
               /\ \A x \in G.edges :
                    To(x) = b /\ b \in Passers => Len(out[b]) + 1 \in 1 .. Len(out[From(x)])
    <3>1. e \in G.edges /\ To(e) = b
      BY <1>2, <2>5
    <3>2. \A x \in G.edges : To(x) = b => x = e
      BY <1>4, <3>1
    <3>3. Ahead(e) = out[From(e)][Len(out[b]) + 1]
      BY <1>5, <2>3, <2>5, <3>1
    <3>4. item = WithLoss(out[From(e)][Len(out[b]) + 1], G.multipliers[b], gain[b][2])
      BY <2>4, <3>3 DEF WithLoss
    <3>5. Made(G, out, b, Len(out[b]) + 1, item)
      <4> HIDE DEF item
      <4> QED
        BY <2>3, <2>4, <3>1, <3>2, <3>4 DEF Made, Givings
    <3> QED
      BY <1>5, <2>3, <2>5, <3>5
  <2> QED
    BY <1>1, <2>2, <2>5, PutKeepsContents
<1>9. CASE \E b \in G.adders : Add(b)
  <2>1. PICK b \in G.adders : Add(b)
    BY <1>9
  <2> DEFINE item == UNION {Ahead(e) : e \in Inputs(b)}
  <2>2. Put(b, item) /\ CanRead(b)
    BY <2>1 DEF Add
  <2>3. /\ b \in Passers /\ b \notin Givings
        /\ b \notin DOMAIN G.multipliers /\ b \notin G.heads
    BY <1>3 DEF Passers
  <2> HIDE DEF item
  <2>4. Made(G, out, b, Len(out[b]) + 1, item)
    BY <2>3 DEF Made, Givings
  <2> QED
    BY <1>1, <1>5, <2>2, <2>3, <2>4, PutKeepsContents
<1>10. CASE \E b \in G.heads : PassOn(b)
  <2>1. PICK b \in G.heads : PassOn(b)
    BY <1>10
  <2>2. PICK e \in Inputs(b) : Put(b, Ahead(e))
    BY <2>1 DEF PassOn
  <2>3. /\ b \in Passers /\ b \notin Givings /\ b \notin DOMAIN G.multipliers
        /\ CanRead(b)
    BY <1>3, <1>4, <2>1 DEF Passers, PassOn
  <2>4. ASSUME b \in Streams
        PROVE  /\ Made(G, out, b, Len(out[b]) + 1, Ahead(e))
               /\ \A x \in G.edges :
                    To(x) = b /\ b \in Passers => Len(out[b]) + 1 \in 1 .. Len(out[From(x)])
    <3>1. e \in G.edges /\ To(e) = b
      BY <1>2, <2>4
    <3>2. \A x \in G.edges : To(x) = b => x = e
      BY <1>4, <3>1
    <3>3. Ahead(e) = out[From(e)][Len(out[b]) + 1]
      BY <1>5, <2>3, <2>4, <3>1
    <3>4. Made(G, out, b, Len(out[b]) + 1, Ahead(e))
      BY <2>3, <3>2, <3>3 DEF Made, Givings
    <3> QED
      BY <1>5, <2>3, <2>4, <3>4
  <2> QED
    BY <1>1, <2>2, <2>4, PutKeepsContents
<1>11. CASE \/ \E b \in DOMAIN G.sources : SendRequest(b)
            \/ \E b \in DOMAIN G.sinks : Reply(b)
            \/ \E b \in (DOMAIN G.logs \cup DOMAIN G.displays) : Tap(b)
  BY <1>1, <1>11, ContentsStay DEF SendRequest, Reply, Tap, flowVars
<1> QED
  BY <1>6, <1>7, <1>8, <1>9, <1>10, <1>11 DEF BlocksNext

LEMMA NextKeepsContents ==
  ASSUME IInv, Slides, Contents, [Next]_vars
  PROVE  Contents'
<1>1. CASE BlocksNext
  BY <1>1, BlocksKeepContents
<1>2. CASE ~BlocksNext
  <2>1. UNCHANGED <<out, session>>
    BY <1>2 DEF Next, vars, MainNext, set_k, timeout, sig_handler, WaitReturns,
             PollsNext, PollEnds, UserNext, set_path_loss_db, closeEvent, Interrupt, PeersServe, Answer, Ask, Restart,
             scriptVars, flowVars
  <2> QED
    BY <2>1, ContentsStay
<1> QED
  BY <1>1, <1>2

-----------------------------------------------------------------------------
(* What arrives.                                                           *)

LEMMA TakenIs ==
  ASSUME IInv, NEW e \in G.edges, NEW item \in Taken(e)
  PROVE  From(e) \in Streams /\ \E k \in 1 .. Len(out[From(e)]) : item = out[From(e)][k]
<1>1. From(e) \in Streams /\ read[e] \in Nat /\ Len(out[From(e)]) \in Nat
  BY Ends, Lengths DEF IInv, FlowInv, FlowTypeOK
<1>2. read[e] <= Len(out[From(e)])
  BY DEF IInv, FlowInv, Buffers
<1>3. PICK k \in 1 .. read[e] : item = out[From(e)][k]
  BY DEF Taken
<1>4. k \in 1 .. Len(out[From(e)])
  BY <1>1, <1>2
<1> QED
  BY <1>1, <1>3, <1>4

\* The stream of a multiply_const at a req_source.
LEMMA Scaled ==
  ASSUME IInv, Contents, NEW b \in Streams, NEW p, NEW u, Scales(G, b, p, u),
         NEW k \in 1 .. Len(out[b])
  PROVE  Heard(out[b][k]) = {p} /\ \A s \in out[b][k] : s.loss[1] = u
<1>1. PICK c \in DOMAIN G.sources, x \in G.edges :
        PeerAt(G.sources[c]) = p /\ From(x) = c /\ To(x) = b
  BY DEF Scales, Feeds
<1>2. b \in DOMAIN G.multipliers /\ G.multipliers[b] = u /\ b \in Passers
  BY DEF Scales, Passers
<1>3. c \in Streams /\ k \in 1 .. Len(out[c])
  BY <1>1, <1>2, Behind DEF IInv
<1>4. out[c][k] = {Signal(p, k, NoLoss)}
  BY <1>1, <1>3 DEF Contents, Made
<1>5. PICK db :
        out[b][k] = WithLoss(out[c][k], u, db)
  BY <1>1, <1>2 DEF Contents, Made
<1>6. out[b][k] = {Signal(p, k, <<u, db>>)}
  BY <1>4, <1>5 DEF Signal, WithLoss
<1> QED
  BY <1>6 DEF Signal, Heard

\* The stream of a multiply_const or an adder.
LEMMA Carried ==
  ASSUME IInv, Contents, NEW b \in Streams, NEW us, Carries(G, b, us),
         NEW k \in 1 .. Len(out[b])
  PROVE  Heard(out[b][k]) = us /\ OwnLoss(out[b][k])
<1>1. CASE \E u \in us : us = {u} /\ Scales(G, b, u, u)
  <2>1. PICK u \in us : us = {u} /\ Scales(G, b, u, u)
    BY <1>1
  <2>2. Heard(out[b][k]) = {u} /\ \A s \in out[b][k] : s.loss[1] = u
    BY <2>1, Scaled
  <2>3. \A s \in out[b][k] : s.from = u
    BY <2>2 DEF Heard
  <2> QED
    BY <2>1, <2>2, <2>3 DEF OwnLoss
<1>2. CASE /\ b \in G.adders
           /\ \A e \in G.edges : To(e) = b => \E u \in us : Scales(G, From(e), u, u)
           /\ \A u \in us : \E c \in DOMAIN G.multipliers :
                Feeds(G, c, b) /\ Scales(G, c, u, u)
  <2> DEFINE Ins == {e \in G.edges : To(e) = b}
  <2>1. out[b][k] = UNION {out[From(e)][k] : e \in Ins}
    BY <1>2 DEF IInv, FlowInv, SumsAddUp
  <2>2. \A e \in Ins : From(e) \in Streams /\ k \in 1 .. Len(out[From(e)])
    BY <1>2, Behind DEF IInv, Passers
  <2>3. \A e \in Ins : \E u \in us : \A s \in out[From(e)][k] : s.from = u /\ s.loss[1] = u
    <3> SUFFICES ASSUME NEW e \in Ins
                 PROVE  \E u \in us : \A s \in out[From(e)][k] : s.from = u /\ s.loss[1] = u
      OBVIOUS
    <3>1. PICK u \in us : Scales(G, From(e), u, u)
      BY <1>2
    <3>2. /\ Heard(out[From(e)][k]) = {u}
          /\ \A s \in out[From(e)][k] : s.loss[1] = u
      BY <2>2, <3>1, Scaled
    <3>3. \A s \in out[From(e)][k] : s.from = u
      BY <3>2 DEF Heard
    <3> QED
      BY <3>2, <3>3
  <2>4. \A s \in out[b][k] : s.from \in us /\ s.loss[1] = s.from
    BY <2>1, <2>3
  <2>5. ASSUME NEW u \in us
        PROVE  \E s \in out[b][k] : s.from = u
    <3>1. PICK e \in Ins : Scales(G, From(e), u, u)
      BY <1>2 DEF Feeds
    <3>2. Heard(out[From(e)][k]) = {u}
      BY <2>2, <3>1, Scaled
    <3>3. PICK s \in out[From(e)][k] : s.from = u
      BY <3>2 DEF Heard
    <3> QED
      BY <2>1, <3>3
  <2>6. Heard(out[b][k]) = us
    BY <2>4, <2>5 DEF Heard
  <2> QED
    BY <2>4, <2>6 DEF OwnLoss
<1> QED
  BY <1>1, <1>2 DEF Carries

LEMMA RadioIsRight ==
  ASSUME IInv, Contents, WellWired(G)
  PROVE  RightRadio
<1>1. session \in Sessions /\ session.script \in DOMAIN Graphs
  BY GnuRadioAssumption DEF IInv, TypeOK
<1>2. GraphsRight[session.script]
  BY <1>1 DEF GraphsRight, G
<1>3. ASSUME NEW e \in G.edges, NEW item \in Taken(e), To(e) \in DOMAIN G.sinks,
             PeerAt(G.sinks[To(e)]) = Gnb
      PROVE  Heard(item) = UesOf(G) /\ OwnLoss(item)
  <2>1. Carries(G, From(e), UesOf(G))
    BY <1>3 DEF WellWired, UplinkWired
  <2> QED
    BY <1>3, <2>1, TakenIs, Carried
<1>4. ASSUME NEW e \in G.edges, NEW item \in Taken(e), To(e) \in DOMAIN G.sinks,
             PeerAt(G.sinks[To(e)]) # Gnb
      PROVE  /\ Heard(item) = {Gnb}
             /\ \A s \in item : s.loss[1] = PeerAt(G.sinks[To(e)])
  <2>1. /\ From(e) \in DOMAIN G.multipliers
        /\ \E b \in DOMAIN G.sources :
             PeerAt(G.sources[b]) = Gnb /\ Feeds(G, b, From(e))
    BY <1>4 DEF WellWired, DownlinkWired
  <2>2. G.multipliers[From(e)] = PeerAt(G.sinks[To(e)])
    BY <1>4, <2>1 DEF WellWired, SlidersWired
  <2>3. Scales(G, From(e), Gnb, PeerAt(G.sinks[To(e)]))
    BY <2>1, <2>2 DEF Scales
  <2>4. PICK k \in 1 .. Len(out[From(e)]) : item = out[From(e)][k]
    BY TakenIs
  <2>5. From(e) \in Streams
    BY TakenIs
  <2> QED
    BY <2>3, <2>4, <2>5, Scaled
<1> QED
  BY <1>2, <1>3, <1>4 DEF RightRadio

LEMMA NamesTrue ==
  ASSUME IInv, Contents, WellWired(G)
  PROVE  NamesAreTrue
<1> SUFFICES ASSUME NEW e \in G.edges, NEW item \in Taken(e),
                    To(e) \in DOMAIN G.logs \cup DOMAIN G.displays
             PROVE  IF DOMAIN G.files = {}
                    THEN Heard(item) = About(G, e) \cap UesOf(G) /\ OwnLoss(item)
                    ELSE \A s \in item : Named(s.from) = About(G, e)
  BY DEF NamesAreTrue
<1>1. PICK k \in 1 .. Len(out[From(e)]) : item = out[From(e)][k]
  BY TakenIs
<1>2. From(e) \in Streams
  BY TakenIs
<1>3. CASE DOMAIN G.files = {}
  <2>1. Carries(G, From(e), About(G, e) \cap UesOf(G))
    BY <1>3 DEF WellWired, NamesWired
  <2> QED
    BY <1>1, <1>2, <1>3, <2>1, Carried
<1>4. CASE DOMAIN G.files # {}
  <2>1. /\ From(e) \in G.heads
        /\ \E b \in DOMAIN G.files :
             Feeds(G, b, From(e)) /\ Named(G.files[b]) = About(G, e)
    BY <1>4 DEF WellWired, NamesWired
  <2>2. PICK b \in DOMAIN G.files, x \in G.edges :
          From(x) = b /\ To(x) = From(e) /\ Named(G.files[b]) = About(G, e)
    BY <2>1 DEF Feeds
  <2>3. b \in Streams /\ k \in 1 .. Len(out[b])
    BY <1>2, <2>1, <2>2, Behind DEF IInv, Passers
  <2>4. item = out[b][k]
    BY <1>1, <1>2, <2>1, <2>2 DEF Contents, Made
  <2>5. out[b][k] = {Signal(G.files[b], k, NoLoss)}
    BY <2>2, <2>3 DEF Contents, Made
  <2> QED
    BY <1>4, <2>2, <2>4, <2>5 DEF Signal
<1> QED
  BY <1>3, <1>4

LEMMA ContentsInvariant ==
  ASSUME \A s \in DOMAIN Graphs : WellWired(Graphs[s])
  PROVE  Spec => [](IInv /\ Contents /\ WellWired(G))
<1>1. ASSUME IInv
      PROVE  WellWired(G)
  BY <1>1, GnuRadioAssumption DEF IInv, TypeOK, G
<1>2. Init => Slides /\ Contents
  BY InitSlides, InitContents
<1>3. IInv /\ Slides /\ Contents /\ [Next]_vars => Slides' /\ Contents'
  BY <1>1, NextKeepsSlides, NextKeepsContents DEF IInv, WellWired
<1> QED
  BY <1>1, <1>2, <1>3, Invariant, PTL DEF Spec

\* Each UE is sent the gNB's signal with the path loss of its own, and the gNB
\* the signals of all the UEs, each with its own path loss.
THEOREM RadioRight ==
  ASSUME \A s \in DOMAIN Graphs : WellWired(Graphs[s])
  PROVE  Spec => []RightRadio
BY ContentsInvariant, RadioIsRight, PTL

\* The logs and the plots hold what their names say.
THEOREM NamesRight ==
  ASSUME \A s \in DOMAIN Graphs : WellWired(Graphs[s])
  PROVE  Spec => []NamesAreTrue
BY ContentsInvariant, NamesTrue, PTL
-----------------------------------------------------------------------------
(* The relay of streams.                                                   *)

LEMMA PeersOf ==
  ASSUME session \in Sessions
  PROVE  /\ ScriptPeers = {PeerAt(G.sources[b]) : b \in DOMAIN G.sources}
         /\ UesOf(G) = ScriptPeers \ {Gnb}
         /\ ScriptPeers \subseteq Peers
<1>1. session.script \in DOMAIN Graphs
  BY GnuRadioAssumption
<1>2. ScriptPeers = {PeerAt(G.sources[b]) : b \in DOMAIN G.sources}
  BY <1>1 DEF ScriptPeers, SourcesOf, AtPeers, G
<1>3. \A b \in DOMAIN G.sources : PeerAt(G.sources[b]) \in Peers
  BY <1>1, GraphsAssumption DEF G
<1> QED
  BY <1>2, <1>3 DEF UesOf

\* The two sockets of a peer, and what they are connected to.
LEMMA OneSocket ==
  ASSUME session \in Sessions, WellWired(G), NEW p \in ScriptPeers
  PROVE  /\ SourceOf(p) \in DOMAIN G.sources /\ PeerAt(G.sources[SourceOf(p)]) = p
         /\ \A b \in DOMAIN G.sources : PeerAt(G.sources[b]) = p => b = SourceOf(p)
         /\ SinkOf(p) \in DOMAIN G.sinks /\ PeerAt(G.sinks[SinkOf(p)]) = p
         /\ \A c \in DOMAIN G.sinks : PeerAt(G.sinks[c]) = p => c = SinkOf(p)
         /\ SourceOf(p) \in Streams
         /\ ToSink(p) \in G.edges /\ To(ToSink(p)) = SinkOf(p)
         /\ \A e \in G.edges : To(e) = SinkOf(p) => e = ToSink(p)
         /\ From(ToSink(p)) \in Streams
<1>1. /\ SourceOf(p) \in DOMAIN G.sources /\ PeerAt(G.sources[SourceOf(p)]) = p
      /\ SinkOf(p) \in DOMAIN G.sinks /\ PeerAt(G.sinks[SinkOf(p)]) = p
  BY Sockets DEF WellWired
<1>2. \A b \in DOMAIN G.sources : PeerAt(G.sources[b]) = p => b = SourceOf(p)
  BY <1>1 DEF WellWired, DownlinkWired
<1>3. \A c \in DOMAIN G.sinks : PeerAt(G.sinks[c]) = p => c = SinkOf(p)
  BY <1>1 DEF WellWired, SocketsWired
<1>4. SourceOf(p) \in Streams
  <2>1. PICK e \in G.edges : From(e) = SourceOf(p)
    BY <1>1 DEF WellWired, SocketsWired
  <2> QED
    BY <2>1, Ends
<1>5. \E e \in G.edges : To(e) = SinkOf(p)
  BY <1>1 DEF WellWired, SocketsWired
<1>6. ToSink(p) \in G.edges /\ To(ToSink(p)) = SinkOf(p)
  BY <1>5 DEF ToSink
<1>7. \A e \in G.edges : To(e) = SinkOf(p) => e = ToSink(p)
  <2>1. session.script \in DOMAIN Graphs
    BY GnuRadioAssumption
  <2>2. \A e, f \in G.edges : To(e) = To(f) /\ To(e) \in DOMAIN G.sinks => e = f
    BY <2>1, GraphsAssumption DEF G
  <2> QED
    BY <1>1, <1>6, <2>2
<1>8. From(ToSink(p)) \in Streams
  BY <1>6, Ends
<1> QED
  BY <1>1, <1>2, <1>3, <1>4, <1>6, <1>7, <1>8

\* A multiply_const between a req_source and a connection.
LEMMA ThroughMultiplier ==
  ASSUME IInv, WellWired(G), NEW e \in G.edges, NEW p \in ScriptPeers,
         From(e) \in DOMAIN G.multipliers, Feeds(G, SourceOf(p), From(e))
  PROVE  /\ Len(out[From(e)]) <= Len(out[SourceOf(p)])
         /\ Room(SourceOf(p)) => Len(out[SourceOf(p)]) < Len(out[From(e)]) + BufferItems
<1>1. session \in Sessions /\ FlowInv /\ FlowTypeOK
  BY DEF IInv, FlowInv, FlowTypeOK
<1>2. PICK x \in G.edges : From(x) = SourceOf(p) /\ To(x) = From(e)
  BY DEF Feeds
<1>3. SourceOf(p) \in Streams /\ From(e) \in Streams /\ From(e) \in Passers
  BY <1>1, OneSocket, Ends DEF Passers
<1>4. Len(out[From(e)]) = read[x] /\ read[x] <= Len(out[SourceOf(p)])
  BY <1>1, <1>2, <1>3 DEF FlowInv, OneForOne, Buffers
<1>5. Len(out[From(e)]) \in Nat /\ Len(out[SourceOf(p)]) \in Nat /\ BufferItems \in Nat
  BY <1>1, <1>3, Lengths, Kinds
<1>6. Room(SourceOf(p)) => Len(out[SourceOf(p)]) - read[x] < BufferItems
  <2>1. x \in Readers(SourceOf(p))
    BY <1>1, <1>2, <1>3, Ends
  <2> QED
    BY <1>2, <2>1 DEF Room, Fill
<1> QED
  BY <1>4, <1>5, <1>6

\* What a peer is given comes after what is taken from those it listens to,
\* and not further after it than the buffers between them are large.
LEMMA Between ==
  ASSUME IInv, WellWired(G), NEW p \in ScriptPeers, NEW q \in ScriptPeers,
         (p = Gnb) # (q = Gnb)
  PROVE  /\ Len(out[From(ToSink(q))]) <= Len(out[SourceOf(p)])
         /\ Room(SourceOf(p)) =>
              Len(out[SourceOf(p)]) <
                read[ToSink(q)] + (IF q = Gnb THEN 3 * BufferItems ELSE 2 * BufferItems)
<1> DEFINE e == ToSink(q)
           c == SourceOf(p)
           m == From(e)
<1>1. session \in Sessions /\ FlowInv /\ FlowTypeOK
  BY DEF IInv, FlowInv, FlowTypeOK
<1>2. /\ e \in G.edges /\ To(e) \in DOMAIN G.sinks /\ PeerAt(G.sinks[To(e)]) = q
      /\ c \in Streams /\ m \in Streams
  BY <1>1, OneSocket
<1>3. Len(out[c]) \in Nat /\ Len(out[m]) \in Nat /\ read[e] \in Nat /\ BufferItems \in Nat \ {0}
  BY <1>1, <1>2, Lengths, Kinds
<1>4. Len(out[m]) <= read[e] + BufferItems
  BY <1>1, <1>2 DEF FlowInv, Buffers
<1>5. CASE q # Gnb
  <2>1. /\ m \in DOMAIN G.multipliers
        /\ \E b \in DOMAIN G.sources : PeerAt(G.sources[b]) = Gnb /\ Feeds(G, b, m)
    BY <1>2, <1>5 DEF WellWired, DownlinkWired
  <2>2. Feeds(G, c, m)
    BY <1>1, <1>5, <2>1, OneSocket
  <2>3. /\ Len(out[m]) <= Len(out[c])
        /\ Room(c) => Len(out[c]) < Len(out[m]) + BufferItems
    BY <1>2, <2>1, <2>2, ThroughMultiplier
  <2> HIDE DEF e, c, m
  <2>4. Room(c) => Len(out[c]) < read[e] + 2 * BufferItems
    BY <1>3, <1>4, <2>3
  <2> QED
    BY <1>5, <2>3, <2>4 DEF e, c, m
<1>6. CASE q = Gnb
  <2>1. Carries(G, m, UesOf(G)) /\ p \in UesOf(G)
    BY <1>1, <1>2, <1>6, PeersOf DEF WellWired, UplinkWired
  <2>2. CASE \E u \in UesOf(G) : UesOf(G) = {u} /\ Scales(G, m, u, u)
    <3>1. Scales(G, m, p, p)
      BY <2>1, <2>2
    <3>2. m \in DOMAIN G.multipliers /\ Feeds(G, c, m)
      BY <1>1, <3>1, OneSocket DEF Scales
    <3>3. /\ Len(out[m]) <= Len(out[c])
          /\ Room(c) => Len(out[c]) < Len(out[m]) + BufferItems
      BY <1>2, <3>2, ThroughMultiplier
    <3> HIDE DEF e, c, m
    <3>4. Room(c) => Len(out[c]) < read[e] + 3 * BufferItems
      BY <1>3, <1>4, <3>3
    <3> QED
      BY <1>6, <3>3, <3>4 DEF e, c, m
  <2>3. CASE /\ m \in G.adders
             /\ \A u \in UesOf(G) : \E d \in DOMAIN G.multipliers :
                  Feeds(G, d, m) /\ Scales(G, d, u, u)
    <3>1. PICK d \in DOMAIN G.multipliers : Feeds(G, d, m) /\ Scales(G, d, p, p)
      BY <2>1, <2>3
    <3>2. PICK y \in G.edges : From(y) = d /\ To(y) = m
      BY <3>1 DEF Feeds
    <3>3. Feeds(G, c, d)
      BY <1>1, <3>1, OneSocket DEF Scales
    <3>4. /\ Len(out[d]) <= Len(out[c])
          /\ Room(c) => Len(out[c]) < Len(out[d]) + BufferItems
      BY <3>2, <3>3, ThroughMultiplier
    <3>5. /\ Len(out[m]) = read[y]
          /\ read[y] <= Len(out[d]) /\ Len(out[d]) <= read[y] + BufferItems
      BY <1>1, <1>2, <2>3, <3>2 DEF FlowInv, OneForOne, Buffers, Passers
    <3>6. Len(out[d]) \in Nat
      BY <1>1, <3>2, Lengths
    <3> HIDE DEF e, c, m
    <3>7. /\ Len(out[m]) <= Len(out[d])
          /\ Len(out[d]) <= read[e] + 2 * BufferItems
      BY <1>3, <1>4, <3>5, <3>6
    <3>8. /\ Len(out[m]) <= Len(out[c])
          /\ Room(c) => Len(out[c]) < read[e] + 3 * BufferItems
      BY <1>3, <3>4, <3>6, <3>7
    <3> QED
      BY <1>6, <3>8 DEF e, c, m
  <2> QED
    BY <2>1, <2>2, <2>3 DEF Carries
<1> QED
  BY <1>5, <1>6

\* The signals a peer is given.
LEMMA SignedRight ==
  ASSUME IInv, Contents, WellWired(G), NEW q \in ScriptPeers,
         NEW k \in 1 .. Len(out[From(ToSink(q))])
  PROVE  Signed(out[From(ToSink(q))][k]) =
           {[from |-> p, at |-> k, loss |-> Relay!LossBetween(p, q)] : p \in Relay!Partners(q)}
<1> DEFINE e == ToSink(q)
           m == From(e)
           item == out[m][k]
<1>1. session \in Sessions /\ FlowInv /\ FlowTypeOK
  BY DEF IInv, FlowInv, FlowTypeOK
<1>2. /\ e \in G.edges /\ To(e) \in DOMAIN G.sinks /\ PeerAt(G.sinks[To(e)]) = q
      /\ m \in Streams
  BY <1>1, OneSocket
<1>3. \A s \in item : s.at = k
  BY <1>1, <1>2 DEF FlowInv, InPosition, FlowTypeOK
<1>4. CASE q = Gnb
  <2>1. Carries(G, m, UesOf(G))
    BY <1>2, <1>4 DEF WellWired, UplinkWired
  <2>2. Heard(item) = UesOf(G) /\ OwnLoss(item)
    BY <1>2, <2>1, Carried
  <2>3. Relay!Partners(q) = UesOf(G)
    BY <1>1, <1>4, PeersOf DEF Relay!Partners, Relay!Gnb, Gnb
  <2>4. \A p : Relay!LossBetween(p, q) = p
    BY <1>4 DEF Relay!LossBetween, Relay!Gnb, Gnb
  <2> HIDE DEF item
  <2>5. Signed(item) = {[from |-> p, at |-> k, loss |-> p] : p \in UesOf(G)}
    BY <1>3, <2>2 DEF Signed, Heard, OwnLoss
  <2> QED
    BY <2>3, <2>4, <2>5 DEF item
<1>5. CASE q # Gnb
  <2>1. /\ m \in DOMAIN G.multipliers
        /\ \E b \in DOMAIN G.sources : PeerAt(G.sources[b]) = Gnb /\ Feeds(G, b, m)
    BY <1>2, <1>5 DEF WellWired, DownlinkWired
  <2>2. Scales(G, m, Gnb, q)
    BY <1>2, <1>5, <2>1 DEF WellWired, SlidersWired, Scales
  <2>3. Heard(item) = {Gnb} /\ \A s \in item : s.loss[1] = q
    BY <1>2, <2>2, Scaled
  <2>4. Gnb \in ScriptPeers
    BY <1>1, <2>1, PeersOf
  <2>5. Relay!Partners(q) = {Gnb}
    BY <1>5, <2>4 DEF Relay!Partners, Relay!Gnb, Gnb
  <2>6. \A p : Relay!LossBetween(p, q) = q
    BY <1>5 DEF Relay!LossBetween, Relay!Gnb, Gnb
  <2> HIDE DEF item
  <2>7. Signed(item) = {[from |-> p, at |-> k, loss |-> q] : p \in {Gnb}}
    BY <1>3, <2>3 DEF Signed, Heard
  <2> QED
    BY <2>5, <2>6, <2>7 DEF item
<1> QED
  BY <1>4, <1>5

\* The streams grow and the sinks take nothing.
LEMMA NoRelayStep ==
  ASSUME IInv, WellWired(G), session' = session,
         \A p \in ScriptPeers : Len(out'[SourceOf(p)]) = Len(out[SourceOf(p)]),
         \A p \in ScriptPeers : read'[ToSink(p)] = read[ToSink(p)],
         \A c \in Streams : \A k \in 1 .. Len(out[c]) : out'[c][k] = out[c][k]
  PROVE  UNCHANGED <<ScriptPeers, Pulled, Served, LastServed>>
<1>1. session \in Sessions /\ FlowInv /\ FlowTypeOK
  BY DEF IInv, FlowInv, FlowTypeOK
<1>2. UNCHANGED <<G, ScriptPeers>> /\ \A p : UNCHANGED <<SourceOf(p), SinkOf(p)>>
  BY DEF G, ScriptPeers, SourceOf, SinkOf
<1>3. \A p : UNCHANGED ToSink(p)
  BY <1>2 DEF ToSink
<1>4. Pulled' = Pulled /\ Served' = Served
  BY <1>2, <1>3 DEF Pulled, Served
<1>5. ASSUME NEW p \in Peers, Served[p] # 0
      PROVE  out'[From(ToSink(p))][Served[p]] = out[From(ToSink(p))][Served[p]]
  <2>1. p \in ScriptPeers /\ Served[p] = read[ToSink(p)]
    BY <1>5 DEF Served
  <2>2. ToSink(p) \in G.edges /\ From(ToSink(p)) \in Streams
    BY <1>1, <2>1, OneSocket
  <2>3. /\ read[ToSink(p)] \in Nat /\ Len(out[From(ToSink(p))]) \in Nat
        /\ read[ToSink(p)] <= Len(out[From(ToSink(p))])
    BY <1>1, <2>2, Lengths DEF FlowInv, Buffers
  <2>4. Served[p] \in 1 .. Len(out[From(ToSink(p))])
    BY <1>5, <2>1, <2>3
  <2> QED
    BY <2>2, <2>4
<1>6. LastServed' = LastServed
  BY <1>3, <1>4, <1>5 DEF LastServed
<1> QED
  BY <1>2, <1>4, <1>6

\* A req_source that receives takes a message from its peer.
LEMMA ReceiveTakes ==
  ASSUME IInv, WellWired(G), session' = session, NEW b \in DOMAIN G.sources, Receive(b)
  PROVE  ScriptPeers' = ScriptPeers /\ \E p \in ScriptPeers : Relay!TakeFrom(p)
<1> DEFINE p == PeerAt(G.sources[b])
           item == {Signal(p, Len(out[b]) + 1, NoLoss)}
<1>1. session \in Sessions /\ FlowInv /\ FlowTypeOK
  BY DEF IInv, FlowInv, FlowTypeOK
<1>2. p \in ScriptPeers /\ p \in Peers
  BY <1>1, PeersOf
<1>3. b = SourceOf(p) /\ b \in Streams
  BY <1>1, <1>2, OneSocket
<1>4. Put(b, item) /\ Room(b) /\ read' = read
  BY DEF Receive
<1>5. Grown(b, item)
  BY <1>1, <1>4, PutAppends
<1>6. UNCHANGED <<G, ScriptPeers>> /\ \A q : UNCHANGED <<SourceOf(q), SinkOf(q)>>
  BY DEF G, ScriptPeers, SourceOf, SinkOf
<1>7. \A q : UNCHANGED ToSink(q)
  BY <1>6 DEF ToSink
<1>8. Pulled' = [Pulled EXCEPT ![p] = @ + 1]
  <2>1. \A q \in ScriptPeers : q # p => SourceOf(q) \in Streams /\ SourceOf(q) # b
    BY <1>1, OneSocket
  <2>2. \A q \in ScriptPeers :
          Len(out'[SourceOf(q)]) = IF q = p THEN Len(out[SourceOf(q)]) + 1 ELSE Len(out[SourceOf(q)])
    BY <1>3, <1>5, <2>1 DEF Grown
  <2> HIDE DEF p
  <2> QED
    BY <1>2, <1>6, <2>2 DEF Pulled
<1>9. Served' = Served
  BY <1>4, <1>6, <1>7 DEF Served
<1>10. LastServed' = LastServed
  <2> SUFFICES ASSUME NEW q \in Peers, Served[q] # 0
               PROVE  out'[From(ToSink(q))][Served[q]] = out[From(ToSink(q))][Served[q]]
    BY <1>7, <1>9 DEF LastServed
  <2>1. q \in ScriptPeers /\ Served[q] = read[ToSink(q)]
    BY DEF Served
  <2>2. ToSink(q) \in G.edges /\ From(ToSink(q)) \in Streams
    BY <1>1, <2>1, OneSocket
  <2>3. /\ read[ToSink(q)] \in Nat /\ Len(out[From(ToSink(q))]) \in Nat
        /\ read[ToSink(q)] <= Len(out[From(ToSink(q))])
    BY <1>1, <2>2, Lengths DEF FlowInv, Buffers
  <2>4. Served[q] \in 1 .. Len(out[From(ToSink(q))])
    BY <2>1, <2>3
  <2> QED
    BY <1>5, <2>2, <2>4 DEF Grown
<1>11. ASSUME NEW q \in Relay!Partners(p)
       PROVE  Pulled[p] < Served[q] + Relay!Window(q)
  <2>1. q \in ScriptPeers /\ (p = Gnb) # (q = Gnb) /\ q \in Peers
    BY <1>1, PeersOf DEF Relay!Partners, Relay!Gnb, Gnb
  <2>2. Len(out[SourceOf(p)]) <
          read[ToSink(q)] + (IF q = Gnb THEN 3 * BufferItems ELSE 2 * BufferItems)
    <3> HIDE DEF p
    <3> QED
      BY <1>2, <1>3, <1>4, <2>1, Between
  <2>3. Relay!Window(q) = IF q = Gnb THEN 3 * BufferItems ELSE 2 * BufferItems
    BY DEF Relay!Window, Relay!Gnb, Gnb
  <2> HIDE DEF p
  <2> QED
    BY <1>2, <2>1, <2>2, <2>3 DEF Pulled, Served
<1> HIDE DEF p
<1>12. Relay!TakeFrom(p)
  BY <1>6, <1>8, <1>9, <1>10, <1>11 DEF Relay!TakeFrom
<1> QED
  BY <1>2, <1>6, <1>12

\* A rep_sink that replies gives its peer a message.
LEMMA ReplyGives ==
  ASSUME IInv, Contents, WellWired(G), session' = session, NEW b \in DOMAIN G.sinks, Reply(b)
  PROVE  ScriptPeers' = ScriptPeers /\ \E p \in ScriptPeers : Relay!GiveTo(p)
<1> DEFINE p == PeerAt(G.sinks[b])
           e == ToSink(p)
           n == read[e] + 1
<1>1. session \in Sessions /\ FlowInv /\ FlowTypeOK
  BY DEF IInv, FlowInv, FlowTypeOK
<1>2. p \in ScriptPeers /\ p \in Peers
  BY <1>1, PeersOf DEF WellWired, SocketsWired
<1>3. /\ b = SinkOf(p) /\ e \in G.edges /\ To(e) = b
      /\ \A f \in G.edges : To(f) = b => f = e
      /\ From(e) \in Streams
  BY <1>1, <1>2, OneSocket
<1>4. CanRead(b) /\ Take(b) /\ out' = out
  BY DEF Reply
<1>5. /\ read[e] \in Nat /\ Len(out[From(e)]) \in Nat
      /\ n \in 1 .. Len(out[From(e)])
  <2>1. e \in Inputs(b)
    BY <1>1, <1>3, Ends
  <2>2. Fill(e) > 0
    BY <1>4, <2>1 DEF CanRead
  <2>3. read[e] \in Nat /\ Len(out[From(e)]) \in Nat
    BY <1>1, <1>3, Lengths
  <2> QED
    BY <2>2, <2>3 DEF Fill
<1>6. UNCHANGED <<G, ScriptPeers>> /\ \A q : UNCHANGED <<SourceOf(q), SinkOf(q)>>
  BY DEF G, ScriptPeers, SourceOf, SinkOf
<1>7. \A q : UNCHANGED ToSink(q)
  BY <1>6 DEF ToSink
<1>8. \A q \in ScriptPeers :
        read'[ToSink(q)] = IF q = p THEN read[ToSink(q)] + 1 ELSE read[ToSink(q)]
  <2>1. \A f \in G.edges : read'[f] = IF To(f) = b THEN read[f] + 1 ELSE read[f]
    BY <1>1, <1>4, TakeTypes
  <2>2. \A q \in ScriptPeers : /\ ToSink(q) \in G.edges /\ To(ToSink(q)) = SinkOf(q)
                               /\ PeerAt(G.sinks[SinkOf(q)]) = q
    BY <1>1, OneSocket
  <2> QED
    BY <1>3, <2>1, <2>2
<1> HIDE DEF p
<1>9. Served' = [Served EXCEPT ![p] = @ + 1] /\ Served[p] = read[e]
  BY <1>2, <1>6, <1>7, <1>8 DEF Served
<1>10. Pulled' = Pulled
  BY <1>4, <1>6 DEF Pulled
<1>11. Served'[p] = n
  BY <1>2, <1>9 DEF Served
<1>12. Signed(out[From(e)][n]) =
         {[from |-> q, at |-> n, loss |-> Relay!LossBetween(q, p)] : q \in Relay!Partners(p)}
  BY <1>2, <1>5, SignedRight
<1>13. LastServed' = [LastServed EXCEPT ![p] =
         {[from |-> q, at |-> Served'[p], loss |-> Relay!LossBetween(q, p)] : q \in Relay!Partners(p)}]
  <2>1. n # 0
    BY <1>5
  <2>2. LastServed' = [q \in Peers |-> IF Served'[q] = 0 THEN {} ELSE Signed(out[From(ToSink(q))][Served'[q]])]
    BY <1>4, <1>7 DEF LastServed, Signed
  <2>3. LastServed'[p] = Signed(out[From(e)][n])
    BY <1>2, <1>11, <2>1, <2>2
  <2>4. \A q \in Peers : q # p => LastServed'[q] = LastServed[q]
    BY <1>9, <2>2 DEF LastServed, Served
  <2>5. LastServed = [q \in Peers |-> LastServed[q]]
    BY DEF LastServed
  <2>6. LastServed' = [q \in Peers |-> LastServed'[q]]
    BY <2>2
  <2>7. LastServed' = [LastServed EXCEPT ![p] = Signed(out[From(e)][n])]
    BY <1>2, <2>3, <2>4, <2>5, <2>6
  <2> QED
    BY <1>11, <1>12, <2>7
<1>14. ASSUME NEW q \in Relay!Partners(p)
       PROVE  Served[p] < Pulled[q]
  <2>1. q \in ScriptPeers /\ (q = Gnb) # (p = Gnb) /\ q \in Peers
    BY <1>1, PeersOf DEF Relay!Partners, Relay!Gnb, Gnb
  <2>2. Len(out[From(e)]) <= Len(out[SourceOf(q)])
    BY <1>2, <2>1, Between
  <2>3. Len(out[SourceOf(q)]) \in Nat
    BY <1>1, <2>1, OneSocket, Lengths
  <2> QED
    BY <1>5, <1>9, <2>1, <2>2, <2>3 DEF Pulled
<1>15. Relay!GiveTo(p)
  BY <1>6, <1>9, <1>10, <1>13, <1>14 DEF Relay!GiveTo
<1> QED
  BY <1>2, <1>6, <1>15

\* What happens inside the script is no step of the relay.
LEMMA InnerStep ==
  ASSUME IInv, WellWired(G), session' = session, NEW b, b \notin DOMAIN G.sources,
         b \notin DOMAIN G.sinks,
         Take(b) \/ read' = read,
         out' = out \/ \E item : Put(b, item)
  PROVE  UNCHANGED <<ScriptPeers, Pulled, Served, LastServed>>
<1>1. session \in Sessions /\ FlowInv /\ FlowTypeOK
  BY DEF IInv, FlowInv, FlowTypeOK
<1>2. /\ \A c \in Streams : c # b => out'[c] = out[c]
      /\ \A c \in Streams : \A k \in 1 .. Len(out[c]) : out'[c][k] = out[c][k]
  BY <1>1, PutAppends DEF Grown
<1>3. ASSUME NEW p \in ScriptPeers
      PROVE  Len(out'[SourceOf(p)]) = Len(out[SourceOf(p)]) /\ read'[ToSink(p)] = read[ToSink(p)]
  <2>1. /\ SourceOf(p) # b /\ SourceOf(p) \in Streams
        /\ ToSink(p) \in G.edges /\ To(ToSink(p)) # b
    BY <1>1, OneSocket
  <2>2. read'[ToSink(p)] = read[ToSink(p)]
    BY <1>1, <2>1, TakeTypes
  <2> QED
    BY <1>2, <2>1, <2>2
<1> QED
  BY <1>2, <1>3, NoRelayStep

LEMMA RelayInit ==
  ASSUME Init, WellWired(G)
  PROVE  Relay!Init
<1>1. session \in Sessions /\ IInv
  BY InitGives DEF Init
<1>2. \A p \in ScriptPeers : SourceOf(p) \in Streams /\ ToSink(p) \in G.edges
  BY <1>1, OneSocket
<1>3. /\ \A p \in ScriptPeers : Len(out[SourceOf(p)]) = 0
      /\ \A p \in ScriptPeers : read[ToSink(p)] = 0
  BY <1>2 DEF Init, Streams
<1>4. Relay!Peers = Peers
  BY DEF Relay!Peers, Peers
<1> QED
  BY <1>1, <1>3, <1>4, PeersOf DEF Relay!Init, Pulled, Served, LastServed

LEMMA RelayNext ==
  ASSUME IInv, Contents, WellWired(G), [Next]_vars
  PROVE  [Relay!Next]_<<ScriptPeers, Pulled, Served, LastServed>>
<1>1. session \in Sessions /\ TypeOK
  BY DEF IInv, TypeOK
<1>2. session' = session
  BY DEF Next, vars, BlocksNext, MainNext, set_k, timeout, sig_handler, WaitReturns,
         PollsNext, PollEnds, UserNext, set_path_loss_db, closeEvent, Interrupt, PeersServe, Answer, Ask, Restart, scriptVars
<1>3. /\ DOMAIN G.files \cap (DOMAIN G.sources \cup DOMAIN G.sinks) = {}
      /\ Passers \cap (DOMAIN G.sources \cup DOMAIN G.sinks) = {}
      /\ (DOMAIN G.logs \cup DOMAIN G.displays) \cap (DOMAIN G.sources \cup DOMAIN G.sinks) = {}
  <2>1. session.script \in DOMAIN Graphs
    BY <1>1, GnuRadioAssumption
  <2>2. /\ DOMAIN G.sinks \cap (DOMAIN G.logs \cup DOMAIN G.displays) = {}
        /\ DOMAIN G.files = {} \/ DOMAIN G.sources = {}
    BY <2>1, GraphsAssumption DEF G
  <2> QED
    BY <1>1, <2>2, Kinds DEF Givings, Passers, Takers
<1>4. CASE UNCHANGED <<out, read>>
  <2>1. \A c \in Streams : \A k \in 1 .. Len(out[c]) : out'[c][k] = out[c][k]
    BY <1>4
  <2> QED
    BY <1>2, <1>4, <2>1, NoRelayStep
<1>5. CASE \E b \in DOMAIN G.sources : Receive(b)
  BY <1>2, <1>5, ReceiveTakes DEF Relay!Next
<1>6. CASE \E b \in DOMAIN G.sinks : Reply(b)
  BY <1>2, <1>6, ReplyGives DEF Relay!Next
<1>7. CASE \/ \E b \in DOMAIN G.multipliers : Multiply(b)
           \/ \E b \in G.adders : Add(b)
           \/ \E b \in G.heads : PassOn(b)
  <2>1. PICK b \in Passers : Multiply(b) \/ Add(b) \/ PassOn(b)
    BY <1>7 DEF Passers
  <2>2. Take(b) /\ \E item : Put(b, item)
    BY <2>1 DEF Multiply, Add, PassOn
  <2> QED
    BY <1>2, <1>3, <2>2, InnerStep
<1>8. CASE \/ \E b \in DOMAIN G.files : ReadFile(b)
           \/ \E b \in (DOMAIN G.logs \cup DOMAIN G.displays) : Tap(b)
  <2>1. PICK b \in DOMAIN G.files \cup DOMAIN G.logs \cup DOMAIN G.displays : ReadFile(b) \/ Tap(b)
    BY <1>8
  <2>2. Take(b) \/ read' = read
    BY <2>1 DEF ReadFile, Tap
  <2>3. out' = out \/ \E item : Put(b, item)
    BY <2>1 DEF ReadFile, Tap
  <2> QED
    BY <1>2, <1>3, <2>2, <2>3, InnerStep
<1>9. CASE ~BlocksNext
  <2>1. UNCHANGED <<out, read>>
    BY <1>9 DEF Next, vars, MainNext, set_k, timeout, sig_handler, WaitReturns,
             PollsNext, PollEnds, UserNext, set_path_loss_db, closeEvent, Interrupt, PeersServe, Answer, Ask, Restart,
             scriptVars, flowVars
  <2> QED
    BY <1>4, <2>1
<1>10. CASE \E b \in DOMAIN G.sources : SendRequest(b)
  BY <1>4, <1>10 DEF SendRequest, flowVars
<1> QED
  BY <1>5, <1>6, <1>7, <1>8, <1>9, <1>10 DEF BlocksNext

\* A well-wired script implements StreamRelay: the k-th message each peer is
\* given is the sum of the k-th messages of those it listens to, through the
\* path loss of the right UE, whatever the threads, the sliders and the peers do.
THEOREM ImplementsRelay ==
  ASSUME \A s \in DOMAIN Graphs : WellWired(Graphs[s])
  PROVE  Spec => RelaySpec
<1>1. Init => Relay!Init
  <2>1. Init => WellWired(G)
    BY GnuRadioAssumption DEF Init, G
  <2> QED
    BY <2>1, RelayInit
<1>2. /\ IInv /\ Contents /\ WellWired(G) /\ [Next]_vars
      => [Relay!Next]_<<ScriptPeers, Pulled, Served, LastServed>>
  BY RelayNext
<1>3. Spec => [](IInv /\ Contents /\ WellWired(G))
  BY ContentsInvariant
<1> QED
  BY <1>1, <1>2, <1>3, PTL DEF Spec, RelaySpec, Relay!Spec, Relay!relayVars
-----------------------------------------------------------------------------
(* Nobody is stuck.                                                        *)

\* The connections lead one way, those of the downlink are apart from those of
\* the uplink, and nothing between their ends is left unconnected.
OneWay(g) ==
  LET blocks == {From(e) : e \in g.edges} \cup {To(e) : e \in g.edges} IN
  /\ \E rank \in [blocks -> Nat] : \A e \in g.edges : rank[From(e)] < rank[To(e)]
  /\ \E dl \in SUBSET blocks :
       /\ \A e \in g.edges : From(e) \in dl <=> To(e) \in dl
       /\ \A b \in DOMAIN g.sources : b \in dl <=> PeerAt(g.sources[b]) = Gnb
       /\ \A b \in DOMAIN g.sinks : b \in dl <=> PeerAt(g.sinks[b]) # Gnb
  /\ \A b \in DOMAIN g.multipliers \cup g.adders \cup g.heads :
       \E e, f \in g.edges : To(e) = b /\ From(f) = b
  /\ \A b \in DOMAIN g.displays : \A i \in 0 .. g.displays[b].inputs - 1 :
       \E e \in g.edges : To(e) = b /\ Input(e) = i
  /\ DOMAIN g.files = {} => g.heads = {}

\* What the sockets, the requests and the lengths of the streams have to do
\* with each other.
Asking ==
  /\ \A p \in Peers : ~busy[p]
  /\ \A p \in Peers : asked[p] = "queued" => Wanted(p) > 0
  /\ \A b \in DOMAIN G.sources :
       LET p == PeerAt(G.sources[b]) IN
         b \in Streams =>
           /\ Len(out[b]) <= Sent(p)
           /\ pull[p] \in {"sent", "answered"} => Len(out[b]) < Sent(p)
  /\ \A b \in G.heads : b \in Streams => Len(out[b]) <= HeadLength

LEMMA InitAsking == Init => Asking
<1> SUFFICES ASSUME Init PROVE Asking
  OBVIOUS
<1>1. session \in Sessions /\ session.dl \in Nat /\ session.ul \in Nat
  BY GnuRadioAssumption DEF Init
<1>2. \A b \in Streams : out[b] = <<>>
  BY DEF Init, Streams
<1>3. \A b \in Streams : Len(out[b]) = 0
  BY <1>2
<1>4. /\ \A p \in Peers : ~busy[p] /\ asked[p] = "no" /\ pull[p] = "idle"
      /\ \A b \in DOMAIN G.sources : PeerAt(G.sources[b]) \in Peers
  BY <1>1, GnuRadioAssumption, GraphsAssumption DEF Init, LinksInit, G
<1>5. HeadLength \in Nat
  BY GnuRadioAssumption DEF HeadLength
<1> QED
  BY <1>1, <1>3, <1>4, <1>5 DEF Asking, Sent

\* A step that leaves the requests of the sources alone, and puts out no more
\* than it may.
LEMMA AskingStays ==
  ASSUME Asking, session' = session,
         \A p \in Peers : busy'[p] = busy[p],
         \A p \in Peers : asked'[p] = "queued" => asked[p] = "queued" \/ Wanted(p) > 0,
         \A b \in DOMAIN G.sources :
           LET p == PeerAt(G.sources[b]) IN
             b \in Streams =>
               /\ Len(out'[b]) <= Sent(p)
               /\ pull'[p] \in {"sent", "answered"} => Len(out'[b]) < Sent(p),
         \A b \in G.heads : b \in Streams => Len(out'[b]) <= HeadLength
  PROVE  Asking'
<1>1. G' = G /\ Streams' = Streams
  BY DEF G, Streams, Givers
<1>2. \A p \in Peers : Sent(p)' = Sent(p) /\ Wanted(p)' = Wanted(p)
  BY DEF Sent, Wanted
<1>3. \A b \in DOMAIN G.sources : Sent(PeerAt(G.sources[b]))' = Sent(PeerAt(G.sources[b]))
  BY <1>1 DEF Sent
<1>4. HeadLength' = HeadLength
  BY DEF HeadLength
<1> QED
  BY <1>1, <1>2, <1>3, <1>4 DEF Asking

LEMMA SourcesKeepAsking ==
  ASSUME IInv, Asking, WellWired(G), session' = session,
         NEW b \in DOMAIN G.sources, SendRequest(b) \/ Receive(b)
  PROVE  Asking'
<1> DEFINE p == PeerAt(G.sources[b])
<1>1. session \in Sessions /\ FlowTypeOK /\ LinksTypeOK({Chunk})
  BY DEF IInv, TypeOK, FlowInv, FlowTypeOK
<1>2. /\ b \in Streams /\ p \in Peers
      /\ \A c \in DOMAIN G.sources : PeerAt(G.sources[c]) \in Peers
      /\ \A c \in DOMAIN G.sources : PeerAt(G.sources[c]) = p => c = b
      /\ \A c \in G.heads : c # b
  <2>1. p \in Peers /\ \A c \in DOMAIN G.sources : PeerAt(G.sources[c]) \in Peers
    BY <1>1, GnuRadioAssumption, GraphsAssumption DEF G
  <2>2. PICK e \in G.edges : From(e) = b
    BY DEF WellWired, SocketsWired
  <2>3. b \in Streams
    BY <1>1, <2>2, Ends
  <2> QED
    BY <1>1, <2>1, <2>3, Kinds DEF WellWired, DownlinkWired, Givings, Passers
<1>3. \A c \in Streams : Len(out[c]) \in Nat
  BY <1>1, Lengths
<1>4. Sent(p) \in Nat
  BY <1>1, GnuRadioAssumption DEF Sent
<1>5. CASE SendRequest(b)
  <2>1. /\ out' = out /\ Len(out[b]) < Sent(p)
        /\ busy' = busy /\ asked' = asked
        /\ \A c \in DOMAIN G.sources : c # b => pull'[PeerAt(G.sources[c])] = pull[PeerAt(G.sources[c])]
    BY <1>1, <1>2, <1>5 DEF SendRequest, ReqSend, flowVars, repVars, LinksTypeOK
  <2> QED
    BY <1>2, <2>1, AskingStays DEF Asking
<1>6. CASE Receive(b)
  <2>1. Len(out[b]) < Sent(p) /\ pull'[p] = "idle"
    BY <1>1, <1>2, <1>6 DEF Receive, ReqRecv, Asking, LinksTypeOK
  <2>2. /\ busy' = busy /\ asked' = asked
        /\ \A c \in DOMAIN G.sources : c # b => pull'[PeerAt(G.sources[c])] = pull[PeerAt(G.sources[c])]
    BY <1>1, <1>2, <1>6 DEF Receive, ReqRecv, repVars, LinksTypeOK
  <2>3. PICK item : Put(b, item)
    BY <1>6 DEF Receive
  <2>4. Grown(b, item)
    BY <1>1, <2>3, PutAppends
  <2>5. /\ Len(out'[b]) = Len(out[b]) + 1
        /\ \A c \in Streams : c # b => out'[c] = out[c]
    BY <1>2, <2>4 DEF Grown
  <2>6. Len(out'[b]) <= Sent(p)
    BY <1>2, <1>3, <1>4, <2>1, <2>5
  <2> HIDE DEF p
  <2>7. ASSUME NEW c \in DOMAIN G.sources, c \in Streams
        PROVE  /\ Len(out'[c]) <= Sent(PeerAt(G.sources[c]))
               /\ pull'[PeerAt(G.sources[c])] \in {"sent", "answered"}
                    => Len(out'[c]) < Sent(PeerAt(G.sources[c]))
    <3>1. CASE c = b
      BY <2>1, <2>6, <3>1 DEF p
    <3>2. CASE c # b
      BY <2>2, <2>5, <2>7, <3>2 DEF Asking
    <3> QED
      BY <3>1, <3>2
  <2>8. \A c \in G.heads : c \in Streams => Len(out'[c]) <= HeadLength
    BY <1>2, <2>5 DEF Asking
  <2> QED
    BY <2>2, <2>7, <2>8, AskingStays
<1> QED
  BY <1>5, <1>6

LEMMA InnerKeepAsking ==
  ASSUME IInv, Asking, session' = session, linkVars' = linkVars, NEW b,
         b \in Passers \cup DOMAIN G.files \cup Takers,
         DOMAIN G.files \cap DOMAIN G.sources = {},
         out' = out \/ \E item : Put(b, item),
         b \in G.heads => out' = out \/ Len(out[b]) < HeadLength
  PROVE  Asking'
<1>1. session \in Sessions /\ FlowTypeOK
  BY DEF IInv, FlowInv, FlowTypeOK
<1>2. b \notin DOMAIN G.sources
  BY <1>1, Kinds DEF Givings
<1>3. UNCHANGED <<busy, asked, pull>>
  BY DEF linkVars
<1>4. CASE out' = out
  BY <1>3, <1>4, AskingStays DEF Asking
<1>5. CASE out' # out
  <2>1. PICK item : Put(b, item)
    BY <1>5
  <2>2. Grown(b, item)
    BY <1>1, <2>1, PutAppends
  <2>3. \A c \in DOMAIN G.sources : c \in Streams => out'[c] = out[c]
    BY <1>2, <2>2 DEF Grown
  <2>4. ASSUME NEW c \in G.heads, c \in Streams
        PROVE  Len(out'[c]) <= HeadLength
    <3>1. CASE c # b
      BY <2>2, <2>4, <3>1 DEF Grown, Asking
    <3>2. CASE c = b
      <4>1. Len(out'[c]) = Len(out[c]) + 1 /\ Len(out[c]) < HeadLength /\ Len(out[c]) \in Nat
        BY <1>1, <1>5, <2>2, <2>4, <3>2, Lengths DEF Grown
      <4> QED
        BY <4>1, GnuRadioAssumption DEF HeadLength
    <3> QED
      BY <3>1, <3>2
  <2> QED
    BY <1>3, <2>3, <2>4, AskingStays DEF Asking
<1> QED
  BY <1>4, <1>5

LEMMA NextKeepsAsking ==
  ASSUME IInv, Asking, WellWired(G), [Next]_vars
  PROVE  Asking'
<1>1. session \in Sessions /\ LinksTypeOK({Chunk}) /\ FlowTypeOK
  BY DEF IInv, TypeOK, FlowInv, FlowTypeOK
<1>2. session' = session
  BY DEF Next, vars, BlocksNext, MainNext, set_k, timeout, sig_handler, WaitReturns,
         PollsNext, PollEnds, UserNext, set_path_loss_db, closeEvent, Interrupt, PeersServe, Answer, Ask, Restart, scriptVars
<1>3. /\ DOMAIN G.files \cap DOMAIN G.sources = {}
      /\ G.heads \cap (DOMAIN G.multipliers \cup G.adders) = {}
      /\ G.heads \cap (DOMAIN G.files \cup Takers) = {}
      /\ \A b \in DOMAIN G.sinks : PeerAt(G.sinks[b]) \in Peers
      /\ \A b \in DOMAIN G.sources : PeerAt(G.sources[b]) \in Peers
  <2>1. session.script \in DOMAIN Graphs
    BY <1>1, GnuRadioAssumption
  <2>2. /\ DOMAIN G.files = {} \/ DOMAIN G.sources = {}
        /\ DOMAIN G.multipliers \cap G.heads = {}
        /\ \A b \in DOMAIN G.sinks : PeerAt(G.sinks[b]) \in Peers
        /\ \A b \in DOMAIN G.sources : PeerAt(G.sources[b]) \in Peers
    BY <2>1, GraphsAssumption DEF G
  <2> QED
    BY <1>1, <2>2, Kinds DEF Givings, Passers
<1>4. CASE \E b \in DOMAIN G.sources : SendRequest(b) \/ Receive(b)
  BY <1>2, <1>4, SourcesKeepAsking
<1>5. CASE \E b \in DOMAIN G.sinks : Reply(b)
  <2>1. PICK b \in DOMAIN G.sinks : Reply(b)
    BY <1>5
  <2>2. /\ UNCHANGED <<busy, pull, out>>
        /\ \A p \in Peers : asked'[p] = "queued" => asked[p] = "queued"
    BY <1>1, <1>3, <2>1 DEF Reply, reqVars, LinksTypeOK
  <2> QED
    BY <1>2, <2>2, AskingStays DEF Asking
<1>6. CASE \/ \E b \in DOMAIN G.multipliers : Multiply(b)
           \/ \E b \in G.adders : Add(b)
           \/ \E b \in (DOMAIN G.logs \cup DOMAIN G.displays) : Tap(b)
           \/ \E b \in DOMAIN G.files : ReadFile(b)
  <2>1. PICK b \in DOMAIN G.multipliers \cup G.adders \cup DOMAIN G.logs
                     \cup DOMAIN G.displays \cup DOMAIN G.files :
          Multiply(b) \/ Add(b) \/ Tap(b) \/ ReadFile(b)
    BY <1>6
  <2>2. b \in Passers \cup DOMAIN G.files \cup Takers /\ b \notin G.heads
    BY <1>3 DEF Passers, Takers
  <2>3. linkVars' = linkVars /\ (out' = out \/ \E item : Put(b, item))
    BY <2>1 DEF Multiply, Add, Tap, ReadFile, linkVars
  <2> QED
    BY <1>2, <1>3, <2>2, <2>3, InnerKeepAsking
<1>7. CASE \E b \in G.heads : PassOn(b)
  <2>1. PICK b \in G.heads : PassOn(b)
    BY <1>7
  <2>2. linkVars' = linkVars /\ (\E item : Put(b, item)) /\ Len(out[b]) < HeadLength
    BY <2>1 DEF PassOn, linkVars
  <2> QED
    BY <1>2, <1>3, <2>2, InnerKeepAsking DEF Passers
<1>8. CASE \E p \in Peers : Answer(p) \/ Ask(p) \/ Restart(p)
  <2>1. PICK p \in Peers : Answer(p) \/ Ask(p) \/ Restart(p)
    BY <1>8
  <2>2. UNCHANGED <<busy, out>>
    BY <2>1 DEF Answer, Ask, Restart, PeerAnswer, PeerAsk, PeerRestart, scriptVars, flowVars, repVars
  <2>3. \A q \in Peers : asked'[q] = "queued" => asked[q] = "queued" \/ Wanted(q) > 0
    BY <1>1, <2>1 DEF Answer, Ask, Restart, PeerAnswer, PeerAsk, PeerRestart, repVars, LinksTypeOK
  <2>4. \A q \in Peers : pull'[q] \in {"sent", "answered"} => pull[q] \in {"sent", "answered"}
    BY <1>1, <2>1 DEF Answer, Ask, Restart, PeerAnswer, PeerAsk, PeerRestart, reqVars, LinksTypeOK
  <2> QED
    BY <1>2, <1>3, <2>2, <2>3, <2>4, AskingStays DEF Asking
<1>9. CASE MainNext \/ PollsNext \/ (\E u \in DOMAIN loss, db \in SliderValues : set_path_loss_db(u, db))
           \/ closeEvent \/ Interrupt \/ UNCHANGED vars
  <2>1. UNCHANGED <<linkVars, out>>
    BY <1>9 DEF vars, MainNext, set_k, timeout, sig_handler, WaitReturns,
         PollsNext, PollEnds, set_path_loss_db, closeEvent, Interrupt, flowVars
  <2> QED
    BY <1>2, <2>1, AskingStays DEF Asking, linkVars
<1> QED
  BY <1>4, <1>5, <1>6, <1>7, <1>8, <1>9 DEF Next, BlocksNext, UserNext, PeersServe

Less == {ss \in Nat \X Nat : ss[1] < ss[2]}

\* A set of natural numbers has a least one: induction, as a fact about sets.
LEMMA Least ==
  ASSUME NEW T, T \subseteq Nat, T # {}
  PROVE  \E x \in T : \A y \in T : x <= y
<1>1. IsWellFoundedOn(Less, Nat)
  BY NatLessThanWellFounded, Zenon DEF OpToRel, Less
<1>2. PICK x \in T : \A y \in T : ~(<<y, x>> \in Less)
  BY <1>1, WFMin
<1>3. ASSUME NEW y \in T
      PROVE  x <= y
  <2>1. x \in Nat /\ y \in Nat /\ ~(<<y, x>> \in Less)
    BY <1>2
  <2>2. ~(y < x)
    BY <2>1 DEF Less
  <2> QED
    BY <2>1, <2>2
<1> QED
  BY <1>3

\* How often a block has worked, as far as its connections tell.
Worked(b) ==
  IF \E e \in G.edges : To(e) = b
  THEN read[CHOOSE e \in G.edges : To(e) = b]
  ELSE Len(out[b])

LEMMA WorkedIs ==
  ASSUME IInv, NEW e \in G.edges
  PROVE  /\ Worked(To(e)) = read[e] /\ Worked(From(e)) = Len(out[From(e)])
         /\ read[e] \in Nat /\ Len(out[From(e)]) \in Nat
         /\ read[e] <= Len(out[From(e)])
         /\ From(e) \in Blocks /\ To(e) \in Blocks
<1>1. session \in Sessions /\ FlowInv /\ FlowTypeOK
  BY DEF IInv, FlowInv, FlowTypeOK
<1>2. session.script \in DOMAIN Graphs
  BY <1>1, GnuRadioAssumption
<1>3. Worked(To(e)) = read[e]
  BY <1>1 DEF Worked, FlowInv, Level
<1>4. Worked(From(e)) = Len(out[From(e)])
  <2>1. CASE \E f \in G.edges : To(f) = From(e)
    <3>1. PICK f \in G.edges : f = CHOOSE x \in G.edges : To(x) = From(e)
      BY <2>1
    <3>2. To(f) = From(e) /\ Worked(From(e)) = read[f]
      BY <2>1, <3>1 DEF Worked
    <3>3. From(e) \in Passers /\ From(e) \in Streams
      <4>1. From(e) \in Streams /\ From(e) \notin Givings
        BY <1>1, <3>2, Ends, Kinds
      <4>2. From(e) \in Givings \cup Passers
        BY <1>2, GraphsAssumption DEF G, Givings, Passers
      <4> QED
        BY <4>1, <4>2
    <3> QED
      BY <1>1, <3>2, <3>3 DEF FlowInv, OneForOne
  <2>2. CASE ~\E f \in G.edges : To(f) = From(e)
    BY <2>2 DEF Worked
  <2> QED
    BY <2>1, <2>2
<1>5. From(e) \in Blocks /\ To(e) \in Blocks
  BY <1>2 DEF Blocks, BlocksOf, Givers, G
<1> QED
  BY <1>1, <1>3, <1>4, <1>5, Lengths DEF FlowInv, Buffers

\* The connections of a block.
LEMMA Connections ==
  ASSUME session \in Sessions, NEW b \in Blocks
  PROVE  /\ Readers(b) = {e \in G.edges : From(e) = b}
         /\ Inputs(b) = {e \in G.edges : To(e) = b}
         /\ \E e \in G.edges : From(e) = b \/ To(e) = b
<1>1. session.script \in DOMAIN Graphs
  BY GnuRadioAssumption
<1> QED
  BY <1>1 DEF Readers, Inputs, ReadersOf, InputsOf, Blocks, BlocksOf, Givers, G

\* Among blocks that have every neighbour among them which has not worked more
\* often, there is one that can read and has room: of those that have worked
\* least, the first along the connections.
LEMMA SomeoneFree ==
  ASSUME IInv, OneWay(G), NEW S, S \subseteq Blocks, S # {},
         \A e \in G.edges :
           /\ From(e) \in S /\ Worked(To(e)) <= Worked(From(e)) => To(e) \in S
           /\ To(e) \in S /\ Worked(From(e)) <= Worked(To(e)) => From(e) \in S
  PROVE  \E b \in S : CanRead(b) /\ Room(b)
<1>1. session \in Sessions /\ FlowInv /\ FlowTypeOK
  BY DEF IInv, FlowInv, FlowTypeOK
<1>2. PICK rank : /\ rank \in [Blocks -> Nat]
                  /\ \A e \in G.edges : rank[From(e)] < rank[To(e)]
  <2>1. Blocks = {From(e) : e \in G.edges} \cup {To(e) : e \in G.edges}
    <3>1. session.script \in DOMAIN Graphs
      BY <1>1, GnuRadioAssumption
    <3> QED
      BY <3>1 DEF Blocks, BlocksOf, Givers, G
  <2> QED
    BY <2>1 DEF OneWay
<1>3. \A b \in S : Worked(b) \in Nat
  <2>1. ASSUME NEW b \in S
        PROVE  Worked(b) \in Nat
    <3>1. PICK e \in G.edges : From(e) = b \/ To(e) = b
      BY <1>1, Connections
    <3> QED
      BY <3>1, WorkedIs
  <2> QED
    BY <2>1
<1>4. PICK d \in {Worked(b) : b \in S} : \A c \in {Worked(b) : b \in S} : d <= c
  BY <1>3, Least
<1> DEFINE Slow == {b \in S : Worked(b) = d}
<1>5. PICK r \in {rank[b] : b \in Slow} : \A c \in {rank[b] : b \in Slow} : r <= c
  <2>1. {rank[b] : b \in Slow} \subseteq Nat
    BY <1>2
  <2>2. {rank[b] : b \in Slow} # {}
    BY <1>4
  <2> QED
    BY <2>1, <2>2, Least
<1>6. PICK b \in S : Worked(b) = d /\ rank[b] = r
  BY <1>5
<1>7. \A c \in S : Worked(b) <= Worked(c)
  BY <1>4, <1>6
<1>8. \A c \in S : Worked(c) = Worked(b) => rank[b] <= rank[c]
  BY <1>5, <1>6
<1> HIDE DEF Slow
<1>9. CanRead(b)
  <2> SUFFICES ASSUME NEW e \in G.edges, To(e) = b, ~(Fill(e) > 0)
               PROVE  FALSE
    BY <1>1, <1>6, Connections DEF CanRead
  <2>1. Len(out[From(e)]) = read[e]
    BY WorkedIs DEF Fill
  <2>2. Worked(From(e)) = Worked(b)
    BY <2>1, WorkedIs
  <2>3. Worked(b) \in Nat
    BY <1>3
  <2>4. From(e) \in S
    BY <2>2, <2>3
  <2>5. rank[b] <= rank[From(e)] /\ rank[From(e)] < rank[b]
    BY <1>2, <1>8, <2>2, <2>4
  <2>6. rank[b] \in Nat /\ rank[From(e)] \in Nat
    BY <1>2, <2>4
  <2> QED
    BY <2>5, <2>6
<1>10. Room(b)
  <2> SUFFICES ASSUME NEW e \in G.edges, From(e) = b, ~(Fill(e) < BufferItems)
               PROVE  FALSE
    BY <1>1, <1>6, Connections DEF Room
  <2>1. BufferItems \in Nat \ {0}
    BY GnuRadioAssumption
  <2>2. Worked(b) = Len(out[b]) /\ Worked(To(e)) = read[e] /\ read[e] \in Nat /\ Len(out[b]) \in Nat
    BY WorkedIs
  <2>3. Worked(To(e)) < Worked(b)
    BY <2>1, <2>2 DEF Fill
  <2>4. To(e) \in S
    BY <2>2, <2>3
  <2> QED
    BY <1>7, <2>2, <2>3, <2>4
<1> QED
  BY <1>9, <1>10

\* A block that could go on, at rest, waits for something outside.
LEMMA FreeAtRest ==
  ASSUME IInv, Asking, AtRest, NEW b \in Blocks, CanRead(b), Room(b)
  PROVE  \/ /\ b \in DOMAIN G.sources
            /\ pull[PeerAt(G.sources[b])] = "lost" \/ Len(out[b]) = Sent(PeerAt(G.sources[b]))
         \/ b \in DOMAIN G.sinks /\ ~RequestQueued(PeerAt(G.sinks[b]))
         \/ b \in DOMAIN G.files /\ Len(out[b]) >= session.length[G.files[b]]
         \/ b \in G.heads /\ Len(out[b]) >= HeadLength
<1>1. session \in Sessions /\ session.script \in DOMAIN Graphs /\ LinksTypeOK({Chunk})
  BY GnuRadioAssumption DEF IInv, TypeOK
<1>2. b \in Givings \cup Passers \cup Takers
  <2>1. \E e \in G.edges : b = From(e) \/ b = To(e)
    BY <1>1, Connections
  <2> QED
    BY <1>1, <2>1, GraphsAssumption DEF G, Givings, Passers, Takers
<1>3. ASSUME b \in DOMAIN G.sources
      PROVE  pull[PeerAt(G.sources[b])] = "lost" \/ Len(out[b]) = Sent(PeerAt(G.sources[b]))
  <2> DEFINE p == PeerAt(G.sources[b])
  <2>1. p \in Peers /\ p \in ScriptPeers
    BY <1>1, <1>3, PeersOf
  <2>2. pull[p] \in {"idle", "lost"}
    BY <1>1, <1>3, <2>1 DEF AtRest, LinksTypeOK, PullStates
  <2>3. pull[p] = "idle" => Len(out[b]) >= Sent(p)
    BY <1>3 DEF AtRest
  <2>4. Len(out[b]) <= Sent(p) /\ Len(out[b]) \in Nat
    <3>1. b \in Streams
      <4>1. PICK e \in G.edges : b = From(e) \/ b = To(e)
        BY <1>1, Connections
      <4> QED
        BY <1>1, <1>3, <4>1, Ends, Kinds DEF Givings
    <3> QED
      BY <1>3, <3>1, Lengths DEF Asking, IInv, FlowInv
  <2>5. Sent(p) \in Nat
    BY <1>1, GnuRadioAssumption DEF Sent
  <2> QED
    BY <2>2, <2>3, <2>4, <2>5
<1> QED
  BY <1>2, <1>3 DEF AtRest, Givings, Passers, Takers

LEMMA AskersAtRest ==
  ASSUME IInv, Asking, AtRest, WellWired(G), OneWay(G),
         NEW p \in ScriptPeers, asked[p] = "queued"
  PROVE  NoMoreFor(p)
<1>1. session \in Sessions /\ FlowInv /\ FlowTypeOK /\ session.script \in DOMAIN Graphs
      /\ LinksTypeOK({Chunk})
  BY GnuRadioAssumption DEF IInv, TypeOK, FlowInv, FlowTypeOK
<1> DEFINE s == SinkOf(p)
           x == ToSink(p)
<1>2. /\ s \in DOMAIN G.sinks /\ PeerAt(G.sinks[s]) = p /\ p \in Peers
      /\ x \in G.edges /\ To(x) = s
      /\ SourceOf(p) \in DOMAIN G.sources
  BY <1>1, OneSocket, PeersOf
<1>3. PICK dl :
        /\ \A e \in G.edges : From(e) \in dl <=> To(e) \in dl
        /\ \A b \in DOMAIN G.sources : b \in dl <=> PeerAt(G.sources[b]) = Gnb
        /\ \A b \in DOMAIN G.sinks : b \in dl <=> PeerAt(G.sinks[b]) # Gnb
  BY DEF OneWay
<1> DEFINE S == {b \in Blocks : (b \in dl <=> s \in dl) /\ Worked(b) <= Worked(s)}
<1>4. Worked(s) = read[x] /\ read[x] \in Nat /\ s \in Blocks
  BY <1>2, WorkedIs
<1>5. PICK b \in S : CanRead(b) /\ Room(b)
  <2>1. s \in S
    BY <1>4
  <2>2. ASSUME NEW e \in G.edges
        PROVE  /\ From(e) \in S /\ Worked(To(e)) <= Worked(From(e)) => To(e) \in S
               /\ To(e) \in S /\ Worked(From(e)) <= Worked(To(e)) => From(e) \in S
    <3>1. Worked(From(e)) \in Nat /\ Worked(To(e)) \in Nat /\ From(e) \in Blocks /\ To(e) \in Blocks
      BY WorkedIs
    <3> QED
      BY <1>3, <1>4, <3>1
  <2>3. S \subseteq Blocks
    OBVIOUS
  <2> HIDE DEF S
  <2> QED
    BY <2>1, <2>2, <2>3, SomeoneFree
<1>6. b \in Blocks /\ (b \in dl <=> s \in dl) /\ Worked(b) <= Worked(s)
  BY <1>5
<1> HIDE DEF S
<1>7. DOMAIN G.files = {} /\ G.heads = {}
  <2>1. DOMAIN G.files = {} \/ DOMAIN G.sources = {}
    BY <1>1, GraphsAssumption DEF G
  <2> QED
    BY <1>2, <2>1 DEF OneWay
<1>8. ~(b \in DOMAIN G.sinks /\ ~RequestQueued(PeerAt(G.sinks[b])))
  <2> SUFFICES ASSUME b \in DOMAIN G.sinks, ~RequestQueued(PeerAt(G.sinks[b]))
               PROVE  FALSE
    OBVIOUS
  <2> DEFINE q == PeerAt(G.sinks[b])
  <2>1. q \in ScriptPeers /\ q \in Peers
    BY <1>1, PeersOf DEF WellWired, SocketsWired
  <2>2. (q = Gnb) <=> (p = Gnb)
    BY <1>2, <1>3, <1>6
  <2>3. Wanted(q) = Wanted(p)
    BY <2>2 DEF Wanted
  <2>4. ~busy[q] /\ asked[q] # "queued"
    BY <2>1 DEF Asking, RequestQueued
  <2>5. asked[q] = "no"
    BY <1>1, <2>1, <2>4 DEF LinksTypeOK, AskStates
  <2>6. Wanted(q) = 0 /\ Wanted(p) > 0
    BY <1>2, <2>1, <2>5 DEF AtRest, Asking
  <2> QED
    BY <2>3, <2>6
<1> DEFINE q == PeerAt(G.sources[b])
<1>9. b \in DOMAIN G.sources /\ (pull[q] = "lost" \/ Len(out[b]) = Sent(q))
  BY <1>5, <1>6, <1>7, <1>8, FreeAtRest
<1>10. q \in ScriptPeers /\ b = SourceOf(q) /\ (p = Gnb <=> q # Gnb)
  BY <1>1, <1>2, <1>3, <1>6, <1>9, PeersOf, OneSocket
<1> HIDE DEF q
<1>11. Len(out[b]) = read[x]
  <2>1. PICK e \in G.edges : From(e) = b
    BY <1>9 DEF WellWired, SocketsWired
  <2>2. Worked(b) = Len(out[b]) /\ Len(out[b]) \in Nat
    BY <2>1, WorkedIs
  <2>3. Len(out[From(x)]) <= Len(out[b])
    BY <1>10, Between
  <2>4. read[x] <= Len(out[From(x)]) /\ Len(out[From(x)]) \in Nat
    BY <1>2, WorkedIs
  <2> HIDE DEF x
  <2> QED
    BY <1>4, <1>6, <2>2, <2>3, <2>4
<1>12. x \in Inputs(s)
  BY <1>1, <1>2, <1>4, Connections
<1> QED
  BY <1>9, <1>10, <1>11, <1>12 DEF NoMoreFor, Drained

LEMMA PlotsAtRest ==
  ASSUME IInv, Asking, AtRest, WellWired(G), OneWay(G), LogsSuffice
  PROVE  PlotsFull
<1>1. session \in Sessions /\ FlowInv /\ FlowTypeOK /\ session.script \in DOMAIN Graphs
  BY GnuRadioAssumption DEF IInv, FlowInv, FlowTypeOK
<1>2. /\ DOMAIN G.files # {} /\ DOMAIN G.sources = {} /\ DOMAIN G.sinks = {}
  <2>1. DOMAIN G.files = {} \/ DOMAIN G.sources = {}
    BY <1>1, GraphsAssumption DEF G
  <2> QED
    BY <2>1 DEF LogsSuffice, WellWired, SocketsWired
<1>3. ASSUME NEW e \in G.edges, To(e) \in DOMAIN G.displays
      PROVE  read[e] = num_samples
  <2>1. num_samples \in Nat
    BY GnuRadioAssumption
  <2>2. /\ Worked(To(e)) = read[e] /\ read[e] \in Nat /\ read[e] <= Len(out[From(e)])
        /\ Len(out[From(e)]) \in Nat /\ To(e) \in Blocks
    BY WorkedIs
  <2>3. read[e] <= num_samples
    <3>1. From(e) \in G.heads /\ From(e) \in Streams
      BY <1>1, <1>2, <1>3, Ends DEF WellWired, NamesWired
    <3>2. Len(out[From(e)]) <= num_samples
      BY <3>1 DEF Asking, HeadLength
    <3> QED
      BY <2>1, <2>2, <3>2
  <2>4. ASSUME read[e] < num_samples
        PROVE  FALSE
    <3> DEFINE S == {b \in Blocks : Worked(b) <= Worked(To(e))}
    <3>1. PICK b \in S : CanRead(b) /\ Room(b)
      <4>1. To(e) \in S
        BY <2>2
      <4>2. ASSUME NEW f \in G.edges
            PROVE  /\ From(f) \in S /\ Worked(To(f)) <= Worked(From(f)) => To(f) \in S
                   /\ To(f) \in S /\ Worked(From(f)) <= Worked(To(f)) => From(f) \in S
        <5>1. /\ Worked(From(f)) \in Nat /\ Worked(To(f)) \in Nat
              /\ From(f) \in Blocks /\ To(f) \in Blocks
          BY WorkedIs
        <5> QED
          BY <2>2, <5>1
      <4>3. S \subseteq Blocks
        OBVIOUS
      <4> HIDE DEF S
      <4> QED
        BY <4>1, <4>2, <4>3, SomeoneFree
    <3>2. b \in Blocks /\ Worked(b) <= read[e]
      BY <2>2, <3>1
    <3> HIDE DEF S
    <3>3. \/ b \in DOMAIN G.files /\ Len(out[b]) >= session.length[G.files[b]]
          \/ b \in G.heads /\ Len(out[b]) >= HeadLength
      BY <1>2, <3>1, <3>2, FreeAtRest
    <3>4. Len(out[b]) >= num_samples
      <4>1. CASE b \in DOMAIN G.files /\ Len(out[b]) >= session.length[G.files[b]]
        <5>1. /\ session.length[G.files[b]] >= num_samples
              /\ session.length[G.files[b]] \in Nat
          BY <1>1, <4>1, GnuRadioAssumption DEF LogsSuffice, G
        <5>2. b \in Streams
          <6>1. PICK f \in G.edges : From(f) = b \/ To(f) = b
            BY <1>1, <3>2, Connections
          <6> QED
            BY <1>1, <4>1, <6>1, Ends, Kinds DEF Givings
        <5>3. Len(out[b]) \in Nat
          BY <1>1, <5>2, Lengths
        <5> QED
          BY <2>1, <4>1, <5>1, <5>3
      <4>2. CASE b \in G.heads /\ Len(out[b]) >= HeadLength
        BY <4>2 DEF HeadLength
      <4> QED
        BY <3>3, <4>1, <4>2
    <3>5. Worked(b) = Len(out[b]) /\ Len(out[b]) \in Nat
      <4>1. \E f \in G.edges : From(f) = b
        <5>1. CASE b \in G.heads
          BY <5>1 DEF OneWay
        <5>2. CASE b \in DOMAIN G.files
          <6>1. PICK f \in G.edges : From(f) = b \/ To(f) = b
            BY <1>1, <3>2, Connections
          <6> QED
            BY <1>1, <5>2, <6>1, Kinds DEF Givings
        <5> QED
          BY <3>3, <5>1, <5>2
      <4> QED
        BY <4>1, WorkedIs
    <3> QED
      BY <2>1, <2>2, <2>4, <3>2, <3>4, <3>5
  <2> QED
    BY <2>1, <2>2, <2>3, <2>4
<1>4. ASSUME NEW b \in DOMAIN G.displays, NEW i \in 0 .. G.displays[b].inputs - 1
      PROVE  \E e \in Inputs(b) : Input(e) = i /\ read[e] = PlotSize
  <2>1. PICK e \in G.edges : To(e) = b /\ Input(e) = i
    BY <1>4 DEF OneWay
  <2>2. e \in Inputs(b)
    BY <1>1, <2>1, WorkedIs, Connections
  <2> QED
    BY <1>3, <1>4, <2>1, <2>2 DEF PlotSize
<1> QED
  BY <1>4 DEF PlotsFull

\* The blocks never wait for each other in a circle: at rest, a peer that asks
\* was given all there is of somebody it listens to, and the plots are complete,
\* if the connections lead one way, for any size of the buffers and any graph.
THEOREM NoneStuck ==
  ASSUME \A s \in DOMAIN Graphs : WellWired(Graphs[s]) /\ OneWay(Graphs[s])
  PROVE  Spec => []NobodyStuck
<1>1. ASSUME IInv
      PROVE  WellWired(G) /\ OneWay(G)
  BY <1>1, GnuRadioAssumption DEF IInv, TypeOK, G
<1>2. IInv /\ Asking /\ [Next]_vars => Asking'
  BY <1>1, NextKeepsAsking
<1>3. IInv /\ Asking => NobodyStuck
  BY <1>1, AskersAtRest, PlotsAtRest DEF NobodyStuck
<1> QED
  BY <1>2, <1>3, InitAsking, Invariant, PTL DEF Spec
=============================================================================
