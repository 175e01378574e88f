------------------------- MODULE PythonBrokerProofs -------------------------
(***************************************************************************)
(* python_broker.py for any number of servers, and of requests.            *)
(***************************************************************************)
EXTENDS PythonBroker, TLAPS

\* While the client is at work, it awaits a reply exactly when it lacks one.
Lockstep ==
  /\ client = "receiving" => awaiting # NoServer
  /\ client = "sending" => (awaiting = NoServer <=> request = replies)
  /\ client \in {"sending", "receiving"} => request < Requests

IInv == TypeOK /\ Lockstep /\ OneMissEnds

LEMMA Turns ==
  \A s \in Servers : (s + 1) % NumServers = IF s = NumServers - 1 THEN 0 ELSE s + 1
BY PythonBrokerAssumption, SMTT(30) DEF Servers

LEMMA InitGives ==
  ASSUME Init
  PROVE  IInv
BY PythonBrokerAssumption DEF IInv, Init, TypeOK, Lockstep, OneMissEnds, Servers

LEMMA ClientKeeps ==
  ASSUME IInv, ClientNext
  PROVE  IInv'
<1> USE DEF IInv
<1>1. NextServer \in Servers
  BY Turns, PythonBrokerAssumption DEF TypeOK, NextServer, Servers
<1>2. ASSUME Leave, TypeOK
      PROVE  link' \in [Servers -> {"empty", "request", "reply"}]
  BY <1>2 DEF Leave, TypeOK
<1>3. CASE Send
  <2>1. UNCHANGED <<server, reqnum, request, replies>>
    BY <1>3 DEF Send, serverVars
  <2>2. TypeOK'
    BY <1>1, <1>2, <1>3, <2>1 DEF TypeOK, Send
  <2>3. Lockstep' /\ OneMissEnds'
    BY <1>3, <2>1, PythonBrokerAssumption DEF TypeOK, Send, Lockstep, OneMissEnds, Servers
  <2> QED
    BY <2>2, <2>3
<1>4. CASE Receive
  <2>1. UNCHANGED <<server, reqnum, next>>
    BY <1>4 DEF Receive, serverVars
  <2>2. /\ request' = request + 1
        /\ client' = IF request' = Requests THEN "done" ELSE "sending"
    BY <1>4 DEF Receive, NextIteration
  <2>3. client = "receiving" /\ awaiting \in Servers
    BY <1>4 DEF Receive, Lockstep, TypeOK
  <2>4. \/ replies' = replies + 1 /\ awaiting' = NoServer
        \/ replies' = replies /\ awaiting' = awaiting
    BY <1>4 DEF Receive
  <2>5. link' \in [Servers -> {"empty", "request", "reply"}]
    BY <1>2, <1>4 DEF Receive, TypeOK
  <2>6. TypeOK'
    BY <2>1, <2>2, <2>3, <2>4, <2>5, PythonBrokerAssumption DEF TypeOK, Lockstep
  <2>7. Lockstep' /\ OneMissEnds'
    BY <2>2, <2>3, <2>4, PythonBrokerAssumption DEF TypeOK, Lockstep, OneMissEnds, Servers
  <2> QED
    BY <2>6, <2>7
<1> QED
  BY <1>3, <1>4 DEF ClientNext

LEMMA ServersKeep ==
  ASSUME IInv, NEW s \in Servers, ServerNext(s)
  PROVE  IInv'
<1> USE DEF IInv
<1>1. UNCHANGED clientVars
  BY DEF ServerNext, bind, recv, send_string
<1>2. TypeOK'
  BY <1>1 DEF TypeOK, ServerNext, bind, recv, send_string, clientVars
<1>3. Lockstep' /\ OneMissEnds'
  BY <1>1 DEF Lockstep, OneMissEnds, clientVars
<1> QED
  BY <1>2, <1>3

LEMMA NextKeeps ==
  ASSUME IInv, [Next]_vars
  PROVE  IInv'
<1>1. CASE UNCHANGED vars
  BY <1>1 DEF IInv, TypeOK, Lockstep, OneMissEnds, vars, serverVars, clientVars
<1> QED
  BY <1>1, ClientKeeps, ServersKeep DEF Next

LEMMA Invariant == Spec => []IInv
BY InitGives, NextKeeps, PTL DEF Spec

\* Every variable keeps its type.
THEOREM TypeCorrect == Spec => []TypeOK
BY Invariant, PTL DEF IInv

\* The first reply that is late is the last the client waits for: it lacks one
\* reply at most.
THEOREM OneMiss == Spec => []OneMissEnds
BY Invariant, PTL DEF IInv
=============================================================================
