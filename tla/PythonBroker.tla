---------------------------- MODULE PythonBroker ----------------------------
(***************************************************************************)
(* src/zmq_broker/python_broker.py: a process with a REQ socket that is    *)
(* connected to several servers, and the servers, a process each.          *)
(*                                                                         *)
(* The REQ socket deals its requests to the servers in turn, whether they  *)
(* have bound yet or not.  The client does not wait for the reply: it      *)
(* looks for it once, and goes on to the next request.                     *)
(***************************************************************************)
EXTENDS Integers

CONSTANTS
  NumServers, \* the length of server_ports
  Serves,     \* how many requests a server serves
  Requests,   \* how many requests the client sends
  NoServer    \* stands for "no reply is awaited"

ASSUME PythonBrokerAssumption ==
  /\ NumServers \in Nat \ {0}
  /\ Serves \in Nat \ {0}
  /\ Requests \in Nat \ {0}
  /\ NoServer \notin 0 .. NumServers - 1

Servers == 0 .. NumServers - 1

VARIABLES
  server,   \* what each server does
  reqnum,   \* reqnum[s]: how many requests server s has answered
  link,     \* link[s]: what is under way between the client and server s
  client,   \* what the client does
  request,  \* the client's loop variable
  next,     \* the server whose turn it is
  awaiting, \* the server whose reply the REQ socket waits for
  replies   \* how many replies the client has received

serverVars == <<server, reqnum>>
clientVars == <<client, request, next, awaiting, replies>>
vars == <<serverVars, link, clientVars>>

Init ==
  /\ server = [s \in Servers |-> "starting"]
  /\ reqnum = [s \in Servers |-> 0]
  /\ link = [s \in Servers |-> "empty"]
  /\ client = "sending"
  /\ request = 0
  /\ next = 0
  /\ awaiting = NoServer
  /\ replies = 0

-----------------------------------------------------------------------------
(* A server.                                                               *)

bind(s) ==
  /\ server[s] = "starting"
  /\ server' = [server EXCEPT ![s] = "waiting"]
  /\ UNCHANGED <<reqnum, link, clientVars>>

recv(s) ==
  /\ server[s] = "waiting"
  /\ link[s] = "request"
  /\ server' = [server EXCEPT ![s] = "serving"]
  /\ link' = [link EXCEPT ![s] = "empty"]
  /\ UNCHANGED <<reqnum, clientVars>>

Alive == client \in {"sending", "receiving"}

\* A reply to a client that has gone is dropped.
send_string(s) ==
  /\ server[s] = "serving"
  /\ link' = [link EXCEPT ![s] = IF Alive THEN "reply" ELSE "empty"]
  /\ reqnum' = [reqnum EXCEPT ![s] = @ + 1]
  /\ server' = [server EXCEPT ![s] = IF reqnum'[s] = Serves THEN "ended" ELSE "waiting"]
  /\ UNCHANGED clientVars

-----------------------------------------------------------------------------
(* The client.                                                             *)

NextServer == (next + 1) % NumServers

\* The process ends, by itself or with an exception.  A request it has just
\* sent may have left it or not.
Leave ==
  \/ link' = [s \in Servers |-> IF link[s] = "reply" THEN "empty" ELSE link[s]]
  \/ link' = [s \in Servers |-> "empty"]

\* Mutant: a socket that may be sent to although a reply is due.
SendAnyway ==
  /\ client = "sending"
  /\ client' = "receiving"
  /\ link' = [link EXCEPT ![next] = "request"]
  /\ awaiting' = next
  /\ next' = NextServer
  /\ UNCHANGED <<serverVars, request, replies>>

\* send_string on the REQ socket.  It is outside of the try: when a reply is
\* due it raises EFSM, and the client dies.
Send ==
  /\ client = "sending"
  /\ \/ /\ awaiting = NoServer
        /\ client' = "receiving"
        /\ link' = [link EXCEPT ![next] = "request"]
        /\ awaiting' = next
        /\ next' = NextServer
     \/ /\ awaiting # NoServer
        /\ client' = "dead"
        /\ Leave
        /\ UNCHANGED <<awaiting, next>>
  /\ UNCHANGED <<serverVars, request, replies>>

\* The last iteration ends the process too.
NextIteration ==
  /\ request' = request + 1
  /\ client' = IF request' = Requests THEN "done" ELSE "sending"

\* recv with DONTWAIT, and zmq.Again when there is no reply yet.
Receive ==
  /\ client = "receiving"
  /\ NextIteration
  /\ \/ /\ link[awaiting] = "reply"
        /\ replies' = replies + 1
        /\ awaiting' = NoServer
        /\ link' = [link EXCEPT ![awaiting] = "empty"]
     \/ /\ link[awaiting] # "reply"
        /\ UNCHANGED <<replies, awaiting>>
        /\ IF client' = "done" THEN Leave ELSE UNCHANGED link
  /\ UNCHANGED <<serverVars, next>>

-----------------------------------------------------------------------------

ClientNext == Send \/ Receive
ServerNext(s) == bind(s) \/ recv(s) \/ send_string(s)

Next == ClientNext \/ \E s \in Servers : ServerNext(s)

Spec == Init /\ [][Next]_vars

-----------------------------------------------------------------------------
(* Properties.                                                             *)

\* The types of the variables.
TypeOK ==
  /\ server \in [Servers -> {"starting", "waiting", "serving", "ended"}]
  /\ reqnum \in [Servers -> Nat]
  /\ link \in [Servers -> {"empty", "request", "reply"}]
  /\ client \in {"sending", "receiving", "done", "dead"}
  /\ request \in 0 .. Requests
  /\ next \in Servers
  /\ awaiting \in Servers \cup {NoServer}
  /\ replies \in Nat

\* The first reply that is not there in time is the client's last: zmq.Again
\* is caught, but the next send raises.  So a client that has died, or got to
\* the end, lacks one reply at most, and that of its last request.
OneMissEnds ==
  /\ client \in {"sending", "done"} => request - replies \in 0 .. 1
  /\ client = "receiving" => request = replies
  /\ client = "dead" => request = replies + 1 /\ request < Requests

=============================================================================
