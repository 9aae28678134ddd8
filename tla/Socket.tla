------------------------------- MODULE Socket -------------------------------
(***************************************************************************)
(* ISocket (socket.cc): TCP connections between one client and the server  *)
(* of the same class, with a thread per connection on each side.  The      *)
(* classes derived from ISocket add the handlers; their modules extend     *)
(* this one.  Only the Windows build creates these threads.                *)
(*                                                                         *)
(* Every connection the client makes has a number.  A message is one       *)
(* element of the sequence of its direction.  A connection that breaks     *)
(* loses what is under way or lets it arrive; a send on it can still       *)
(* succeed.  recv returns parts of a stream, and a message cut in two is   *)
(* not recognised by the handlers: such a message is lost.                 *)
(***************************************************************************)
EXTENDS Integers, Sequences, FiniteSets

CONSTANTS
  MaxConns,   \* bound: the connections made
  MaxFaults   \* bound: broken connections, lost messages, failed connects

ASSUME SocketAssumption == MaxConns \in Nat /\ MaxFaults \in Nat

Conns == 1 .. MaxConns

VARIABLES
  link,               \* per connection: "unused", "up" or "down"
  toServer, toClient, \* per connection: the messages under way
  isAlive,            \* per connection: SocketParam::isAlive at the server
  m_clientSocketMap,  \* the connections in the server's map
  worker,             \* per connection: the server's thread
  sock,               \* the client's connection, 0 before the first
  thread,             \* the client's thread: "none", "run", "closed", "ended"
  faults

netVars    == <<link, toServer, toClient, faults>>
serverVars == <<isAlive, m_clientSocketMap, worker>>
clientVars == <<sock, thread>>
socketVars == <<netVars, serverVars, clientVars>>

SocketInit ==
  /\ link = [k \in Conns |-> "unused"]
  /\ toServer = [k \in Conns |-> <<>>] /\ toClient = [k \in Conns |-> <<>>]
  /\ isAlive = [k \in Conns |-> FALSE]
  /\ m_clientSocketMap = {}
  /\ worker = [k \in Conns |-> "none"]
  /\ sock = 0 /\ thread = "none" /\ faults = 0

-----------------------------------------------------------------------------
(* send and receive.                                                       *)

\* What send can return: an error only when the connection is broken.
SendResults(k) == IF link[k] = "up" THEN {TRUE} ELSE BOOLEAN

\* A queue after the messages ms were sent on connection k.
Sent(queue, k, ms) ==
  IF link[k] = "up" THEN [queue EXCEPT ![k] = @ \o ms] ELSE queue

\* receive returns a message, or an error once the connection is broken and
\* nothing more has arrived.  It returns 0 when m_timeout passes.
HasMessage(queue, k) == queue[k] # <<>>
ReceiveError(queue, k) == link[k] # "up" /\ queue[k] = <<>>
ReceiveTimeout(queue, k) == link[k] = "up" /\ queue[k] = <<>>
Consumed(queue, k) == [queue EXCEPT ![k] = Tail(@)]

-----------------------------------------------------------------------------
(* The client.                                                             *)

\* The connections in use are 1 .. Made.
Made == Cardinality({k \in Conns : link[k] # "unused"})

InsertClientSocket(k) == m_clientSocketMap' = m_clientSocketMap \cup {k}

\* execute at the server: accept, enter the connection in the map, start its
\* thread.
Accept(k) ==
  /\ isAlive' = [isAlive EXCEPT ![k] = TRUE]
  /\ InsertClientSocket(k)
  /\ worker' = [worker EXCEPT ![k] = "run"]

\* execute at the client: start socketConnectProc.
ClientExecute == thread' = "run"

\* connect at the client, when the connection is made.  The client's previous
\* handle was closed by removeClientSocket.
ConnectOK ==
  /\ Made < MaxConns
  /\ link' = [k \in Conns |-> CASE k = Made + 1 -> "up"
                                [] k = sock -> "down"
                                [] OTHER -> link[k]]
  /\ Accept(Made + 1)
  /\ sock' = Made + 1
  /\ ClientExecute
  /\ UNCHANGED <<toServer, toClient, faults>>

\* connect at the client, when it fails: the error is logged and no thread
\* is started.
ConnectFails ==
  /\ faults < MaxFaults
  /\ faults' = faults + 1
  /\ link' = [k \in Conns |-> IF k = sock THEN "down" ELSE link[k]]
  /\ thread' = "ended"
  /\ UNCHANGED <<toServer, toClient, serverVars, sock>>

\* The application connects the socket.
Connect == thread = "none" /\ (ConnectOK \/ ConnectFails)

\* socketConnectProc after the handler returned false: close the connection,
\* wait for the interval and connect once; the result is not looked at.
Reconnect == thread = "closed" /\ (ConnectOK \/ ConnectFails)

-----------------------------------------------------------------------------
(* The server's thread for connection k.                                   *)

\* receive at the server reports the end of the connection.
WorkerReceiveError(k) ==
  /\ worker[k] = "run"
  /\ ReceiveError(toServer, k)
  /\ isAlive' = [isAlive EXCEPT ![k] = FALSE]
  /\ worker' = [worker EXCEPT ![k] = "closed"]
  /\ UNCHANGED <<netVars, m_clientSocketMap, clientVars>>

RemoveClientSocket(k) == m_clientSocketMap' = m_clientSocketMap \ {k}

\* socketConnectProc at the server after the handler returned false.
WorkerEnds(k) ==
  /\ worker[k] = "closed"
  /\ RemoveClientSocket(k)
  /\ link' = [link EXCEPT ![k] = "down"]
  /\ worker' = [worker EXCEPT ![k] = "done"]
  /\ UNCHANGED <<toServer, toClient, faults, isAlive, clientVars>>

-----------------------------------------------------------------------------
(* The network.                                                            *)

Break(k) ==
  /\ link[k] = "up"
  /\ faults < MaxFaults
  /\ faults' = faults + 1
  /\ link' = [link EXCEPT ![k] = "down"]
  /\ \/ UNCHANGED <<toServer, toClient>>
     \/ /\ toServer' = [toServer EXCEPT ![k] = <<>>]
        /\ toClient' = [toClient EXCEPT ![k] = <<>>]
  /\ UNCHANGED <<serverVars, clientVars>>

\* The first message under way to the server, or to the client, is cut in two.
CutMessage(k) ==
  /\ faults < MaxFaults
  /\ faults' = faults + 1
  /\ \/ /\ HasMessage(toServer, k)
        /\ toServer' = Consumed(toServer, k)
        /\ UNCHANGED toClient
     \/ /\ HasMessage(toClient, k)
        /\ toClient' = Consumed(toClient, k)
        /\ UNCHANGED toServer
  /\ UNCHANGED <<link, serverVars, clientVars>>

-----------------------------------------------------------------------------
\* Type correctness; Messages is what the handlers exchange, Positions the
\* further states of a server thread.
SocketTypeOK(Messages, Positions) ==
  /\ link \in [Conns -> {"unused", "up", "down"}]
  /\ toServer \in [Conns -> Seq(Messages)]
  /\ toClient \in [Conns -> Seq(Messages)]
  /\ isAlive \in [Conns -> BOOLEAN]
  /\ m_clientSocketMap \subseteq Conns
  /\ worker \in [Conns -> {"none", "run", "closed", "done"} \cup Positions]
  /\ sock \in 0 .. MaxConns
  /\ thread \in {"none", "run", "closed", "ended"}
  /\ faults \in 0 .. MaxFaults

\* insertClientSocket, removeClientSocket: the server's map holds no
\* connection whose thread has ended, so that nothing is sent for it and
\* the map does not grow with the connections made.
NoStaleClients ==
  \A k \in Conns : worker[k] \in {"none", "done"} => k \notin m_clientSocketMap
=============================================================================
