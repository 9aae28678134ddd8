---------------------------- MODULE SocketProofs ----------------------------
(***************************************************************************)
(* Lemmas about Socket, for any messages M and any further positions P of  *)
(* the server's threads.  The proofs about the protocols that use sockets  *)
(* extend this module.                                                     *)
(***************************************************************************)
EXTENDS Socket, SequenceTheorems, FiniteSetTheorems, TLAPS

LEMMA SentQueue ==
  ASSUME NEW M, NEW q \in [Conns -> Seq(M)], NEW k \in Conns, NEW ms \in Seq(M)
  PROVE  Sent(q, k, ms) \in [Conns -> Seq(M)]
  <1>1. q[k] \o ms \in Seq(M)
    BY ConcatProperties
  <1>. QED  BY <1>1 DEF Sent

LEMMA ConsumedQueue ==
  ASSUME NEW M, NEW q \in [Conns -> Seq(M)], NEW k \in Conns, HasMessage(q, k)
  PROVE  /\ Consumed(q, k) \in [Conns -> Seq(M)]
         /\ Head(q[k]) \in M
         /\ Consumed(q, k)[k] = Tail(q[k])
         /\ \A j \in Conns : j # k => Consumed(q, k)[j] = q[j]
  <1>1. q[k] \in Seq(M) /\ q[k] # <<>>
    BY DEF HasMessage
  <1>2. Tail(q[k]) \in Seq(M) /\ Head(q[k]) \in M
    BY <1>1, HeadTailProperties
  <1>. QED  BY <1>1, <1>2 DEF Consumed

LEMMA MadeType ==
  Made \in Nat
  <1>1. IsFiniteSet(1 .. MaxConns)
    BY SocketAssumption, FS_Interval DEF SocketAssumption
  <1>2. IsFiniteSet({k \in Conns : link[k] # "unused"})
    BY <1>1, FS_Subset DEF Conns
  <1>. QED  BY <1>2, FS_CardinalityType DEF Made

\* The client's thread needs a connection to run on.
SockInUse == thread = "run" => sock \in Conns

\* A connection that is made is a connection of the model.
LEMMA ConnectSocketType ==
  ASSUME NEW M, NEW P, SocketTypeOK(M, P), ConnectOK \/ ConnectFails
  PROVE  /\ SocketTypeOK(M, P)' /\ SockInUse'
         /\ m_clientSocketMap \subseteq m_clientSocketMap'
  <1>1. CASE ConnectOK
    <2>1. Made + 1 \in Conns
      BY <1>1, MadeType, SocketAssumption DEF ConnectOK, SocketAssumption, Conns
    <2>2. link' \in [Conns -> {"unused", "up", "down"}]
      <3>1. link' = [k \in Conns |-> CASE k = Made + 1 -> "up"
                                       [] k = sock -> "down"
                                       [] OTHER -> link[k]]
        BY <1>1 DEF ConnectOK
      <3>2. \A k \in Conns : (CASE k = Made + 1 -> "up" [] k = sock -> "down"
                                [] OTHER -> link[k]) \in {"unused", "up", "down"}
        BY DEF SocketTypeOK
      <3>. QED  BY <3>1, <3>2
    <2>3. /\ isAlive' \in [Conns -> BOOLEAN]
          /\ m_clientSocketMap' = m_clientSocketMap \cup {Made + 1}
          /\ worker' \in [Conns -> {"none", "run", "closed", "done"} \cup P]
          /\ sock' = Made + 1 /\ thread' = "run"
      BY <1>1, <2>1 DEF ConnectOK, Accept, InsertClientSocket, ClientExecute,
         SocketTypeOK
    <2>4. UNCHANGED <<toServer, toClient, faults>>
      BY <1>1 DEF ConnectOK
    <2>5. sock' \in 0 .. MaxConns
      BY <2>1, <2>3 DEF Conns
    <2>. QED  BY <2>1, <2>2, <2>3, <2>4, <2>5 DEF SocketTypeOK, SockInUse
  <1>2. CASE ConnectFails
    BY <1>2, SocketAssumption DEF ConnectFails, SocketTypeOK, SockInUse,
       serverVars, SocketAssumption
  <1>. QED  BY <1>1, <1>2

LEMMA NetworkSocketType ==
  ASSUME NEW M, NEW P, SocketTypeOK(M, P), SockInUse,
         NEW k \in Conns, Break(k) \/ CutMessage(k)
  PROVE  SocketTypeOK(M, P)' /\ SockInUse' /\ UNCHANGED m_clientSocketMap
  <1>1. <<>> \in Seq(M)
    BY EmptySeq
  <1>2. ASSUME faults < MaxFaults, faults' = faults + 1
        PROVE  faults' \in 0 .. MaxFaults
    BY <1>2, SocketAssumption DEF SocketAssumption, SocketTypeOK
  <1>3. CASE Break(k)
    BY <1>1, <1>2, <1>3 DEF Break, SocketTypeOK, SockInUse, serverVars, clientVars
  <1>4. CASE CutMessage(k)
    <2>1. toServer \in [Conns -> Seq(M)] /\ toClient \in [Conns -> Seq(M)]
      BY DEF SocketTypeOK
    <2>2. HasMessage(toServer, k) => Consumed(toServer, k) \in [Conns -> Seq(M)]
      BY <2>1, ConsumedQueue
    <2>3. HasMessage(toClient, k) => Consumed(toClient, k) \in [Conns -> Seq(M)]
      BY <2>1, ConsumedQueue
    <2>4. toServer' \in [Conns -> Seq(M)] /\ toClient' \in [Conns -> Seq(M)]
      BY <1>4, <2>1, <2>2, <2>3 DEF CutMessage
    <2>. QED  BY <1>2, <1>4, <2>4
              DEF CutMessage, SocketTypeOK, SockInUse, serverVars, clientVars
  <1>. QED  BY <1>3, <1>4

LEMMA WorkerEndSocketType ==
  ASSUME NEW M, NEW P, SocketTypeOK(M, P), SockInUse,
         NEW k \in Conns, WorkerReceiveError(k) \/ WorkerEnds(k)
  PROVE  SocketTypeOK(M, P)' /\ SockInUse'
  BY DEF WorkerReceiveError, WorkerEnds, RemoveClientSocket, SocketTypeOK,
         SockInUse, netVars, clientVars
=============================================================================
