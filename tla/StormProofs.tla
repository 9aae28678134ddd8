----------------------------- MODULE StormProofs -----------------------------
(***************************************************************************)
(* Theorems about Storm, for any number of connections, faults, values and *)
(* requests.                                                               *)
(***************************************************************************)
EXTENDS Storm, SocketProofs

-----------------------------------------------------------------------------
(* Facts about messages and queues.                                        *)

Queues == [Conns -> Seq(Messages)]

LEMMA MessageTypes ==
  /\ Subscribe \in Messages /\ Success \in Messages
  /\ \A v \in 1 .. MaxValue : Update(v) \in Messages
  /\ \A n \in 1 .. MaxRequests : ChannelList(n) \in Messages
  BY DEF Messages

\* The kinds of message differ, and an update holds a value of the device.
LEMMA MessageKinds ==
  /\ \A v : Update(v) # Success
  /\ \A v : Update(v) \in Messages => v \in 1 .. MaxValue
  <1>1. ASSUME NEW v, NEW w PROVE Update(v) = Update(w) => v = w
    BY DEF Update
  <1>2. ASSUME NEW v, NEW n
        PROVE  /\ Update(v) # Success /\ Update(v) # Subscribe
               /\ Update(v) # ChannelList(n)
    BY DEF Update, Success, Subscribe, ChannelList
  <1>3. ASSUME NEW v, Update(v) \in Messages PROVE v \in 1 .. MaxValue
    <2>1. PICK w \in 1 .. MaxValue : Update(v) = Update(w)
      BY <1>2, <1>3 DEF Messages
    <2>. QED  BY <2>1, <1>1
  <1>. QED  BY <1>2, <1>3

LEMMA SentType ==
  ASSUME NEW q \in Queues, NEW k \in Conns, NEW ms \in Seq(Messages)
  PROVE  Sent(q, k, ms) \in Queues
  BY SentQueue DEF Queues

LEMMA ConsumedType ==
  ASSUME NEW q \in Queues, NEW k \in Conns, HasMessage(q, k)
  PROVE  /\ Consumed(q, k) \in Queues
         /\ Head(q[k]) \in Messages
         /\ Consumed(q, k)[k] = Tail(q[k])
         /\ \A j \in Conns : j # k => Consumed(q, k)[j] = q[j]
  BY ConsumedQueue DEF Queues

\* "Success" is under way in a queue.
HasSuccess(q) == \E i \in 1 .. Len(q) : q[i] = Success

LEMMA SuccessFacts ==
  ASSUME NEW q \in Seq(Messages), NEW m \in Messages
  PROVE  /\ ~HasSuccess(<<>>)
         /\ q # <<>> /\ HasSuccess(Tail(q)) => HasSuccess(q)
         /\ q # <<>> /\ Head(q) = Success => HasSuccess(q)
         /\ HasSuccess(Append(q, m)) => HasSuccess(q) \/ m = Success
         /\ HasSuccess(q \o <<m>>) => HasSuccess(q) \/ m = Success
  <1>1. ~HasSuccess(<<>>)
    BY EmptySeq, LenProperties DEF HasSuccess
  <1>2. ASSUME q # <<>>, HasSuccess(Tail(q)) PROVE HasSuccess(q)
    <2>1. Len(Tail(q)) = Len(q) - 1 /\ Len(q) \in Nat
          /\ \A i \in 1 .. Len(Tail(q)) : Tail(q)[i] = q[i + 1]
      BY <1>2, HeadTailProperties, LenProperties
    <2>2. PICK i \in 1 .. Len(Tail(q)) : Tail(q)[i] = Success
      BY <1>2 DEF HasSuccess
    <2>3. i + 1 \in 1 .. Len(q) /\ q[i + 1] = Success
      BY <2>1, <2>2
    <2>. QED  BY <2>3 DEF HasSuccess
  <1>3. ASSUME q # <<>>, Head(q) = Success PROVE HasSuccess(q)
    <2>1. 1 \in 1 .. Len(q) /\ q[1] = Success
      BY <1>3, HeadTailProperties, EmptySeq, LenProperties
    <2>. QED  BY <2>1 DEF HasSuccess
  <1>4. ASSUME HasSuccess(Append(q, m)) PROVE HasSuccess(q) \/ m = Success
    BY <1>4, AppendProperties, LenProperties DEF HasSuccess
  <1>5. q \o <<m>> = Append(q, m)
    BY AppendIsConcat
  <1>. QED  BY <1>1, <1>2, <1>3, <1>4, <1>5

-----------------------------------------------------------------------------
(* Type correctness.                                                       *)

TypeInv == TypeOK /\ SockInUse

\* The parts of TypeOK the socket actions change, the parts they leave alone.
OtherTypeOK ==
  /\ value \in 1 .. MaxValue /\ m_isChanged \in BOOLEAN
  /\ listening \in BOOLEAN
  /\ regist \in {"no", "pending", "sent", "success"}
  /\ confirmedOn \in 0 .. MaxConns
  /\ pc \in {"top", "clear", "recv", "again"}
  /\ stuck \in BOOLEAN
  /\ m_dataSendList \in Seq(Messages)
  /\ requested \in 0 .. MaxRequests /\ handedOver \in Nat /\ late \in Nat
  /\ callback \in {"no", "asked", "set"}
  /\ mirror \in -1 .. MaxValue /\ seen \in 0 .. MaxValue
  /\ missed \in 0 .. MaxValue
  /\ process \in {"running", "crashed"}

NetTypeOK == SocketTypeOK(Messages, {"reply"})

LEMMA TypeParts ==
  TypeInv <=> /\ config \in Configs /\ NetTypeOK /\ OtherTypeOK
              /\ subscribed \subseteq m_clientSocketMap /\ SockInUse
  BY DEF TypeInv, TypeOK, NetTypeOK, OtherTypeOK

LEMMA OtherUnchanged ==
  ASSUME OtherTypeOK, Other
  PROVE  OtherTypeOK' /\ UNCHANGED subscribed
  BY DEF OtherTypeOK, Other, channelVars, handlerVars, listVars, appVars

LEMMA NetUnchanged ==
  ASSUME NetTypeOK, SockInUse, UNCHANGED socketVars
  PROVE  /\ NetTypeOK' /\ SockInUse' /\ UNCHANGED m_clientSocketMap
         /\ UNCHANGED <<link, toServer, toClient, worker, sock, thread>>
  BY DEF NetTypeOK, SocketTypeOK, SockInUse, socketVars, netVars, serverVars,
         clientVars

LEMMA ConnectType ==
  ASSUME NetTypeOK, ConnectOK \/ ConnectFails
  PROVE  /\ NetTypeOK' /\ SockInUse'
         /\ m_clientSocketMap \subseteq m_clientSocketMap'
  BY ConnectSocketType DEF NetTypeOK

LEMMA NetworkType ==
  ASSUME NetTypeOK, SockInUse, NEW k \in Conns, Break(k) \/ CutMessage(k)
  PROVE  NetTypeOK' /\ SockInUse' /\ UNCHANGED m_clientSocketMap
  BY NetworkSocketType DEF NetTypeOK

LEMMA ConfigTypes ==
  ASSUME config \in Configs
  PROVE  config.requests \in 0 .. MaxRequests
  BY StormAssumption DEF StormAssumption, Config

LEMMA NextRequest ==
  ASSUME NEW a \in 0 .. MaxRequests, NEW b \in 0 .. MaxRequests, a < b
  PROVE  a + 1 \in 0 .. MaxRequests /\ a + 1 \in 1 .. MaxRequests
  BY StormAssumption DEF StormAssumption

\* Requests, values and the list keep their types at the client.
LEMMA ClientType ==
  ASSUME TypeInv,
         \/ SubscribeChannel \/ SetCallback \/ GetNodeInfoList \/ HandlerClear
         \/ RequestDue \/ ReceiveNothing \/ ReceiveFails
  PROVE  NetTypeOK' /\ OtherTypeOK' /\ SockInUse'
         /\ UNCHANGED <<subscribed, m_clientSocketMap>>
  <1> USE TypeParts DEF channelVars, handlerVars, listVars, appVars
  <1>1. CASE SubscribeChannel
    BY <1>1, NetUnchanged DEF SubscribeChannel, OtherTypeOK
  <1>2. CASE SetCallback
    BY <1>2, NetUnchanged DEF SetCallback, OtherTypeOK
  <1>3. CASE GetNodeInfoList
    <2>1. requested' \in 0 .. MaxRequests /\ requested + 1 \in 1 .. MaxRequests
      <3>1. requested \in 0 .. MaxRequests
        BY DEF OtherTypeOK
      <3>2. requested < config.requests /\ requested' = requested + 1
        BY <1>3 DEF GetNodeInfoList
      <3>3. config.requests \in 0 .. MaxRequests
        BY ConfigTypes
      <3>. QED  BY <3>1, <3>2, <3>3, NextRequest
    <2>2. m_dataSendList' \in Seq(Messages)
      BY <1>3, <2>1, MessageTypes, AppendProperties DEF GetNodeInfoList, OtherTypeOK
    <2>3. late' \in Nat
      BY <1>3 DEF GetNodeInfoList, OtherTypeOK
    <2>. QED  BY <1>3, <2>1, <2>2, <2>3, NetUnchanged
              DEF GetNodeInfoList, OtherTypeOK
  <1>4. CASE HandlerClear
    <2>1. m_dataSendList' \in Seq(Messages)
      BY <1>4, EmptySeq DEF HandlerClear
    <2>. QED  BY <1>4, <2>1, NetUnchanged DEF HandlerClear, OtherTypeOK
  <1>5. CASE RequestDue
    BY <1>5, NetUnchanged DEF RequestDue, OtherTypeOK
  <1>6. CASE ReceiveNothing
    BY <1>6, NetUnchanged DEF ReceiveNothing, OtherTypeOK
  <1>7. CASE ReceiveFails
    BY <1>7 DEF ReceiveFails, OtherTypeOK, NetTypeOK, SocketTypeOK, SockInUse,
       netVars, serverVars
  <1>. QED  BY <1>1, <1>2, <1>3, <1>4, <1>5, <1>6, <1>7

LEMMA HandlerSendType ==
  ASSUME TypeInv, HandlerSend
  PROVE  NetTypeOK' /\ OtherTypeOK' /\ SockInUse'
         /\ UNCHANGED <<subscribed, m_clientSocketMap>>
  <1> USE TypeParts DEF channelVars, handlerVars, listVars, appVars
  <1>1. sock \in Conns /\ toServer \in Queues
    BY DEF HandlerSend, SockInUse, NetTypeOK, SocketTypeOK, Queues
  <1> DEFINE request == IF regist = "pending" THEN <<Subscribe>> ELSE <<>>
  <1>2. request \o m_dataSendList \in Seq(Messages)
    <2>1. request \in Seq(Messages)
      BY MessageTypes, EmptySeq
    <2>. QED  BY <2>1, ConcatProperties DEF OtherTypeOK
  <1>3. toServer' \in Queues
    BY <1>1, <1>2, SentType DEF HandlerSend
  <1>4. /\ thread' \in {"closed", "run"} /\ pc' \in {"clear", "recv"}
        /\ handedOver' \in Nat /\ stuck' \in BOOLEAN
        /\ UNCHANGED <<m_dataSendList, requested, late>>
    <2>1. Len(m_dataSendList) \in Nat /\ handedOver \in Nat
      BY LenProperties DEF OtherTypeOK
    <2>2. /\ thread' \in {"closed", "run"} /\ pc' \in {"clear", "recv"}
          /\ handedOver' \in {handedOver, handedOver + Len(m_dataSendList)}
          /\ stuck' \in BOOLEAN
          /\ UNCHANGED <<m_dataSendList, requested, late>>
      BY DEF HandlerSend, SendFailed, OtherTypeOK
    <2>. QED  BY <2>1, <2>2
  <1>5. NetTypeOK' /\ SockInUse'
    BY <1>1, <1>3, <1>4 DEF HandlerSend, NetTypeOK, SocketTypeOK, SockInUse,
       serverVars, Queues
  <1>6. OtherTypeOK'
    BY <1>4 DEF HandlerSend, OtherTypeOK
  <1>. QED  BY <1>5, <1>6 DEF HandlerSend, serverVars

LEMMA ReceiveType ==
  ASSUME TypeInv, ReceiveUpdate \/ ReceiveSuccess
  PROVE  NetTypeOK' /\ OtherTypeOK' /\ SockInUse'
         /\ UNCHANGED <<subscribed, m_clientSocketMap>>
  <1> USE TypeParts DEF channelVars, handlerVars, listVars, appVars
  <1>1. /\ sock \in Conns /\ HasMessage(toClient, sock)
        /\ toClient' = Consumed(toClient, sock)
        /\ UNCHANGED <<link, toServer, faults, serverVars, clientVars>>
        /\ UNCHANGED <<subscribed, value, m_isChanged, listening, stuck, callback>>
        /\ UNCHANGED <<m_dataSendList, requested, handedOver, late>>
        /\ pc' = "again"
    BY DEF ReceiveUpdate, ReceiveSuccess, SockInUse
  <1>2. toClient' \in Queues /\ Head(toClient[sock]) \in Messages
    BY <1>1, ConsumedType DEF NetTypeOK, SocketTypeOK, Queues
  <1>3. NetTypeOK' /\ SockInUse' /\ UNCHANGED m_clientSocketMap
    BY <1>1, <1>2 DEF NetTypeOK, SocketTypeOK, SockInUse, Queues, serverVars,
       clientVars
  <1>4. CASE ReceiveUpdate
    <2>1. PICK v : Head(toClient[sock]) = Update(v) /\ Mirror(v) /\ Callback(v)
      BY <1>4 DEF ReceiveUpdate
    <2>2. v \in 1 .. MaxValue
      BY <1>2, <2>1, MessageKinds
    <2>3. mirror' \in -1 .. MaxValue /\ process' \in {"running", "crashed"}
      BY <2>1, <2>2, StormAssumption
         DEF Mirror, NewMirror, SetMirror, OtherTypeOK, StormAssumption
    <2>4. v \in 0 .. MaxValue
      BY <2>2
    <2>5. seen' \in 0 .. MaxValue /\ missed' \in 0 .. MaxValue
      BY <2>1, <2>4, Zenon DEF Callback, OtherTypeOK
    <2>. QED  BY <1>1, <1>3, <1>4, <2>3, <2>5 DEF ReceiveUpdate, OtherTypeOK
  <1>5. CASE ReceiveSuccess
    BY <1>1, <1>3, <1>5 DEF ReceiveSuccess, OtherTypeOK, NetTypeOK, SocketTypeOK
  <1>. QED  BY <1>4, <1>5

\* The server's threads keep its map and its queues in their types.
LEMMA WorkerType ==
  ASSUME TypeInv, NEW k \in Conns,
         WorkerSubscribe(k) \/ WorkerReply(k) \/ WorkerIgnore(k)
  PROVE  /\ NetTypeOK' /\ OtherTypeOK' /\ SockInUse'
         /\ subscribed' \subseteq m_clientSocketMap'
  <1> USE TypeParts DEF channelVars, handlerVars, listVars, appVars
  <1>1. toServer \in Queues /\ toClient \in Queues
    BY DEF NetTypeOK, SocketTypeOK, Queues
  <1>2. HasMessage(toServer, k) => Consumed(toServer, k) \in Queues
    BY <1>1, ConsumedType
  <1>3. CASE WorkerSubscribe(k)
    <2>1. toServer' \in Queues
      BY <1>2, <1>3 DEF WorkerSubscribe
    <2>2. /\ m_clientSocketMap' \subseteq Conns
          /\ subscribed' \subseteq m_clientSocketMap'
      BY <1>3 DEF WorkerSubscribe, InsertSubscribeChannel, NetTypeOK, SocketTypeOK
    <2>3. NetTypeOK' /\ SockInUse'
      BY <1>3, <2>1, <2>2 DEF WorkerSubscribe, NetTypeOK, SocketTypeOK, SockInUse,
         Queues, clientVars
    <2>4. OtherTypeOK'
      BY <1>3 DEF WorkerSubscribe, OtherTypeOK
    <2>. QED  BY <2>2, <2>3, <2>4
  <1>4. CASE WorkerReply(k)
    <2>1. <<Success>> \in Seq(Messages)
      BY MessageTypes
    <2>2. toClient' \in Queues
      BY <1>1, <1>4, <2>1, SentType DEF WorkerReply
    <2>3. worker' \in [Conns -> {"none", "run", "closed", "done"} \cup {"reply"}]
      BY <1>4 DEF WorkerReply, NetTypeOK, SocketTypeOK
    <2>4. NetTypeOK' /\ SockInUse'
      BY <1>4, <2>2, <2>3 DEF WorkerReply, NetTypeOK, SocketTypeOK, SockInUse,
         Queues, clientVars
    <2>5. listening' \in BOOLEAN /\ m_isChanged' \in BOOLEAN
      BY <1>4, Zenon DEF WorkerReply, ChannelSubscribe, OtherTypeOK
    <2>6. OtherTypeOK'
      BY <1>4, <2>5 DEF WorkerReply, OtherTypeOK
    <2>. QED  BY <1>4, <2>4, <2>6 DEF WorkerReply
  <1>5. CASE WorkerIgnore(k)
    <2>1. toServer' \in Queues
      BY <1>2, <1>5 DEF WorkerIgnore
    <2>2. NetTypeOK' /\ SockInUse'
      BY <1>5, <2>1 DEF WorkerIgnore, NetTypeOK, SocketTypeOK, SockInUse,
         Queues, clientVars, serverVars
    <2>3. OtherTypeOK'
      BY <1>5 DEF WorkerIgnore, OtherTypeOK
    <2>. QED  BY <1>5, <2>2, <2>3 DEF WorkerIgnore, serverVars
  <1>. QED  BY <1>3, <1>4, <1>5

LEMMA WorkerEndType ==
  ASSUME TypeInv, NEW k \in Conns, WorkerClosed(k) \/ WorkerExit(k)
  PROVE  /\ NetTypeOK' /\ OtherTypeOK' /\ SockInUse'
         /\ subscribed' \subseteq m_clientSocketMap'
  <1> USE TypeParts DEF channelVars, handlerVars, listVars, appVars
  <1>1. OtherTypeOK'
    BY DEF WorkerClosed, WorkerExit, OtherTypeOK
  <1>2. CASE WorkerClosed(k)
    BY <1>1, <1>2 DEF WorkerClosed, WorkerReceiveError, NetTypeOK, SocketTypeOK,
       SockInUse, netVars, clientVars
  <1>3. CASE WorkerExit(k)
    BY <1>1, <1>3 DEF WorkerExit, WorkerEnds, RemoveClientSocket, NetTypeOK,
       SocketTypeOK, SockInUse, clientVars
  <1>. QED  BY <1>2, <1>3

LEMMA PollType ==
  ASSUME TypeInv, PollUpdate \/ Change
  PROVE  /\ NetTypeOK' /\ OtherTypeOK' /\ SockInUse'
         /\ subscribed' \subseteq m_clientSocketMap'
  <1> USE TypeParts DEF channelVars, handlerVars, listVars, appVars
  <1>1. CASE PollUpdate
    <2>1. \A q \in Seq(Messages) : Forward(q) \in Seq(Messages)
      BY MessageTypes, AppendProperties DEF Forward, OtherTypeOK
    <2>2. PICK targets, failed :
            /\ m_clientSocketMap' = m_clientSocketMap \ failed
            /\ subscribed' = subscribed \ failed
            /\ toClient' = [k \in Conns |->
                              IF k \in targets /\ link[k] = "up"
                              THEN Forward(toClient[k])
                              ELSE toClient[k]]
      BY <1>1 DEF PollUpdate
    <2>3. \A k \in Conns : toClient[k] \in Seq(Messages)
      BY DEF NetTypeOK, SocketTypeOK
    <2>4. toClient' \in Queues
      BY <2>1, <2>2, <2>3 DEF Queues
    <2>5. NetTypeOK' /\ SockInUse' /\ subscribed' \subseteq m_clientSocketMap'
      BY <1>1, <2>2, <2>4 DEF PollUpdate, NetTypeOK, SocketTypeOK, SockInUse,
         Queues, clientVars
    <2>6. OtherTypeOK'
      BY <1>1 DEF PollUpdate, OtherTypeOK
    <2>. QED  BY <2>5, <2>6
  <1>2. CASE Change
    <2>1. value' \in 1 .. MaxValue
      BY <1>2, StormAssumption DEF Change, OtherTypeOK, StormAssumption
    <2>2. OtherTypeOK'
      BY <1>2, <2>1 DEF Change, OtherTypeOK
    <2>. QED  BY <1>2, <2>2, NetUnchanged DEF Change
  <1>. QED  BY <1>1, <1>2

LEMMA ReconnectType ==
  ASSUME TypeInv, ClientReconnect
  PROVE  /\ NetTypeOK' /\ OtherTypeOK' /\ SockInUse'
         /\ subscribed' \subseteq m_clientSocketMap'
  <1> USE TypeParts DEF channelVars, handlerVars, listVars, appVars
  <1>1. ConnectOK \/ ConnectFails
    BY DEF ClientReconnect, Reconnect
  <1>2. OtherTypeOK' /\ UNCHANGED subscribed
    BY DEF ClientReconnect, OtherTypeOK
  <1>. QED  BY <1>1, <1>2, ConnectType

LEMMA TypeInitially ==
  ASSUME Init
  PROVE  TypeInv
  <1>1. <<>> \in Seq(Messages)
    BY EmptySeq
  <1>2. NetTypeOK /\ SockInUse
    BY <1>1, SocketAssumption DEF Init, SocketInit, NetTypeOK, SocketTypeOK,
       SockInUse, SocketAssumption
  <1>3. /\ value \in 1 .. MaxValue /\ mirror \in -1 .. MaxValue
        /\ confirmedOn \in 0 .. MaxConns /\ seen \in 0 .. MaxValue
        /\ missed \in 0 .. MaxValue
        /\ requested \in 0 .. MaxRequests /\ handedOver \in Nat /\ late \in Nat
    BY SocketAssumption, StormAssumption DEF Init, None, SocketAssumption,
       StormAssumption
  <1>4. OtherTypeOK
    BY <1>1, <1>3, Zenon DEF Init, OtherTypeOK
  <1>. QED  BY <1>2, <1>4, TypeParts DEF Init, SocketInit

LEMMA TypeStep ==
  ASSUME TypeInv, [Next]_vars
  PROVE  TypeInv'
  <1> USE TypeParts
  <1>1. config' \in Configs
    BY DEF Next, Run, vars
  <1>2. SUFFICES /\ NetTypeOK' /\ OtherTypeOK' /\ SockInUse'
                 /\ subscribed' \subseteq m_clientSocketMap'
    BY <1>1 DEF TypeInv, TypeOK, NetTypeOK, OtherTypeOK
  <1>3. CASE UNCHANGED vars
    BY <1>3, NetUnchanged, OtherUnchanged DEF vars, Other
  <1>4. CASE Connect /\ Other
    BY <1>4, ConnectType, OtherUnchanged DEF Connect
  <1>5. CASE SubscribeChannel \/ SetCallback \/ GetNodeInfoList
    BY <1>5, ClientType
  <1>6. CASE HandlerSend
    BY <1>6, HandlerSendType
  <1>7. CASE HandlerClear \/ RequestDue \/ ReceiveNothing \/ ReceiveFails
    BY <1>7, ClientType
  <1>8. CASE ReceiveUpdate \/ ReceiveSuccess
    BY <1>8, ReceiveType
  <1>9. CASE ClientReconnect
    BY <1>9, ReconnectType
  <1>10. CASE \E k \in Conns : WorkerSubscribe(k) \/ WorkerReply(k) \/ WorkerIgnore(k)
    BY <1>10, WorkerType
  <1>11. CASE \E k \in Conns : WorkerClosed(k) \/ WorkerExit(k)
    BY <1>11, WorkerEndType
  <1>12. CASE PollUpdate \/ Change
    BY <1>12, PollType
  <1>13. CASE \E k \in Conns : (Break(k) \/ CutMessage(k)) /\ Other
    BY <1>13, NetworkType, OtherUnchanged
  <1>. QED  BY <1>3, <1>4, <1>5, <1>6, <1>7, <1>8, <1>9, <1>10, <1>11, <1>12,
               <1>13 DEF Next, Run

\* The variables of the sockets, of the server and of the client's handler
\* keep their types, and the server has no channel entered for a connection
\* that is not in its map.
THEOREM StormTypeCorrect == Spec => []TypeOK
  <1>1. TypeInv /\ UNCHANGED vars => TypeInv'
    BY TypeStep
  <1>2. TypeInv => TypeOK
    BY DEF TypeInv
  <1>. QED  BY TypeInitially, TypeStep, <1>2, PTL DEF Spec

-----------------------------------------------------------------------------
(* Requests.                                                               *)

\* RequestsKept is not inductive: HandlerClear empties the list, and all of
\* it must have been sent or added since by then; and it is the thread that is
\* to clear the list, and no other, that can be interrupted there.
RequestsInv ==
  /\ TypeInv
  /\ RequestsKept
  /\ pc = "clear" => thread = "run" /\ handedOver + late = requested

LEMMA RequestsStep ==
  ASSUME RequestsInv, [Next]_vars
  PROVE  RequestsInv'
  <1>1. TypeInv /\ TypeInv'
    BY TypeStep DEF RequestsInv
  <1>2. /\ requested \in Nat /\ handedOver \in Nat /\ late \in Nat
        /\ m_dataSendList \in Seq(Messages) /\ Len(m_dataSendList) \in Nat
    BY <1>1, LenProperties DEF TypeInv, TypeOK
  <1> USE <1>2 DEF RequestsInv, RequestsKept
  <1>3. CASE /\ UNCHANGED <<m_dataSendList, requested, handedOver, late>>
             /\ \/ pc' = pc /\ (pc = "clear" => thread' = thread)
                \/ pc # "clear" /\ pc' # "clear"
    BY <1>1, <1>3
  <1>4. CASE GetNodeInfoList
    <2>1. Len(m_dataSendList') = Len(m_dataSendList) + 1
      BY <1>4, AppendProperties DEF GetNodeInfoList
    <2>2. /\ requested' = requested + 1 /\ handedOver' = handedOver
          /\ pc' = pc /\ thread' = thread
      BY <1>4 DEF GetNodeInfoList, handlerVars, socketVars, clientVars
    <2>3. late' = IF pc = "clear" THEN late + 1 ELSE late
      BY <1>4 DEF GetNodeInfoList
    <2>4. CASE pc = "clear"
      BY <1>1, <2>2, <2>3, <2>4
    <2>5. CASE pc # "clear"
      BY <1>1, <2>1, <2>2, <2>3, <2>5
    <2>. QED  BY <2>4, <2>5
  <1>5. CASE HandlerSend
    <2>1. /\ thread = "run" /\ pc # "clear" /\ UNCHANGED <<requested, late>>
          /\ \/ /\ pc' = "clear" /\ thread' = thread
                /\ handedOver' = handedOver + Len(m_dataSendList)
             \/ pc' = "recv" /\ UNCHANGED <<m_dataSendList, handedOver>>
      BY <1>5 DEF HandlerSend, SendFailed, listVars
    <2>. QED  BY <1>1, <2>1
  <1>6. CASE HandlerClear
    <2>1. /\ Len(m_dataSendList') = 0 /\ pc = "clear" /\ pc' = "recv"
          /\ UNCHANGED <<requested, handedOver, late>>
      BY <1>6, EmptySeq DEF HandlerClear
    <2>. QED  BY <1>1, <2>1
  <1>7. ASSUME ~GetNodeInfoList, ~HandlerSend, ~HandlerClear
        PROVE  /\ UNCHANGED <<m_dataSendList, requested, handedOver, late>>
               /\ \/ pc' = pc /\ (pc = "clear" => thread' = thread)
                  \/ pc # "clear" /\ pc' # "clear"
    <2> USE DEF listVars, handlerVars, socketVars, clientVars
    <2>1. CASE UNCHANGED vars
      BY <2>1 DEF vars
    <2>2. CASE \E k \in Conns :
                 \/ WorkerSubscribe(k) \/ WorkerReply(k) \/ WorkerIgnore(k)
                 \/ WorkerClosed(k) \/ WorkerExit(k)
                 \/ (Break(k) \/ CutMessage(k)) /\ Other
      BY <2>2 DEF WorkerSubscribe, WorkerReply, WorkerIgnore, WorkerClosed,
         WorkerReceiveError, WorkerExit, WorkerEnds, Break, CutMessage, Other
    <2>3. CASE Connect /\ Other
      BY <2>3 DEF Connect, Other
    <2>4. CASE SubscribeChannel \/ SetCallback \/ RequestDue \/ PollUpdate \/ Change
      BY <2>4 DEF SubscribeChannel, SetCallback, RequestDue, PollUpdate, Change
    <2>5. CASE ReceiveUpdate \/ ReceiveSuccess \/ ReceiveNothing \/ ReceiveFails
      BY <2>5 DEF ReceiveUpdate, ReceiveSuccess, ReceiveNothing, ReceiveFails
    <2>6. CASE ClientReconnect
      BY <2>6 DEF ClientReconnect, Reconnect
    <2>. QED  BY <1>7, <2>1, <2>2, <2>3, <2>4, <2>5, <2>6 DEF Next, Run
  <1>. QED  BY <1>3, <1>4, <1>5, <1>6, <1>7

\* Every request is handed to the socket once or still in m_dataSendList, over
\* any number of failed sends and reconnections; those that addSendData adds
\* between the sending and the clearing are lost, and no other is.
THEOREM RequestsAreKept == Spec => []RequestsKept
  <1>1. ASSUME Init PROVE RequestsInv
    <2>1. /\ Len(m_dataSendList) = 0 /\ requested = 0 /\ handedOver = 0
          /\ late = 0 /\ pc = "top"
      BY <1>1, EmptySeq DEF Init
    <2>. QED  BY <1>1, <2>1, TypeInitially DEF RequestsInv, RequestsKept
  <1>2. RequestsInv => RequestsKept
    BY DEF RequestsInv
  <1>. QED  BY <1>1, <1>2, RequestsStep, PTL DEF Spec

-----------------------------------------------------------------------------
(* The server's map of connections.                                        *)

LEMMA NoStaleStep ==
  ASSUME TypeInv, NoStaleClients, [Next]_vars
  PROVE  NoStaleClients'
  <1>1. /\ worker \in [Conns -> {"none", "run", "closed", "done", "reply"}]
        /\ m_clientSocketMap \subseteq Conns
    BY DEF TypeInv, TypeOK, SocketTypeOK
  <1> USE <1>1 DEF NoStaleClients
  <1>2. CASE UNCHANGED worker /\ m_clientSocketMap' \subseteq m_clientSocketMap
    BY <1>2
  <1>3. CASE ConnectOK
    <2>1. Made + 1 \in Conns
      BY <1>3, MadeType, SocketAssumption DEF ConnectOK, SocketAssumption, Conns
    <2>. QED  BY <1>3, <2>1 DEF ConnectOK, Accept, InsertClientSocket
  <1>4. CASE \E k \in Conns : WorkerSubscribe(k) \/ WorkerReply(k)
    BY <1>4 DEF WorkerSubscribe, InsertSubscribeChannel, WorkerReply
  <1>5. CASE \E k \in Conns : WorkerClosed(k) \/ WorkerExit(k)
    BY <1>5 DEF WorkerClosed, WorkerReceiveError, WorkerExit, WorkerEnds,
       RemoveClientSocket
  <1>6. ASSUME ~ConnectOK,
               \A k \in Conns : /\ ~WorkerSubscribe(k) /\ ~WorkerReply(k)
                                /\ ~WorkerClosed(k) /\ ~WorkerExit(k)
        PROVE  UNCHANGED worker /\ m_clientSocketMap' \subseteq m_clientSocketMap
    <2> USE DEF socketVars, netVars, serverVars, clientVars
    <2>1. CASE UNCHANGED vars
      BY <2>1 DEF vars
    <2>2. CASE PollUpdate
      BY <2>2 DEF PollUpdate
    <2>3. CASE ConnectFails
      BY <2>3 DEF ConnectFails
    <2>4. CASE \E k \in Conns : WorkerIgnore(k) \/ Break(k) \/ CutMessage(k)
      BY <2>4 DEF WorkerIgnore, Break, CutMessage
    <2>5. CASE \/ SubscribeChannel \/ SetCallback \/ GetNodeInfoList
               \/ HandlerClear \/ RequestDue \/ ReceiveNothing \/ Change
      BY <2>5 DEF SubscribeChannel, SetCallback, GetNodeInfoList, HandlerClear,
         RequestDue, ReceiveNothing, Change
    <2>6. CASE HandlerSend \/ ReceiveUpdate \/ ReceiveSuccess \/ ReceiveFails
      BY <2>6 DEF HandlerSend, ReceiveUpdate, ReceiveSuccess, ReceiveFails
    <2>. QED  BY <1>6, <2>1, <2>2, <2>3, <2>4, <2>5, <2>6
              DEF Next, Run, Connect, ClientReconnect, Reconnect
  <1>. QED  BY <1>2, <1>3, <1>4, <1>5, <1>6

\* The server's map never holds a connection whose thread has ended, however
\* often clients come and go: it does not grow with the connections made.
THEOREM MapHoldsNoStaleClient == Spec => []NoStaleClients
  <1>1. Init => NoStaleClients
    BY DEF Init, SocketInit, NoStaleClients
  <1>. QED  BY <1>1, TypeInitially, TypeStep, NoStaleStep, PTL DEF Spec

-----------------------------------------------------------------------------
(* What "Success" means.                                                   *)

\* Connections are numbered in the order in which they are made.
InOrder ==
  \E n \in 0 .. MaxConns : \A k \in Conns : link[k] # "unused" <=> k <= n

\* Nothing is known of a connection before it is made, and on one that lasts
\* an answer is under way, or came, only when the server has entered it.
ConnInv(k) ==
  /\ link[k] = "unused" => /\ toClient[k] = <<>> /\ worker[k] = "none"
                           /\ confirmedOn # k /\ sock # k
  /\ config.exists /\ link[k] = "up" =>
       /\ worker[k] = "reply" => k \in subscribed
       /\ HasSuccess(toClient[k]) \/ confirmedOn = k
            => k \in subscribed /\ listening

\* Confirmed is not inductive: the answer is sent, and received, long after
\* the connection was entered, and a number is used for one connection only.
ConfirmedInv == TypeInv /\ InOrder /\ \A k \in Conns : ConnInv(k)

LEMMA MadeCounts ==
  ASSUME NEW n \in 0 .. MaxConns,
         \A k \in Conns : link[k] # "unused" <=> k <= n
  PROVE  Made = n
  <1>1. {k \in Conns : link[k] # "unused"} = 1 .. n
    BY SocketAssumption DEF Conns, SocketAssumption
  <1>2. Cardinality(1 .. n) = n
    BY FS_Interval
  <1>. QED  BY <1>1, <1>2 DEF Made

\* A step that takes nothing from connection k and promises nothing on it.
LEMMA Quiet ==
  ASSUME NEW k \in Conns, ConnInv(k), UNCHANGED <<config, confirmedOn>>,
         link'[k] = link[k] \/ (link[k] # "unused" /\ link'[k] = "down"),
         link[k] = "unused" => /\ toClient'[k] = toClient[k]
                               /\ worker'[k] = worker[k] /\ sock' # k,
         worker'[k] = "reply" => worker[k] = "reply",
         HasSuccess(toClient'[k]) => HasSuccess(toClient[k]),
         link'[k] = "up" /\ k \in subscribed => k \in subscribed',
         listening => listening'
  PROVE  ConnInv(k)'
  BY DEF ConnInv, HasSuccess

\* A connection that is made is new.
LEMMA ConnectConfirmed ==
  ASSUME ConfirmedInv, ConnectOK \/ ConnectFails,
         UNCHANGED <<config, confirmedOn, subscribed, listening>>
  PROVE  InOrder' /\ \A k \in Conns : ConnInv(k)'
  <1>1. PICK n \in 0 .. MaxConns : \A k \in Conns : link[k] # "unused" <=> k <= n
    BY DEF ConfirmedInv, InOrder
  <1>2. Made = n
    BY <1>1, MadeCounts
  <1>3. CASE ConnectOK
    <2>1. n + 1 \in Conns /\ link[n + 1] = "unused"
      BY <1>1, <1>2, <1>3, SocketAssumption DEF ConnectOK, SocketAssumption, Conns
    <2>2. sock # n + 1 /\ ConnInv(n + 1)
      BY <2>1 DEF ConfirmedInv, ConnInv
    <2>3. \A k \in Conns : link'[k] = IF k = n + 1 THEN "up"
                                      ELSE IF k = sock THEN "down" ELSE link[k]
      BY <1>2, <1>3, <2>2 DEF ConnectOK
    <2>4. \A k \in Conns : k = sock => link[k] # "unused"
      BY DEF ConfirmedInv, ConnInv
    <2>5. InOrder'
      <3>1. \A k \in Conns : link'[k] # "unused" <=> k <= n + 1
        BY <1>1, <2>3, <2>4 DEF Conns
      <3>2. n + 1 \in 0 .. MaxConns
        BY <2>1 DEF Conns
      <3>. QED  BY <3>1, <3>2 DEF InOrder
    <2>6. /\ worker' = [worker EXCEPT ![n + 1] = "run"] /\ sock' = n + 1
          /\ UNCHANGED toClient
      BY <1>2, <1>3 DEF ConnectOK, Accept
    <2>7. worker \in [Conns -> {"none", "run", "closed", "done", "reply"}]
      BY DEF ConfirmedInv, TypeInv, TypeOK, SocketTypeOK
    <2>8. ASSUME NEW k \in Conns PROVE ConnInv(k)'
      <3>1. CASE k = n + 1
        <4>1. toClient'[k] = <<>> /\ worker'[k] = "run" /\ confirmedOn' # k
              /\ link'[k] = "up"
          BY <2>1, <2>2, <2>3, <2>6, <2>7, <3>1 DEF ConnInv
        <4>2. ~HasSuccess(toClient'[k])
          BY <4>1, EmptySeq DEF HasSuccess
        <4>. QED  BY <4>1, <4>2 DEF ConnInv, HasSuccess
      <3>2. CASE k # n + 1
        <4>1. /\ worker'[k] = worker[k] /\ toClient'[k] = toClient[k] /\ sock' # k
              /\ link'[k] = link[k] \/ (link[k] # "unused" /\ link'[k] = "down")
          BY <2>3, <2>4, <2>6, <2>7, <3>2
        <4>. QED  BY <4>1, Quiet DEF ConfirmedInv
      <3>. QED  BY <3>1, <3>2
    <2>. QED  BY <2>5, <2>8
  <1>4. CASE ConnectFails
    <2>1. \A k \in Conns : k = sock => link[k] # "unused"
      BY DEF ConfirmedInv, ConnInv
    <2>2. \A k \in Conns : link'[k] = IF k = sock THEN "down" ELSE link[k]
      BY <1>4 DEF ConnectFails
    <2>3. InOrder'
      BY <1>1, <2>1, <2>2 DEF InOrder
    <2>4. UNCHANGED <<toClient, worker, sock>>
      BY <1>4 DEF ConnectFails, serverVars
    <2>5. ASSUME NEW k \in Conns PROVE ConnInv(k)'
      <3>1. link[k] = "unused" => sock # k
        BY <2>1
      <3>. QED  BY <2>1, <2>2, <2>4, <3>1, Quiet DEF ConfirmedInv
    <2>. QED  BY <2>3, <2>5
  <1>. QED  BY <1>3, <1>4

\* A step that leaves the connections' links alone, or ends one of them.
LEMMA InOrderKept ==
  ASSUME InOrder,
         \A k \in Conns : link'[k] # "unused" <=> link[k] # "unused"
  PROVE  InOrder'
  BY DEF InOrder

\* The network only takes away.
LEMMA NetworkConfirmed ==
  ASSUME ConfirmedInv, NEW j \in Conns, Break(j) \/ CutMessage(j), Other,
         UNCHANGED config
  PROVE  InOrder' /\ \A k \in Conns : ConnInv(k)'
  <1>1. /\ link \in [Conns -> {"unused", "up", "down"}]
        /\ toClient \in Queues
        /\ UNCHANGED <<worker, sock, confirmedOn, subscribed, listening>>
    BY DEF ConfirmedInv, TypeInv, TypeOK, SocketTypeOK, Queues, Break,
       CutMessage, serverVars, clientVars, Other, handlerVars, channelVars
  <1>2. \A k \in Conns :
          link'[k] = link[k] \/ (link[k] # "unused" /\ link'[k] = "down")
    BY <1>1 DEF Break, CutMessage
  <1>3. ASSUME NEW k \in Conns
        PROVE  /\ HasSuccess(toClient'[k]) => HasSuccess(toClient[k])
               /\ link[k] = "unused" => toClient'[k] = toClient[k]
    <2>1. ~HasSuccess(<<>>)
      BY EmptySeq DEF HasSuccess
    <2>2. CASE UNCHANGED toClient
      BY <2>2
    <2>3. CASE toClient' = [toClient EXCEPT ![j] = <<>>] /\ link[j] = "up"
      BY <1>1, <2>1, <2>3 DEF Queues
    <2>4. CASE HasMessage(toClient, j) /\ toClient' = Consumed(toClient, j)
      <3>1. /\ toClient'[j] = Tail(toClient[j])
            /\ \A i \in Conns : i # j => toClient'[i] = toClient[i]
        BY <1>1, <2>4, ConsumedType
      <3>2. toClient[j] \in Seq(Messages) /\ toClient[j] # <<>>
        BY <1>1, <2>4 DEF Queues, HasMessage
      <3>3. HasSuccess(Tail(toClient[j])) => HasSuccess(toClient[j])
        BY <3>2, MessageTypes, SuccessFacts
      <3>4. link[j] # "unused"
        BY <3>2 DEF ConfirmedInv, ConnInv
      <3>. QED  BY <3>1, <3>3, <3>4
    <2>. QED  BY <2>2, <2>3, <2>4 DEF Break, CutMessage
  <1>4. ASSUME NEW k \in Conns PROVE ConnInv(k)'
    <2>1. ConnInv(k)
      BY DEF ConfirmedInv
    <2>2. link[k] = "unused" => sock # k
      BY <2>1 DEF ConnInv
    <2>. QED  BY <1>1, <1>2, <1>3, <2>1, <2>2, Quiet
  <1>5. \A k \in Conns : link'[k] # "unused" <=> link[k] # "unused"
    BY <1>2
  <1>. QED  BY <1>4, <1>5, InOrderKept DEF ConfirmedInv

\* The client's steps, of which ReceiveSuccess takes the answer.
LEMMA ClientConfirmed ==
  ASSUME ConfirmedInv, UNCHANGED config,
         \/ SubscribeChannel \/ SetCallback \/ GetNodeInfoList \/ HandlerSend
         \/ HandlerClear \/ RequestDue \/ ReceiveUpdate \/ ReceiveSuccess
         \/ ReceiveNothing \/ ReceiveFails
  PROVE  InOrder' /\ \A k \in Conns : ConnInv(k)'
  <1> USE DEF socketVars, netVars, serverVars, clientVars, channelVars,
              handlerVars
  <1>1. /\ UNCHANGED <<link, worker, sock, subscribed, listening>>
        /\ confirmedOn' = confirmedOn \/ ReceiveSuccess
        /\ toClient' = toClient \/ ReceiveUpdate \/ ReceiveSuccess
    BY DEF SubscribeChannel, SetCallback, GetNodeInfoList, HandlerSend,
       HandlerClear, RequestDue, ReceiveUpdate, ReceiveSuccess, ReceiveNothing,
       ReceiveFails
  <1>2. InOrder'
    BY <1>1, InOrderKept DEF ConfirmedInv
  <1>3. ASSUME NEW k \in Conns PROVE ConnInv(k)'
    <2>1. ConnInv(k)
      BY DEF ConfirmedInv
    <2>2. CASE UNCHANGED <<toClient, confirmedOn>>
      BY <1>1, <2>1, <2>2 DEF ConnInv, HasSuccess
    <2>3. CASE ReceiveUpdate \/ ReceiveSuccess
      <3>1. /\ sock \in Conns /\ HasMessage(toClient, sock)
            /\ toClient' = Consumed(toClient, sock)
        BY <2>3 DEF ReceiveUpdate, ReceiveSuccess, ConfirmedInv, TypeInv,
           SockInUse
      <3>2. toClient \in Queues
        BY DEF ConfirmedInv, TypeInv, TypeOK, SocketTypeOK, Queues
      <3>3. /\ toClient'[sock] = Tail(toClient[sock])
            /\ \A i \in Conns : i # sock => toClient'[i] = toClient[i]
        BY <3>1, <3>2, ConsumedType
      <3>4. toClient[sock] \in Seq(Messages) /\ toClient[sock] # <<>>
        BY <3>1, <3>2 DEF Queues, HasMessage
      <3>5. /\ HasSuccess(Tail(toClient[sock])) => HasSuccess(toClient[sock])
            /\ Head(toClient[sock]) = Success => HasSuccess(toClient[sock])
        BY <3>4, MessageTypes, SuccessFacts
      <3>6. link[k] = "unused" => k # sock
        BY <2>1 DEF ConnInv
      <3>7. HasSuccess(toClient'[k]) => HasSuccess(toClient[k])
        BY <3>3, <3>5
      <3>8. /\ confirmedOn' = k => confirmedOn = k \/ HasSuccess(toClient[k])
            /\ confirmedOn' # confirmedOn => confirmedOn' = sock
        BY <1>1, <2>3, <3>5 DEF ReceiveUpdate, ReceiveSuccess
      <3>9. link[k] = "unused" => toClient'[k] = toClient[k] /\ confirmedOn' # k
        BY <2>1, <3>3, <3>6, <3>8 DEF ConnInv
      <3>. QED  BY <1>1, <2>1, <3>7, <3>8, <3>9 DEF ConnInv, HasSuccess
    <2>. QED  BY <1>1, <2>2, <2>3
  <1>. QED  BY <1>2, <1>3

\* The server's steps: a connection is entered before the answer is sent.
LEMMA WorkerConfirmed ==
  ASSUME ConfirmedInv, UNCHANGED config, NEW j \in Conns,
         WorkerSubscribe(j) \/ WorkerReply(j) \/ WorkerIgnore(j)
  PROVE  InOrder' /\ \A k \in Conns : ConnInv(k)'
  <1> USE DEF serverVars, clientVars, channelVars, handlerVars
  <1>1. /\ UNCHANGED <<link, sock, confirmedOn>>
        /\ subscribed \subseteq subscribed'
        /\ worker \in [Conns -> {"none", "run", "closed", "done", "reply"}]
        /\ toClient \in Queues
    BY DEF WorkerSubscribe, WorkerReply, WorkerIgnore, InsertSubscribeChannel,
       ConfirmedInv, TypeInv, TypeOK, SocketTypeOK, Queues
  <1>2. InOrder'
    BY <1>1, InOrderKept DEF ConfirmedInv
  <1>3. ASSUME NEW k \in Conns PROVE ConnInv(k)'
    <2>1. ConnInv(k) /\ ConnInv(j)
      BY DEF ConfirmedInv
    <2>2. worker[j] \in {"run", "reply"} /\ link[j] # "unused"
      BY <2>1 DEF WorkerSubscribe, WorkerReply, WorkerIgnore, ConnInv
    <2>3. CASE WorkerSubscribe(j)
      <3>1. /\ UNCHANGED <<toClient, listening>>
            /\ worker' = [worker EXCEPT ![j] = "reply"]
            /\ config.exists => j \in subscribed'
        BY <2>3 DEF WorkerSubscribe, InsertSubscribeChannel
      <3>. QED  BY <1>1, <2>1, <2>2, <3>1 DEF ConnInv, HasSuccess
    <2>4. CASE WorkerReply(j)
      <3>1. /\ worker[j] = "reply"
            /\ worker' = [worker EXCEPT ![j] = "run"]
               \/ worker' = [worker EXCEPT ![j] = "closed"]
            /\ config.exists => listening'
            /\ listening => listening'
            /\ toClient' = Sent(toClient, j, <<Success>>)
            /\ UNCHANGED subscribed
        BY <2>4 DEF WorkerReply, ChannelSubscribe
      <3>2. k # j \/ link[j] # "up" => toClient'[k] = toClient[k]
        BY <1>1, <3>1 DEF Sent, Queues
      <3>3. link[k] = "up" /\ config.exists =>
              (k = j => k \in subscribed' /\ listening')
        BY <2>1, <3>1 DEF ConnInv
      <3>. QED  BY <1>1, <2>1, <2>2, <3>1, <3>2, <3>3 DEF ConnInv, HasSuccess
    <2>5. CASE WorkerIgnore(j)
      BY <1>1, <2>1, <2>5, Quiet DEF WorkerIgnore, ConnInv
    <2>. QED  BY <2>3, <2>4, <2>5
  <1>. QED  BY <1>2, <1>3

\* A thread of the server that ends takes its connection down.
LEMMA WorkerEndConfirmed ==
  ASSUME ConfirmedInv, UNCHANGED config, NEW j \in Conns,
         WorkerClosed(j) \/ WorkerExit(j)
  PROVE  InOrder' /\ \A k \in Conns : ConnInv(k)'
  <1> USE DEF netVars, clientVars, channelVars, handlerVars
  <1>1. /\ UNCHANGED <<toClient, sock, confirmedOn, listening>>
        /\ worker \in [Conns -> {"none", "run", "closed", "done", "reply"}]
        /\ link \in [Conns -> {"unused", "up", "down"}]
        /\ ConnInv(j)
    BY DEF WorkerClosed, WorkerReceiveError, WorkerExit, WorkerEnds,
       ConfirmedInv, TypeInv, TypeOK, SocketTypeOK
  <1>2. link[j] # "unused" /\ worker'[j] # "reply"
    BY <1>1 DEF WorkerClosed, WorkerReceiveError, WorkerExit, WorkerEnds, ConnInv
  <1>3. /\ \A k \in Conns : k # j => /\ worker'[k] = worker[k] /\ link'[k] = link[k]
                                     /\ k \in subscribed => k \in subscribed'
        /\ (link'[j] = link[j] /\ subscribed' = subscribed) \/ link'[j] = "down"
    BY <1>1 DEF WorkerClosed, WorkerReceiveError, WorkerExit, WorkerEnds
  <1>4. \A k \in Conns : link'[k] # "unused" <=> link[k] # "unused"
    BY <1>2, <1>3
  <1>5. ASSUME NEW k \in Conns PROVE ConnInv(k)'
    <2>1. ConnInv(k)
      BY DEF ConfirmedInv
    <2>2. link[k] = "unused" => sock # k
      BY <2>1 DEF ConnInv
    <2>3. CASE k = j
      BY <1>1, <1>2, <1>3, <2>1, <2>2, <2>3, Quiet
    <2>4. CASE k # j
      BY <1>1, <1>3, <2>1, <2>2, <2>4, Quiet
    <2>. QED  BY <2>3, <2>4
  <1>. QED  BY <1>4, <1>5, InOrderKept DEF ConfirmedInv

\* The poll thread drops only connections that are broken.
LEMMA PollConfirmed ==
  ASSUME ConfirmedInv, UNCHANGED config, PollUpdate \/ Change
  PROVE  InOrder' /\ \A k \in Conns : ConnInv(k)'
  <1> USE DEF socketVars, netVars, serverVars, clientVars, handlerVars
  <1>1. /\ UNCHANGED <<link, worker, sock, confirmedOn, listening>>
        /\ toClient \in Queues /\ value \in 1 .. MaxValue
    BY DEF PollUpdate, Change, ConfirmedInv, TypeInv, TypeOK, SocketTypeOK, Queues
  <1>2. InOrder'
    BY <1>1, InOrderKept DEF ConfirmedInv
  <1>3. ASSUME NEW k \in Conns PROVE ConnInv(k)'
    <2>1. ConnInv(k)
      BY DEF ConfirmedInv
    <2>2. link[k] = "unused" => sock # k
      BY <2>1 DEF ConnInv
    <2>3. CASE Change
      BY <1>1, <2>1, <2>2, <2>3, Quiet DEF Change
    <2>4. CASE PollUpdate
      <3>1. \/ toClient'[k] = toClient[k]
            \/ /\ link[k] = "up"
               /\ toClient'[k] = Append(toClient[k], Update(value))
        BY <2>4 DEF PollUpdate, Forward
      <3>2. link[k] = "up" /\ k \in subscribed => k \in subscribed'
        <4>1. PICK failed : /\ \A i \in failed : FALSE \in SendResults(i)
                            /\ subscribed' = subscribed \ failed
          BY <2>4 DEF PollUpdate
        <4>2. link[k] = "up" => k \notin failed
          BY <4>1 DEF SendResults
        <4>. QED  BY <4>1, <4>2
      <3>3. toClient[k] \in Seq(Messages) /\ Update(value) \in Messages
        BY <1>1, MessageTypes DEF Queues
      <3>4. Update(value) # Success
        BY MessageKinds
      <3>5. HasSuccess(toClient'[k]) => HasSuccess(toClient[k])
        BY <3>1, <3>3, <3>4, SuccessFacts
      <3>6. link[k] = "unused" => toClient'[k] = toClient[k]
        BY <3>1
      <3>. QED  BY <1>1, <2>1, <2>2, <3>2, <3>5, <3>6, Quiet
    <2>. QED  BY <2>3, <2>4
  <1>. QED  BY <1>2, <1>3

LEMMA ConfirmedStep ==
  ASSUME ConfirmedInv, [Next]_vars
  PROVE  ConfirmedInv'
  <1>1. TypeInv'
    BY TypeStep DEF ConfirmedInv
  <1>2. UNCHANGED config
    BY DEF Next, Run, vars
  <1>3. SUFFICES InOrder' /\ \A k \in Conns : ConnInv(k)'
    BY <1>1 DEF ConfirmedInv
  <1>4. CASE UNCHANGED vars
    BY <1>4 DEF ConfirmedInv, InOrder, ConnInv, HasSuccess, vars, socketVars,
       netVars, serverVars, clientVars, channelVars, handlerVars
  <1>5. CASE (ConnectOK \/ ConnectFails) /\ Other
    BY <1>2, <1>5, ConnectConfirmed DEF Other, channelVars, handlerVars
  <1>6. CASE ClientReconnect
    BY <1>2, <1>6, ConnectConfirmed DEF ClientReconnect, Reconnect, channelVars
  <1>7. CASE \/ SubscribeChannel \/ SetCallback \/ GetNodeInfoList \/ HandlerSend
             \/ HandlerClear \/ RequestDue \/ ReceiveUpdate \/ ReceiveSuccess
             \/ ReceiveNothing \/ ReceiveFails
    BY <1>2, <1>7, ClientConfirmed
  <1>8. CASE \E k \in Conns : WorkerSubscribe(k) \/ WorkerReply(k) \/ WorkerIgnore(k)
    BY <1>2, <1>8, WorkerConfirmed
  <1>9. CASE \E k \in Conns : WorkerClosed(k) \/ WorkerExit(k)
    BY <1>2, <1>9, WorkerEndConfirmed
  <1>10. CASE PollUpdate \/ Change
    BY <1>2, <1>10, PollConfirmed
  <1>11. CASE \E k \in Conns : (Break(k) \/ CutMessage(k)) /\ Other
    BY <1>2, <1>11, NetworkConfirmed
  <1>. QED  BY <1>4, <1>5, <1>6, <1>7, <1>8, <1>9, <1>10, <1>11
            DEF Next, Run, Connect

\* "Success" is true for as long as its connection lasts: the server has the
\* channel entered for the connection and is among the channel's subscribers,
\* whatever is lost, repeated or broken meanwhile.
THEOREM SuccessIsTrue == Spec => []Confirmed
  <1>1. ASSUME Init PROVE ConfirmedInv
    <2>1. InOrder
      <3>1. \A k \in Conns : link[k] = "unused" /\ ~(k <= 0)
        BY <1>1 DEF Init, SocketInit, Conns
      <3>2. 0 \in 0 .. MaxConns
        BY SocketAssumption DEF SocketAssumption
      <3>. QED  BY <3>1, <3>2 DEF InOrder
    <2>2. ASSUME NEW k \in Conns PROVE ConnInv(k)
      <3>1. k # 0
        BY DEF Conns
      <3>2. link[k] = "unused" /\ toClient[k] = <<>> /\ worker[k] = "none"
            /\ confirmedOn = 0 /\ sock = 0
        BY <1>1 DEF Init, SocketInit
      <3>. QED  BY <3>1, <3>2 DEF ConnInv
    <2>. QED  BY <1>1, <2>1, <2>2, TypeInitially DEF ConfirmedInv
  <1>2. ASSUME ConfirmedInv PROVE Confirmed
    <2>1. confirmedOn # 0 => confirmedOn \in Conns
      BY <1>2, SocketAssumption
      DEF ConfirmedInv, TypeInv, TypeOK, Conns, SocketAssumption
    <2>2. subscribed \subseteq m_clientSocketMap
      BY <1>2 DEF ConfirmedInv, TypeInv, TypeOK
    <2>. QED  BY <1>2, <2>1, <2>2 DEF ConfirmedInv, ConnInv, Confirmed
  <1>. QED  BY <1>1, <1>2, ConfirmedStep, PTL DEF Spec
=============================================================================
