-------------------------------- MODULE Storm --------------------------------
(***************************************************************************)
(* Publish/subscribe over sockets: IckStormSubscriberSocket at the server, *)
(* which forwards the changes of a channel, and at a client, which mirrors *)
(* the channel and calls the callbacks registered with                     *)
(* IckStormSubscriberManager.                                              *)
(*                                                                         *)
(* One channel; its values are numbered in the order the device takes      *)
(* them.  The client asks for the channel ("Subscribe"), the server enters *)
(* it for the connection, subscribes itself to the channel and answers     *)
(* "Success"; the poll thread then has the socket send every change.  The  *)
(* client repeats the request every five seconds until the answer comes.   *)
(* Other requests wait in m_dataSendList.                                  *)
(***************************************************************************)
EXTENDS Socket

CONSTANTS
  Configs,      \* the configurations considered, see Config
  MaxValue,     \* bound: changes of the device
  MaxRequests   \* bound: requests put into m_dataSendList

\* readOnly: the channel at the server is read-only; own: the client has an
\* object of its own under the channel's name; exists: the server has the
\* channel; requests: how many other requests the application makes.
Config == [readOnly : BOOLEAN, own : BOOLEAN, exists : BOOLEAN,
           requests : 0 .. MaxRequests]

ASSUME StormAssumption ==
  /\ Configs \subseteq Config
  /\ MaxValue \in Nat \ {0} /\ MaxRequests \in Nat

VARIABLES
  config,
  \* the server
  value, m_isChanged, \* the channel
  listening,          \* the socket is among the channel's subscribers
  subscribed,         \* the connections the channel is entered for
  \* the client
  regist,             \* the channel in m_subscribeChannels
  confirmedOn,        \* the connection "Success" came on, 0: none
  pc,                 \* where the connection thread is in the handler
  m_dataSendList,
  requested,          \* requests given to addSendData,
  handedOver,         \* handed to the socket, and
  late,               \* added between the sending and the clearing
  stuck,              \* the thread returned without unlocking m_mutex
  callback,           \* the application's callback: "no", "asked", "set"
  mirror, seen,       \* the mirror object's value, the callback's last one
  missed,             \* the last value that came before the callback was set
  process             \* "running" or "crashed"

channelVars == <<value, m_isChanged, listening>>
listVars    == <<m_dataSendList, requested, handedOver, late>>
appVars     == <<callback, mirror, seen, missed>>
handlerVars == <<regist, confirmedOn, pc, stuck>>
vars == <<config, socketVars, channelVars, subscribed, handlerVars, listVars,
          appVars, process>>

None == 0  \* no value; the device's values are numbered from 1

Update(v) == <<"Update", v>>
Subscribe == <<"Subscribe", 0>>
Success   == <<"Success", 0>>
ChannelList(n) == <<"ChannelList", n>>

Messages ==
  {Update(v) : v \in 1 .. MaxValue} \cup {Subscribe, Success}
    \cup {ChannelList(n) : n \in 1 .. MaxRequests}

-----------------------------------------------------------------------------
(* The application at the client.                                          *)

\* The thread holds m_mutex from the sending to the clearing of the list,
\* and after a failed send until it ends.
Unlocked == ~stuck /\ pc # "clear"

\* subscriber of the manager: first the socket's subscribe ...
SubscribeChannel ==
  /\ callback = "no" /\ Unlocked
  /\ callback' = "asked"
  /\ regist' = "pending"
  /\ UNCHANGED <<socketVars, channelVars, subscribed, confirmedOn, pc, stuck,
                 listVars, mirror, seen, missed, process>>

\* ... then the callback.
SetCallback ==
  /\ callback = "asked"
  /\ callback' = "set"
  /\ UNCHANGED <<socketVars, channelVars, subscribed, handlerVars, listVars,
                 mirror, seen, missed, process>>

\* getNodeInfoList of the manager: addSendData does not lock.
GetNodeInfoList ==
  /\ requested < config.requests
  /\ requested' = requested + 1
  /\ m_dataSendList' = Append(m_dataSendList, ChannelList(requested + 1))
  /\ late' = IF pc = "clear" THEN late + 1 ELSE late
  /\ UNCHANGED <<socketVars, channelVars, subscribed, handlerVars, handedOver,
                 appVars, process>>

-----------------------------------------------------------------------------
(* The client's connection thread: socketConnectHandler.                   *)

\* Mutant: the list is emptied before it is known to be sent.
SendFailedMutant ==
  /\ m_dataSendList' = <<>>
  /\ stuck' = TRUE
  /\ UNCHANGED <<requested, handedOver, late>>

\* A failed send of the list returns with m_mutex locked and keeps the list.
SendFailed == stuck' = TRUE /\ UNCHANGED listVars

\* subscribeChannelHandler: send the requests for the channel, whose send is
\* not checked, and the list.  Called after a message its result is ignored.
HandlerSend ==
  /\ thread = "run" /\ pc \in {"top", "again"}
  /\ LET request == IF regist = "pending" THEN <<Subscribe>> ELSE <<>> IN
     /\ regist' = IF regist = "pending" THEN "sent" ELSE regist
     /\ toServer' = Sent(toServer, sock, request \o m_dataSendList)
     /\ \E ok \in SendResults(sock) :
          \/ /\ ok \/ m_dataSendList = <<>>
             /\ pc' = "clear"
             /\ handedOver' = handedOver + Len(m_dataSendList)
             /\ UNCHANGED <<thread, stuck, m_dataSendList, requested, late>>
          \/ /\ ~ok /\ m_dataSendList # <<>>
             /\ thread' = IF pc = "top" THEN "closed" ELSE thread
             /\ pc' = "recv"
             /\ SendFailed
  /\ UNCHANGED <<link, toClient, faults, serverVars, sock, channelVars,
                 subscribed, confirmedOn, appVars, process>>

HandlerClear ==
  /\ thread = "run" /\ pc = "clear"
  /\ m_dataSendList' = <<>>
  /\ pc' = "recv"
  /\ UNCHANGED <<socketVars, channelVars, subscribed, regist, confirmedOn,
                 stuck, requested, handedOver, late, appVars, process>>

\* Mutant: the request is made once.
RequestDueMutant == FALSE /\ UNCHANGED vars

\* Five seconds after the last request it is due again.  Bound: by then the
\* messages under way have arrived; the answer may still be to come.
RequestDue ==
  /\ regist = "sent"
  /\ ~HasMessage(toServer, sock) /\ ~HasMessage(toClient, sock)
  /\ regist' = "pending"
  /\ UNCHANGED <<socketVars, channelVars, subscribed, confirmedOn, pc, stuck,
                 listVars, appVars, process>>

\* The mirror object is made on the first value, as an object of the server's
\* class; a new ReadWriteInt takes the value for its minimum and is 0.
NewMirror(v) ==
  /\ mirror' = IF config.readOnly THEN v ELSE -1
  /\ UNCHANGED process

\* Later values are set in it as in a read-write object, which a read-only one
\* is not.
SetMirror(v) ==
  IF config.own \/ ~config.readOnly
  THEN mirror' = v /\ UNCHANGED process
  ELSE process' = "crashed" /\ UNCHANGED mirror

\* isObjectRegisted of ObjectManager, for the channel's name.
IsObjectRegisted == config.own \/ mirror # None

Mirror(v) == IF IsObjectRegisted THEN SetMirror(v) ELSE NewMirror(v)

\* The rest of an "Update": the callbacks get the value that came.
Callback(v) ==
  IF callback = "set" THEN seen' = v /\ UNCHANGED missed
  ELSE missed' = v /\ UNCHANGED seen

ReceiveUpdate ==
  /\ thread = "run" /\ pc = "recv" /\ HasMessage(toClient, sock)
  /\ LET v == Head(toClient[sock])[2] IN
     /\ Head(toClient[sock]) = Update(v)
     /\ Mirror(v)
     /\ Callback(v)
  /\ toClient' = Consumed(toClient, sock)
  /\ pc' = "again"
  /\ UNCHANGED <<link, toServer, faults, serverVars, clientVars, channelVars,
                 subscribed, regist, confirmedOn, stuck, listVars, callback>>

ReceiveSuccess ==
  /\ thread = "run" /\ pc = "recv" /\ HasMessage(toClient, sock)
  /\ Head(toClient[sock]) = Success
  /\ toClient' = Consumed(toClient, sock)
  /\ regist' = "success" /\ confirmedOn' = sock
  /\ pc' = "again"
  /\ UNCHANGED <<link, toServer, faults, serverVars, clientVars, channelVars,
                 subscribed, stuck, listVars, appVars, process>>

\* receive timed out: the handler's next round.  The heart beat, which the
\* server receives and does not answer, is left out.
ReceiveNothing ==
  /\ thread = "run" /\ pc = "recv" /\ ReceiveTimeout(toClient, sock)
  /\ pc' = "top"
  /\ UNCHANGED <<socketVars, channelVars, subscribed, regist, confirmedOn,
                 stuck, listVars, appVars, process>>

ReceiveFails ==
  /\ thread = "run" /\ pc = "recv" /\ ReceiveError(toClient, sock)
  /\ thread' = "closed"
  /\ UNCHANGED <<netVars, serverVars, sock, channelVars, subscribed,
                 handlerVars, listVars, appVars, process>>

\* Mutant: a mutex that its owner left locked stays so.
ClientReconnectMutant ==
  /\ Reconnect
  /\ pc' = "top"
  /\ UNCHANGED <<channelVars, subscribed, regist, confirmedOn, stuck, listVars,
                 appVars, process>>

\* A mutex whose owner ended is free.  Nothing is done about isRegistSuccess.
ClientReconnect ==
  /\ Reconnect
  /\ pc' = "top" /\ stuck' = FALSE
  /\ UNCHANGED <<channelVars, subscribed, regist, confirmedOn, listVars,
                 appVars, process>>

-----------------------------------------------------------------------------
(* The server.                                                             *)

InsertSubscribeChannel(k) ==
  /\ m_clientSocketMap' = m_clientSocketMap \cup {k}
  /\ subscribed' = subscribed \cup {k}

\* Mutant: the answer comes first.
WorkerSubscribeMutant(k) ==
  /\ worker[k] = "run" /\ HasMessage(toServer, k)
  /\ Head(toServer[k]) = Subscribe
  /\ toServer' = Consumed(toServer, k)
  /\ toClient' = Sent(toClient, k, <<Success>>)
  /\ worker' = [worker EXCEPT ![k] = "reply"]
  /\ UNCHANGED <<link, faults, isAlive, m_clientSocketMap, clientVars,
                 channelVars, subscribed, handlerVars, listVars, appVars,
                 process>>

\* A "Subscribe": addSubscribe, first insertSubscribeChannel ...
WorkerSubscribe(k) ==
  /\ worker[k] = "run" /\ HasMessage(toServer, k)
  /\ Head(toServer[k]) = Subscribe
  /\ toServer' = Consumed(toServer, k)
  /\ worker' = [worker EXCEPT ![k] = "reply"]
  /\ IF config.exists
     THEN InsertSubscribeChannel(k)
     ELSE UNCHANGED <<m_clientSocketMap, subscribed>>
  /\ UNCHANGED <<link, toClient, faults, isAlive, clientVars, channelVars,
                 handlerVars, listVars, appVars, process>>

\* Mutant: the new subscriber is told of later changes only.
ChannelSubscribeMutant == listening' = TRUE /\ UNCHANGED m_isChanged

\* subscribe of the channel.
ChannelSubscribe == listening' = TRUE /\ m_isChanged' = TRUE

\* ... then the channel's subscribe, and the answer, also for a channel the
\* server does not have.
WorkerReply(k) ==
  /\ worker[k] = "reply"
  /\ IF config.exists THEN ChannelSubscribe
     ELSE UNCHANGED <<listening, m_isChanged>>
  /\ toClient' = Sent(toClient, k, <<Success>>)
  /\ \E ok \in SendResults(k) :
       worker' = [worker EXCEPT ![k] = IF ok THEN "run" ELSE "closed"]
  /\ UNCHANGED <<link, toServer, faults, isAlive, m_clientSocketMap,
                 clientVars, value, subscribed, handlerVars, listVars,
                 appVars, process>>

\* A "ChannelList" is answered only when it has a third field, which the
\* client's has not.
WorkerIgnore(k) ==
  /\ worker[k] = "run" /\ HasMessage(toServer, k)
  /\ Head(toServer[k]) # Subscribe
  /\ toServer' = Consumed(toServer, k)
  /\ UNCHANGED <<link, toClient, faults, serverVars, clientVars, channelVars,
                 subscribed, handlerVars, listVars, appVars, process>>

WorkerClosed(k) ==
  /\ WorkerReceiveError(k)
  /\ UNCHANGED <<channelVars, subscribed, handlerVars, listVars, appVars,
                 process>>

WorkerExit(k) ==
  /\ WorkerEnds(k)
  /\ subscribed' = subscribed \ {k}
  /\ UNCHANGED <<channelVars, handlerVars, listVars, appVars, process>>

\* The message of update.
Forward(queue) == Append(queue, Update(value))

\* The poll thread: update of the channel calls update of the socket, which
\* sends to every live connection the channel is entered for, and drops
\* those where the send fails.
PollUpdate ==
  /\ m_isChanged
  /\ m_isChanged' = FALSE
  /\ LET targets == IF listening
                    THEN {k \in m_clientSocketMap \cap subscribed : isAlive[k]}
                    ELSE {}
     IN \E failed \in SUBSET {k \in targets : FALSE \in SendResults(k)} :
          /\ m_clientSocketMap' = m_clientSocketMap \ failed
          /\ subscribed' = subscribed \ failed
          /\ toClient' = [k \in Conns |->
                            IF k \in targets /\ link[k] = "up"
                            THEN Forward(toClient[k])
                            ELSE toClient[k]]
  /\ UNCHANGED <<link, toServer, faults, isAlive, worker, clientVars, value,
                 listening, handlerVars, listVars, appVars, process>>

\* The device takes another value and the poll thread reads it.
Change ==
  /\ value < MaxValue
  /\ value' = value + 1
  /\ m_isChanged' = TRUE
  /\ UNCHANGED <<socketVars, listening, subscribed, handlerVars, listVars,
                 appVars, process>>

-----------------------------------------------------------------------------
Init ==
  /\ config \in Configs
  /\ SocketInit
  /\ value = 1 /\ m_isChanged = TRUE /\ listening = FALSE
  /\ subscribed = {}
  /\ regist = "no" /\ confirmedOn = 0 /\ pc = "top" /\ stuck = FALSE
  /\ m_dataSendList = <<>> /\ requested = 0 /\ handedOver = 0 /\ late = 0
  /\ callback = "no" /\ mirror = None /\ seen = None /\ missed = None
  /\ process = "running"

Other == UNCHANGED <<channelVars, subscribed, handlerVars, listVars, appVars,
                     process>>

Run(A) == process = "running" /\ UNCHANGED config /\ A

ClientThread ==
  \/ HandlerSend \/ HandlerClear \/ ReceiveUpdate \/ ReceiveSuccess
  \/ ReceiveNothing \/ ReceiveFails \/ ClientReconnect

Worker(k) ==
  \/ WorkerSubscribe(k) \/ WorkerReply(k) \/ WorkerIgnore(k) \/ WorkerClosed(k)
  \/ WorkerExit(k)

Next ==
  \/ Run(Connect /\ Other)
  \/ Run(SubscribeChannel)
  \/ Run(SetCallback)
  \/ Run(GetNodeInfoList)
  \/ Run(HandlerSend)
  \/ Run(HandlerClear)
  \/ Run(RequestDue)
  \/ Run(ReceiveUpdate)
  \/ Run(ReceiveSuccess)
  \/ Run(ReceiveNothing)
  \/ Run(ReceiveFails)
  \/ Run(ClientReconnect)
  \/ \E k \in Conns : Run(WorkerSubscribe(k))
  \/ \E k \in Conns : Run(WorkerReply(k))
  \/ \E k \in Conns : Run(WorkerIgnore(k))
  \/ \E k \in Conns : Run(WorkerClosed(k))
  \/ \E k \in Conns : Run(WorkerExit(k))
  \/ Run(PollUpdate)
  \/ Run(Change)
  \/ \E k \in Conns : Run(Break(k) /\ Other)
  \/ \E k \in Conns : Run(CutMessage(k) /\ Other)

Spec == Init /\ [][Next]_vars

\* Threads that can go on do, and five seconds pass.  Nothing is assumed of
\* the device, the network and the application's calls, except that a call
\* of subscriber ends.
FairSpec ==
  /\ Spec
  /\ WF_vars(Run(ClientThread)) /\ WF_vars(Run(RequestDue))
  /\ WF_vars(Run(SetCallback)) /\ WF_vars(Run(PollUpdate))
  /\ \A k \in Conns : WF_vars(Run(Worker(k)))

-----------------------------------------------------------------------------
TypeOK ==
  /\ config \in Configs
  /\ SocketTypeOK(Messages, {"reply"})
  /\ value \in 1 .. MaxValue /\ m_isChanged \in BOOLEAN
  /\ listening \in BOOLEAN
  /\ subscribed \subseteq m_clientSocketMap
  /\ regist \in {"no", "pending", "sent", "success"}
  /\ confirmedOn \in 0 .. MaxConns
  /\ pc \in {"top", "clear", "recv", "again"}
  /\ stuck \in BOOLEAN
  /\ m_dataSendList \in Seq(Messages)
  /\ requested \in 0 .. MaxRequests /\ handedOver \in Nat /\ late \in Nat
  /\ callback \in {"no", "asked", "set"}
  /\ mirror \in -1 .. MaxValue /\ seen \in 0 .. MaxValue
  /\ missed \in 0 .. MaxValue
  /\ process \in {"running", "crashed"}

\* What "Success" tells the client is true: while the connection it came on
\* lasts, the server has the channel entered for it and is subscribed.
Confirmed ==
  /\ confirmedOn # 0 /\ link[confirmedOn] = "up" /\ config.exists
  => /\ confirmedOn \in subscribed \cap m_clientSocketMap
     /\ listening

\* Every request given to addSendData is handed to the socket once, or still
\* in the list, also over a failed send and a reconnection; those added
\* between the sending and the clearing, and no other, are lost.
RequestsKept ==
  pc # "clear" => handedOver + late + Len(m_dataSendList) = requested

\* The client's thread never holds the socket's mutex longer than the
\* connection lasts.
MutexFreed == stuck ~> ~stuck \/ process = "crashed"

\* A request for the channel is repeated until it is confirmed, whatever
\* messages are lost, as long as the connection lasts.
Confirmation ==
  /\ regist = "sent" /\ link[1] = "up"
  ~> regist = "success" \/ link[1] # "up" \/ process = "crashed"

\* A client whose first connection lasts is given the device's last value,
\* unless a message was lost.  Only a value that came before the callback was
\* set is not told; the one after it is.
Follows ==
  /\ callback = "set" /\ link[1] = "up" /\ config.exists
  ~> \/ seen = value \/ link[1] # "up" \/ process = "crashed"
     \/ missed = value \/ faults > 0
=============================================================================
