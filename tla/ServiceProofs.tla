---------------------------- MODULE ServiceProofs ----------------------------
(***************************************************************************)
(* Theorems about Service, for any number of connections, faults and       *)
(* requests.                                                               *)
(***************************************************************************)
EXTENDS Service, SocketProofs

-----------------------------------------------------------------------------
(* Type correctness.                                                       *)

Values == Calls \cup {0}
Positions == {"idle", "param1", "param2", "lock", "execute"}

NetTypeOK == SocketTypeOK(Requests, {})

ListTypeOK ==
  /\ m_serviceToRun \in Seq(Requests)
  /\ issued \in 0 .. MaxRequests
  /\ pc \in {"top", "send"} /\ stuck \in BOOLEAN

CallTypeOK ==
  /\ at \in [Callers -> Positions]
  /\ cur \in [Callers -> Values]
  /\ Params \in [1 .. 2 -> Values]
  /\ owner \in Callers \cup {Nobody}
  /\ got \in [Callers -> Seq(Values)]
  /\ raced \in [Callers -> SUBSET (1 .. 2)]
  /\ runs \in [Calls -> Nat]
  /\ used \in [Calls -> Seq(Values)]
  /\ mixed \subseteq Calls \X (1 .. 2)

\* A caller that is in call has a request; the mutex is held to execute.
CallersBusy == \A c \in Callers : at[c] # "idle" => cur[c] \in Calls

TypeInv == NetTypeOK /\ SockInUse /\ ListTypeOK /\ CallTypeOK /\ CallersBusy

LEMMA TypeInvOK == TypeInv => TypeOK
  BY DEF TypeInv, TypeOK, NetTypeOK, ListTypeOK, CallTypeOK, Values, Positions

LEMMA Names ==
  /\ \A r \in Requests : r \in Calls /\ r # LocalCall /\ r \in 1 .. MaxRequests
  /\ LocalCall \in Calls /\ Local \in Callers /\ LocalCall # 0
  /\ \A k \in Conns : k \in Callers /\ k # Local
  /\ \A c \in Callers : c \in Conns \/ c = Local
  BY ServiceAssumption
  DEF ServiceAssumption, Requests, Calls, LocalCall, Local, Callers, Conns

LEMMA NetUnchanged ==
  ASSUME NetTypeOK, SockInUse, UNCHANGED socketVars
  PROVE  NetTypeOK' /\ SockInUse'
  BY DEF NetTypeOK, SocketTypeOK, SockInUse, socketVars, netVars, serverVars,
         clientVars

LEMMA CallUnchanged ==
  ASSUME CallTypeOK, CallersBusy, UNCHANGED callVars
  PROVE  CallTypeOK' /\ CallersBusy'
  BY DEF CallTypeOK, CallersBusy, callVars

LEMMA ListUnchanged ==
  ASSUME ListTypeOK, UNCHANGED clientListVars
  PROVE  ListTypeOK'
  BY DEF ListTypeOK, clientListVars

\* The client's steps.
LEMMA ClientType ==
  ASSUME TypeInv, RunService \/ ClientThread
  PROVE  TypeInv'
  <1> USE DEF TypeInv
  <1>1. CASE RunService
    <2>1. issued + 1 \in Requests /\ issued' = issued + 1
      BY <1>1, ServiceAssumption
      DEF RunService, ListTypeOK, Requests, ServiceAssumption
    <2>2. m_serviceToRun' \in Seq(Requests)
      BY <1>1, <2>1, AppendProperties DEF RunService, AddService, ListTypeOK
    <2>3. ListTypeOK'
      BY <1>1, <2>1, <2>2 DEF RunService, ListTypeOK, Requests
    <2>. QED  BY <1>1, <2>3, NetUnchanged, CallUnchanged DEF RunService
  <1>2. CASE HandlerLock
    BY <1>2, NetUnchanged, CallUnchanged DEF HandlerLock, ListTypeOK
  <1>3. CASE HandlerSend
    <2>1. /\ sock \in Conns /\ m_serviceToRun \in Seq(Requests)
          /\ m_serviceToRun # <<>>
      BY <1>3 DEF HandlerSend, SockInUse, ListTypeOK
    <2>2. Head(m_serviceToRun) \in Requests /\ Tail(m_serviceToRun) \in Seq(Requests)
      BY <2>1, HeadTailProperties
    <2>3. toServer' \in [Conns -> Seq(Requests)]
      <3>1. <<Head(m_serviceToRun)>> \in Seq(Requests)
        BY <2>2
      <3>2. toServer \in [Conns -> Seq(Requests)]
        BY DEF NetTypeOK, SocketTypeOK
      <3>3. Sent(toServer, sock, <<Head(m_serviceToRun)>>) \in [Conns -> Seq(Requests)]
        BY <2>1, <3>1, <3>2, SentQueue
      <3>. QED  BY <1>3, <3>2, <3>3 DEF HandlerSend, HandlerFails
    <2>4. NetTypeOK' /\ SockInUse'
      BY <1>3, <2>1, <2>3 DEF HandlerSend, HandlerFails, NetTypeOK, SocketTypeOK,
         SockInUse, serverVars
    <2>5. ListTypeOK'
      BY <1>3, <2>2 DEF HandlerSend, HandlerFails, Erase, ListTypeOK
    <2>. QED  BY <1>3, <2>4, <2>5, CallUnchanged DEF HandlerSend
  <1>4. CASE HandlerUnlock
    <2>1. NetTypeOK' /\ SockInUse'
      BY <1>4 DEF HandlerUnlock, HandlerFails, NetTypeOK, SocketTypeOK,
         SockInUse, serverVars
    <2>2. ListTypeOK'
      BY <1>4 DEF HandlerUnlock, HandlerFails, ListTypeOK
    <2>. QED  BY <1>4, <2>1, <2>2, CallUnchanged DEF HandlerUnlock
  <1>5. CASE ClientReconnect
    <2>1. NetTypeOK' /\ SockInUse'
      BY <1>5, ConnectSocketType DEF ClientReconnect, Reconnect, NetTypeOK
    <2>2. ListTypeOK'
      BY <1>5 DEF ClientReconnect, ListTypeOK
    <2>. QED  BY <1>5, <2>1, <2>2, CallUnchanged DEF ClientReconnect
  <1>. QED  BY <1>1, <1>2, <1>3, <1>4, <1>5 DEF ClientThread

\* What WorkerTake leaves of the messages to the server.
LEMMA DropFirst ==
  ASSUME NEW q \in Seq(Requests), NEW n \in 1 .. Len(q)
  PROVE  /\ SubSeq(q, n + 1, Len(q)) \in Seq(Requests)
         /\ Len(SubSeq(q, n + 1, Len(q))) = Len(q) - n
         /\ \A i \in 1 .. Len(q) - n : SubSeq(q, n + 1, Len(q))[i] = q[i + n]
  <1>1. Len(q) \in Nat
    BY LenProperties
  <1>2. \A i \in n + 1 .. Len(q) : q[i] \in Requests
    BY <1>1
  <1>. QED  BY <1>1, <1>2, SubSeqProperties

LEMMA TakeType ==
  ASSUME TypeInv, NEW k \in Conns, WorkerTake(k)
  PROVE  TypeInv'
  <1> USE DEF TypeInv
  <1>1. /\ toServer \in [Conns -> Seq(Requests)] /\ toClient \in [Conns -> Seq(Requests)]
        /\ HasMessage(toServer, k)
    BY DEF WorkerTake, NetTypeOK, SocketTypeOK
  <1>2. Head(toServer[k]) \in Requests /\ Consumed(toServer, k) \in [Conns -> Seq(Requests)]
    BY <1>1, ConsumedQueue
  <1>3. toClient' \in [Conns -> Seq(Requests)]
    <2>1. <<Head(toServer[k])>> \in Seq(Requests)
      BY <1>2
    <2>2. Sent(toClient, k, <<Head(toServer[k])>>) \in [Conns -> Seq(Requests)]
      BY <1>1, <2>1, SentQueue
    <2>. QED  BY <2>2 DEF WorkerTake
  <1>4. toServer' \in [Conns -> Seq(Requests)]
    <2>1. toServer[k] \in Seq(Requests)
      BY <1>1
    <2>2. \A n \in 1 .. Len(toServer[k]) :
            SubSeq(toServer[k], n + 1, Len(toServer[k])) \in Seq(Requests)
      BY <2>1, DropFirst
    <2>3. \/ toServer' = Consumed(toServer, k)
          \/ \E n \in 1 .. Len(toServer[k]) :
               toServer' = [toServer EXCEPT
                              ![k] = SubSeq(toServer[k], n + 1, Len(toServer[k]))]
      BY DEF WorkerTake
    <2>. QED  BY <1>1, <1>2, <2>2, <2>3
  <1>5. NetTypeOK' /\ SockInUse'
    BY <1>3, <1>4 DEF WorkerTake, NetTypeOK, SocketTypeOK, SockInUse, serverVars,
       clientVars
  <1>6. Head(toServer[k]) \in Calls /\ k \in Callers
    BY <1>2, Names
  <1>7. CallTypeOK' /\ CallersBusy'
    <2>1. CASE UNCHANGED <<at, cur, raced>>
      BY <2>1 DEF WorkerTake, CallTypeOK, CallersBusy
    <2>2. CASE Call(k, Head(toServer[k]))
      BY <1>6, <2>2 DEF WorkerTake, Call, CallTypeOK, CallersBusy, Values, Positions
    <2>. QED  BY <2>1, <2>2 DEF WorkerTake
  <1>. QED  BY <1>5, <1>7, ListUnchanged DEF WorkerTake

\* ControlObject's steps.
LEMMA CallType ==
  ASSUME TypeInv, NEW c \in Callers, LocalCalls \/ CallSteps(c)
  PROVE  TypeInv'
  <1> USE DEF TypeInv
  <1>1. NetTypeOK' /\ SockInUse' /\ ListTypeOK'
    BY NetUnchanged, ListUnchanged
    DEF LocalCalls, CallSteps, SetParam, Lock, Execute, Executed
  <1>2. CASE LocalCalls
    <2>1. CallTypeOK' /\ CallersBusy'
      BY <1>2, Names DEF LocalCalls, Call, CallTypeOK, CallersBusy, Values,
         Positions
    <2>. QED  BY <1>1, <2>1
  <1>3. CASE SetParam(c)
    <2>1. Params' \in [1 .. 2 -> Values]
      BY <1>3 DEF SetParam, CallTypeOK
    <2>2. raced' \in [Callers -> SUBSET (1 .. 2)]
      BY <1>3 DEF SetParam, ParamIndex, CallTypeOK
    <2>3. CallTypeOK' /\ CallersBusy'
      BY <1>3, <2>1, <2>2 DEF SetParam, CallTypeOK, CallersBusy, Positions
    <2>. QED  BY <1>1, <2>3
  <1>4. CASE Lock(c)
    <2>1. CallTypeOK' /\ CallersBusy'
      BY <1>4 DEF Lock, CallTypeOK, CallersBusy, Positions
    <2>. QED  BY <1>1, <2>1
  <1>5. CASE Execute(c)
    <2>1. got[c] \in Seq(Values) /\ Len(got[c]) \in Nat
      BY LenProperties DEF CallTypeOK
    <2>2. Len(got[c]) + 1 \in 1 .. 2
      BY <1>5, <2>1 DEF Execute
    <2>3. Append(got[c], Params[Len(got[c]) + 1]) \in Seq(Values)
      BY <2>1, <2>2, AppendProperties DEF CallTypeOK
    <2>4. got' \in [Callers -> Seq(Values)]
      BY <1>5, <2>3 DEF Execute, CallTypeOK
    <2>5. CallTypeOK' /\ CallersBusy'
      BY <1>5, <2>4 DEF Execute, CallTypeOK, CallersBusy
    <2>. QED  BY <1>1, <2>5
  <1>6. CASE Executed(c)
    <2>1. cur[c] \in Calls /\ <<>> \in Seq(Values) /\ got[c] \in Seq(Values)
      BY <1>6, EmptySeq DEF Executed, CallersBusy, CallTypeOK
    <2>2. runs[cur[c]] + 1 \in Nat
      BY <2>1 DEF CallTypeOK
    <2>3. /\ runs' \in [Calls -> Nat] /\ used' \in [Calls -> Seq(Values)]
          /\ got' \in [Callers -> Seq(Values)] /\ mixed' \subseteq Calls \X (1 .. 2)
          /\ at' \in [Callers -> Positions] /\ owner' = Nobody
          /\ UNCHANGED <<cur, Params, raced>>
      BY <1>6, <2>1, <2>2 DEF Executed, CallTypeOK, Release, Positions
    <2>4. CallTypeOK'
      BY <2>3 DEF CallTypeOK
    <2>5. CallersBusy'
      BY <1>6 DEF Executed, CallTypeOK, CallersBusy
    <2>. QED  BY <1>1, <2>4, <2>5
  <1>. QED  BY <1>2, <1>3, <1>4, <1>5, <1>6 DEF CallSteps

LEMMA TypeInitially ==
  ASSUME Init
  PROVE  TypeInv
  <1>1. <<>> \in Seq(Requests) /\ <<>> \in Seq(Values) /\ 0 \in Values
    BY EmptySeq DEF Values
  <1>2. NetTypeOK /\ SockInUse
    BY <1>1, SocketAssumption DEF Init, SocketInit, NetTypeOK, SocketTypeOK,
       SockInUse, SocketAssumption
  <1>3. ListTypeOK
    <2>1. 0 \in 0 .. MaxRequests
      BY ServiceAssumption DEF ServiceAssumption
    <2>. QED  BY <1>1, <2>1, Zenon DEF Init, ListTypeOK
  <1>4. <<0, 0>> \in [1 .. 2 -> Values]
    BY <1>1
  <1>5. CallTypeOK /\ CallersBusy
    BY <1>1, <1>4 DEF Init, CallTypeOK, CallersBusy, Positions
  <1>. QED  BY <1>2, <1>3, <1>5 DEF TypeInv

LEMMA TypeStep ==
  ASSUME TypeInv, [Next]_vars
  PROVE  TypeInv'
  <1> USE DEF TypeInv
  <1>1. CASE UNCHANGED vars
    BY <1>1, NetUnchanged, ListUnchanged, CallUnchanged DEF vars
  <1>2. CASE Connect /\ Other
    <2>1. NetTypeOK' /\ SockInUse'
      BY <1>2, ConnectSocketType DEF Connect, NetTypeOK
    <2>. QED  BY <1>2, <2>1, ListUnchanged, CallUnchanged DEF Other
  <1>3. CASE RunService \/ ClientThread
    BY <1>3, ClientType
  <1>4. CASE \E k \in Conns : WorkerTake(k)
    BY <1>4, TakeType
  <1>5. CASE \E k \in Conns : WorkerClosed(k) \/ WorkerExit(k)
    <2>1. NetTypeOK' /\ SockInUse'
      BY <1>5, WorkerEndSocketType DEF WorkerClosed, WorkerExit, NetTypeOK
    <2>. QED  BY <1>5, <2>1, ListUnchanged, CallUnchanged
              DEF WorkerClosed, WorkerExit
  <1>6. CASE LocalCalls \/ \E c \in Callers : CallSteps(c)
    BY <1>6, CallType, Names
  <1>7. CASE \E k \in Conns : (Break(k) \/ CutMessage(k)) /\ Other
    <2>1. NetTypeOK' /\ SockInUse'
      BY <1>7, NetworkSocketType DEF NetTypeOK
    <2>. QED  BY <1>7, <2>1, ListUnchanged, CallUnchanged DEF Other
  <1>. QED  BY <1>1, <1>2, <1>3, <1>4, <1>5, <1>6, <1>7 DEF Next, Worker

\* The sockets, the client's list and the state of the calls keep their types.
THEOREM ServiceTypeCorrect == Spec => []TypeOK
  BY TypeInitially, TypeStep, TypeInvOK, PTL DEF Spec

-----------------------------------------------------------------------------
(* Every request is in one place.                                          *)

Holds(q, r) == \E i \in 1 .. Len(q) : q[i] = r
Once(q) == \A i, j \in 1 .. Len(q) : q[i] = q[j] => i = j

LEMMA EmptyQueue == Once(<<>>) /\ \A r : ~Holds(<<>>, r)
  BY EmptySeq DEF Once, Holds

LEMMA TailQueue ==
  ASSUME NEW q \in Seq(Requests), q # <<>>, Once(q)
  PROVE  /\ Once(Tail(q)) /\ Holds(q, Head(q))
         /\ \A r : Holds(Tail(q), r) => Holds(q, r) /\ r # Head(q)
  <1>1. /\ Len(q) \in Nat /\ Len(q) >= 1 /\ Head(q) = q[1]
        /\ Len(Tail(q)) = Len(q) - 1
        /\ \A i \in 1 .. Len(Tail(q)) : Tail(q)[i] = q[i + 1]
    BY HeadTailProperties, LenProperties, EmptySeq
  <1>2. \A i \in 1 .. Len(Tail(q)) : i + 1 \in 1 .. Len(q) /\ i + 1 # 1
    BY <1>1
  <1>3. Once(Tail(q))
    BY <1>1, <1>2 DEF Once
  <1>4. ASSUME NEW r, Holds(Tail(q), r) PROVE Holds(q, r) /\ r # Head(q)
    <2>1. PICK i \in 1 .. Len(Tail(q)) : Tail(q)[i] = r
      BY <1>4 DEF Holds
    <2>2. i + 1 \in 1 .. Len(q) /\ q[i + 1] = r /\ i + 1 # 1 /\ 1 \in 1 .. Len(q)
      BY <1>1, <1>2, <2>1
    <2>. QED  BY <1>1, <2>2 DEF Once, Holds
  <1>. QED  BY <1>1, <1>3, <1>4 DEF Holds

LEMMA AppendQueue ==
  ASSUME NEW q \in Seq(Requests), NEW m \in Requests
  PROVE  /\ q \o <<m>> = Append(q, m)
         /\ \A r : Holds(Append(q, m), r) => Holds(q, r) \/ r = m
         /\ Once(q) /\ ~Holds(q, m) => Once(Append(q, m))
  <1>1. /\ Len(q) \in Nat /\ Len(Append(q, m)) = Len(q) + 1
        /\ \A i \in 1 .. Len(q) : Append(q, m)[i] = q[i]
        /\ Append(q, m)[Len(q) + 1] = m
    BY AppendProperties, LenProperties
  <1>2. \A i \in 1 .. Len(q) + 1 : i \in 1 .. Len(q) \/ i = Len(q) + 1
    BY <1>1
  <1>3. \A r : Holds(Append(q, m), r) => Holds(q, r) \/ r = m
    BY <1>1, <1>2 DEF Holds
  <1>4. ASSUME Once(q), ~Holds(q, m) PROVE Once(Append(q, m))
    BY <1>1, <1>2, <1>4 DEF Once, Holds
  <1>. QED  BY <1>3, <1>4, AppendIsConcat

LEMMA DropQueue ==
  ASSUME NEW q \in Seq(Requests), NEW n \in 1 .. Len(q), Once(q)
  PROVE  /\ Once(SubSeq(q, n + 1, Len(q)))
         /\ \A r : Holds(SubSeq(q, n + 1, Len(q)), r) => Holds(q, r)
  <1> DEFINE d == SubSeq(q, n + 1, Len(q))
  <1>1. /\ Len(q) \in Nat /\ Len(d) = Len(q) - n
        /\ \A i \in 1 .. Len(q) - n : d[i] = q[i + n]
    BY DropFirst, LenProperties
  <1> HIDE DEF d
  <1>2. \A i \in 1 .. Len(d) : i + n \in 1 .. Len(q) /\ d[i] = q[i + n]
    BY <1>1
  <1>3. Once(d)
    <2>1. ASSUME NEW i \in 1 .. Len(d), NEW j \in 1 .. Len(d), d[i] = d[j]
          PROVE  i = j
      <3>1. /\ i + n \in 1 .. Len(q) /\ j + n \in 1 .. Len(q)
            /\ q[i + n] = q[j + n]
        BY <1>2, <2>1
      <3>2. i + n = j + n
        BY <3>1 DEF Once
      <3>3. Len(d) \in Nat
        BY <1>1
      <3>. QED  BY <1>1, <3>2, <3>3
    <2>. QED  BY <2>1 DEF Once
  <1>4. \A r : Holds(d, r) => Holds(q, r)
    BY <1>2 DEF Holds
  <1>. QED  BY <1>3, <1>4 DEF d

InList(r) == Holds(m_serviceToRun, r)
InNet(k, r) == Holds(toServer[k], r)
Running(c, r) == at[c] # "idle" /\ cur[c] = r

\* Not executed, and not on the way to being so.
Fresh(r) == runs[r] = 0 /\ \A c \in Callers : ~Running(c, r)

OnceInv == Once(m_serviceToRun) /\ \A k \in Conns : Once(toServer[k])

\* A request moves from the list to one connection, and from there to the
\* thread of that connection.
PlaceInv(r) ==
  /\ r > issued \/ InList(r) => Fresh(r) /\ \A k \in Conns : ~InNet(k, r)
  /\ r > issued => ~InList(r)
  /\ \A k \in Conns :
       InNet(k, r) => Fresh(r) /\ \A j \in Conns : InNet(j, r) => j = k

RunInv(r) ==
  /\ \A c \in Callers :
       Running(c, r) => /\ runs[r] = 0 /\ r \notin Malformed
                        /\ \A d \in Callers : Running(d, r) => d = c
  /\ runs[r] <= 1
  /\ r \in Malformed => runs[r] = 0

\* The local thread calls once.
LocalInv ==
  /\ cur[Local] \in {0, LocalCall}
  /\ cur[Local] = 0 => runs[LocalCall] = 0
  /\ \A k \in Conns : ~Running(k, LocalCall)

\* AtMostOnce is not inductive: a request must not be in two places, nor in
\* one it has left.
PlacesInv ==
  /\ TypeInv /\ OnceInv /\ LocalInv
  /\ \A r \in Requests : PlaceInv(r)
  /\ \A r \in Calls : RunInv(r)

\* A step of the client or of the network moves no request into a call.
LEMMA CallsAlone ==
  ASSUME PlacesInv, UNCHANGED <<at, cur, runs>>
  PROVE  /\ LocalInv' /\ \A r \in Calls : RunInv(r)'
         /\ \A r : Fresh(r)' <=> Fresh(r)
  BY DEF PlacesInv, LocalInv, RunInv, Running, Fresh

\* A step by which requests only disappear from the list and the connections.
LEMMA Vanish ==
  ASSUME PlacesInv, TypeInv', UNCHANGED <<at, cur, runs, issued>>, OnceInv',
         \A r \in Requests : /\ InList(r)' => InList(r)
                             /\ \A k \in Conns : InNet(k, r)' => InNet(k, r)
  PROVE  PlacesInv'
  <1>1. ASSUME NEW r \in Requests PROVE PlaceInv(r)'
    <2>1. PlaceInv(r) /\ (Fresh(r)' <=> Fresh(r))
      BY CallsAlone DEF PlacesInv
    <2>. QED  BY <2>1 DEF PlaceInv
  <1>. QED  BY <1>1, CallsAlone DEF PlacesInv

LEMMA RunServiceOnce ==
  ASSUME PlacesInv, TypeInv', RunService
  PROVE  PlacesInv'
  <1>1. /\ m_serviceToRun \in Seq(Requests) /\ issued \in Nat
        /\ issued + 1 \in Requests /\ issued' = issued + 1
        /\ m_serviceToRun' = Append(m_serviceToRun, issued + 1)
        /\ UNCHANGED <<toServer, at, cur, runs>>
    BY ServiceAssumption
    DEF PlacesInv, TypeInv, ListTypeOK, RunService, AddService, Requests,
        ServiceAssumption, socketVars, netVars, callVars
  <1>2. PlaceInv(issued + 1) /\ issued + 1 > issued
    BY <1>1 DEF PlacesInv
  <1>3. OnceInv'
    BY <1>1, <1>2, AppendQueue DEF PlacesInv, OnceInv, PlaceInv, InList
  <1>4. ASSUME NEW r \in Requests PROVE PlaceInv(r)'
    <2>1. PlaceInv(r) /\ (Fresh(r)' <=> Fresh(r)) /\ r \in Int
      BY <1>1, CallsAlone DEF PlacesInv, Requests
    <2>2. InList(r)' => InList(r) \/ r = issued + 1
      BY <1>1, AppendQueue DEF InList
    <2>3. \A k \in Conns : InNet(k, r)' <=> InNet(k, r)
      BY <1>1 DEF InNet
    <2>4. /\ r > issued' => r > issued /\ r # issued + 1
          /\ r = issued + 1 => r > issued
      BY <1>1, <2>1
    <2>. QED  BY <2>1, <2>2, <2>3, <2>4 DEF PlaceInv
  <1>. QED  BY <1>1, <1>3, <1>4, CallsAlone DEF PlacesInv

LEMMA HandlerSendOnce ==
  ASSUME PlacesInv, TypeInv', HandlerSend
  PROVE  PlacesInv'
  <1> DEFINE h == Head(m_serviceToRun)
  <1>1. /\ m_serviceToRun \in Seq(Requests) /\ m_serviceToRun # <<>>
        /\ toServer \in [Conns -> Seq(Requests)] /\ sock \in Conns
        /\ Once(m_serviceToRun) /\ \A k \in Conns : Once(toServer[k])
        /\ UNCHANGED <<at, cur, runs, issued>>
    BY DEF PlacesInv, OnceInv, TypeInv, ListTypeOK, NetTypeOK, SocketTypeOK,
           SockInUse, HandlerSend, callVars
  <1>2. /\ h \in Requests /\ InList(h) /\ Once(Tail(m_serviceToRun))
        /\ \A r : Holds(Tail(m_serviceToRun), r) => InList(r) /\ r # h
    BY <1>1, TailQueue, HeadTailProperties DEF InList
  <1>3. CASE UNCHANGED <<toServer, m_serviceToRun>>
    BY <1>1, <1>3, Vanish DEF PlacesInv, OnceInv, InList, InNet
  <1>4. CASE /\ toServer' = Sent(toServer, sock, <<h>>)
             /\ m_serviceToRun' = Tail(m_serviceToRun)
    <2>1. PlaceInv(h) /\ ~InNet(sock, h)
      BY <1>1, <1>2 DEF PlacesInv, PlaceInv
    <2>2. /\ toServer'[sock] = toServer[sock] \/ toServer'[sock] = Append(toServer[sock], h)
          /\ \A k \in Conns : k # sock => toServer'[k] = toServer[k]
      <3>1. toServer[sock] \o <<h>> = Append(toServer[sock], h)
        BY <1>1, <1>2, AppendQueue
      <3>2. toServer' = toServer \/ toServer' = [toServer EXCEPT ![sock] = toServer[sock] \o <<h>>]
        BY <1>4 DEF Sent
      <3>. QED  BY <1>1, <3>1, <3>2
    <2>3. \A k \in Conns : toServer[k] \in Seq(Requests)
      BY <1>1
    <2>4. /\ Once(Append(toServer[sock], h))
          /\ \A r : Holds(Append(toServer[sock], h), r) => InNet(sock, r) \/ r = h
      BY <1>1, <1>2, <2>1, <2>3, AppendQueue DEF InNet
    <2>5. OnceInv'
      BY <1>1, <1>2, <1>4, <2>2, <2>4 DEF OnceInv
    <2>6. ASSUME NEW r \in Requests PROVE PlaceInv(r)'
      <3>1. PlaceInv(r) /\ (Fresh(r)' <=> Fresh(r))
        BY <1>1, CallsAlone DEF PlacesInv
      <3>2. InList(r)' => InList(r) /\ r # h
        BY <1>2, <1>4 DEF InList
      <3>3. \A k \in Conns : InNet(k, r)' => InNet(k, r) \/ (r = h /\ k = sock)
        BY <2>2, <2>4 DEF InNet
      <3>4. CASE r = h
        <4>1. Fresh(h) /\ ~(h > issued) /\ \A k \in Conns : ~InNet(k, h)
          BY <1>2, <2>1 DEF PlaceInv
        <4>. QED  BY <1>1, <3>1, <3>2, <3>3, <3>4, <4>1 DEF PlaceInv
      <3>5. CASE r # h
        BY <1>1, <3>1, <3>2, <3>3, <3>5 DEF PlaceInv
      <3>. QED  BY <3>4, <3>5
    <2>. QED  BY <1>1, <2>5, <2>6, CallsAlone DEF PlacesInv
  <1>. QED  BY <1>3, <1>4 DEF HandlerSend, HandlerFails, Erase

\* Messages that are lost, or read and not run.
LEMMA QueueShrinks ==
  ASSUME PlacesInv, TypeInv', NEW k \in Conns,
         UNCHANGED <<at, cur, runs, issued, m_serviceToRun>>,
         \/ UNCHANGED toServer
         \/ toServer' = [toServer EXCEPT ![k] = <<>>]
         \/ HasMessage(toServer, k) /\ toServer' = Consumed(toServer, k)
         \/ \E n \in 1 .. Len(toServer[k]) :
              toServer' = [toServer EXCEPT
                             ![k] = SubSeq(toServer[k], n + 1, Len(toServer[k]))]
  PROVE  PlacesInv'
  <1>1. /\ toServer \in [Conns -> Seq(Requests)] /\ toServer[k] \in Seq(Requests)
        /\ \A j \in Conns : Once(toServer[j])
        /\ Once(m_serviceToRun)
    BY DEF PlacesInv, OnceInv, TypeInv, NetTypeOK, SocketTypeOK
  <1>2. /\ \A j \in Conns : j # k => toServer'[j] = toServer[j]
        /\ Once(toServer'[k]) /\ \A r : Holds(toServer'[k], r) => Holds(toServer[k], r)
    <2>1. CASE UNCHANGED toServer
      BY <1>1, <2>1
    <2>2. CASE toServer' = [toServer EXCEPT ![k] = <<>>]
      BY <1>1, <2>2, EmptyQueue
    <2>3. CASE HasMessage(toServer, k) /\ toServer' = Consumed(toServer, k)
      <3>1. /\ toServer'[k] = Tail(toServer[k]) /\ toServer[k] # <<>>
            /\ \A j \in Conns : j # k => toServer'[j] = toServer[j]
        BY <1>1, <2>3 DEF HasMessage, Consumed
      <3>. QED  BY <1>1, <3>1, TailQueue
    <2>4. CASE \E n \in 1 .. Len(toServer[k]) :
                 toServer' = [toServer EXCEPT
                                ![k] = SubSeq(toServer[k], n + 1, Len(toServer[k]))]
      <3>1. PICK n \in 1 .. Len(toServer[k]) :
              toServer' = [toServer EXCEPT
                             ![k] = SubSeq(toServer[k], n + 1, Len(toServer[k]))]
        BY <2>4
      <3>2. /\ toServer'[k] = SubSeq(toServer[k], n + 1, Len(toServer[k]))
            /\ \A j \in Conns : j # k => toServer'[j] = toServer[j]
        BY <1>1, <3>1
      <3>. QED  BY <1>1, <3>2, DropQueue
    <2>. QED  BY <2>1, <2>2, <2>3, <2>4
  <1>3. OnceInv'
    BY <1>1, <1>2 DEF OnceInv
  <1>4. \A r \in Requests : /\ InList(r)' => InList(r)
                            /\ \A j \in Conns : InNet(j, r)' => InNet(j, r)
    BY <1>2 DEF InList, InNet
  <1>. QED  BY <1>3, <1>4, Vanish

\* A thread that takes a request to run it takes it from its connection.
LEMMA TakeOnce ==
  ASSUME PlacesInv, TypeInv', NEW k \in Conns, WorkerTake(k)
  PROVE  PlacesInv'
  <1> DEFINE h == Head(toServer[k])
  <1>1. /\ toServer \in [Conns -> Seq(Requests)] /\ toServer[k] \in Seq(Requests)
        /\ toServer[k] # <<>> /\ HasMessage(toServer, k)
        /\ \A j \in Conns : Once(toServer[j])
        /\ Once(m_serviceToRun)
        /\ UNCHANGED <<runs, issued, m_serviceToRun>>
        /\ at \in [Callers -> Positions] /\ cur \in [Callers -> Values]
        /\ k \in Callers /\ at[k] = "idle" /\ k # Local
    BY Names DEF PlacesInv, OnceInv, TypeInv, NetTypeOK, SocketTypeOK, CallTypeOK,
             WorkerTake, HasMessage, clientListVars
  <1>2. CASE UNCHANGED <<at, cur>>
    BY <1>1, <1>2, QueueShrinks DEF WorkerTake
  <1>3. CASE h \notin Malformed /\ Call(k, h) /\ toServer' = Consumed(toServer, k)
    <2>1. /\ toServer'[k] = Tail(toServer[k]) /\ h \in Requests
          /\ \A j \in Conns : j # k => toServer'[j] = toServer[j]
      BY <1>1, <1>3, HeadTailProperties DEF Consumed
    <2>2. /\ Once(Tail(toServer[k])) /\ InNet(k, h)
          /\ \A r : Holds(Tail(toServer[k]), r) => InNet(k, r) /\ r # h
      BY <1>1, TailQueue DEF InNet
    <2>3. OnceInv'
      BY <1>1, <2>1, <2>2 DEF OnceInv
    <2>4. \A c \in Callers : \A r : Running(c, r)' <=> IF c = k THEN r = h
                                                       ELSE Running(c, r)
      BY <1>1, <1>3 DEF Call, Running
    <2>5. /\ PlaceInv(h) /\ Fresh(h) /\ ~(h > issued) /\ ~InList(h)
          /\ \A j \in Conns : InNet(j, h) => j = k
      BY <2>1, <2>2 DEF PlacesInv, PlaceInv
    <2>6. ASSUME NEW r \in Requests PROVE PlaceInv(r)'
      <3>1. PlaceInv(r) /\ (InList(r)' <=> InList(r))
        BY <1>1 DEF PlacesInv, InList
      <3>2. \A j \in Conns : InNet(j, r)' => InNet(j, r) /\ (r = h => j # k)
        BY <2>1, <2>2 DEF InNet
      <3>3. CASE r = h
        <4>1. \A j \in Conns : ~InNet(j, r)'
          BY <2>5, <3>2, <3>3
        <4>. QED  BY <1>1, <2>5, <3>1, <3>3, <4>1 DEF PlaceInv
      <3>4. CASE r # h
        <4>1. Fresh(r) => Fresh(r)'
          BY <1>1, <2>4, <3>4 DEF Fresh
        <4>. QED  BY <1>1, <3>1, <3>2, <4>1 DEF PlaceInv
      <3>. QED  BY <3>3, <3>4
    <2>7. ASSUME NEW r \in Calls PROVE RunInv(r)'
      <3>1. RunInv(r)
        BY DEF PlacesInv
      <3>2. CASE r = h
        <4>1. /\ runs'[r] = 0 /\ \A c \in Callers : Running(c, r)' => c = k
          BY <1>1, <2>4, <2>5, <3>2 DEF Fresh
        <4>. QED  BY <1>3, <3>2, <4>1 DEF RunInv
      <3>3. CASE r # h
        <4>1. \A c \in Callers : Running(c, r)' => Running(c, r)
          BY <2>4, <3>3
        <4>. QED  BY <1>1, <3>1, <4>1 DEF RunInv
      <3>. QED  BY <3>2, <3>3
    <2>8. LocalInv'
      <3>1. h # LocalCall /\ cur'[Local] = cur[Local]
        BY <1>1, <1>3, <2>1, Names DEF Call
      <3>2. \A j \in Conns : ~Running(j, LocalCall)'
        BY <2>4, <3>1, Names DEF PlacesInv, LocalInv
      <3>. QED  BY <1>1, <3>1, <3>2 DEF PlacesInv, LocalInv
    <2>. QED  BY <2>3, <2>6, <2>7, <2>8 DEF PlacesInv
  <1>. QED  BY <1>2, <1>3 DEF WorkerTake

LEMMA LocalOnce ==
  ASSUME PlacesInv, TypeInv', LocalCalls
  PROVE  PlacesInv'
  <1>1. /\ UNCHANGED <<toServer, m_serviceToRun, issued, runs>>
        /\ at \in [Callers -> Positions] /\ cur \in [Callers -> Values]
        /\ Local \in Callers /\ at[Local] = "idle" /\ cur[Local] = 0
    BY Names DEF PlacesInv, TypeInv, CallTypeOK, LocalCalls, socketVars, netVars,
             clientListVars
  <1>2. /\ \A c \in Callers : \A r : Running(c, r)' <=> IF c = Local THEN r = LocalCall
                                                        ELSE Running(c, r)
        /\ cur'[Local] = LocalCall
    BY <1>1 DEF LocalCalls, Call, Running
  <1>3. /\ runs[LocalCall] = 0
        /\ \A c \in Callers : ~Running(c, LocalCall)
    BY <1>1, Names DEF PlacesInv, LocalInv, Running
  <1>4. ASSUME NEW r \in Requests PROVE PlaceInv(r)'
    <2>1. PlaceInv(r) /\ r # LocalCall
      BY Names DEF PlacesInv
    <2>2. /\ Fresh(r) => Fresh(r)'
          /\ InList(r)' <=> InList(r)
          /\ \A k \in Conns : InNet(k, r)' <=> InNet(k, r)
      BY <1>1, <1>2, <2>1 DEF Fresh, InList, InNet
    <2>. QED  BY <1>1, <2>1, <2>2 DEF PlaceInv
  <1>5. ASSUME NEW r \in Calls PROVE RunInv(r)'
    <2>1. RunInv(r)
      BY DEF PlacesInv
    <2>2. CASE r = LocalCall
      <3>1. r \notin Malformed
        BY <2>2, Names, ServiceAssumption DEF ServiceAssumption, Requests
      <3>2. runs'[r] = 0 /\ \A c \in Callers : Running(c, r)' => c = Local
        BY <1>1, <1>2, <1>3, <2>2
      <3>. QED  BY <3>1, <3>2 DEF RunInv
    <2>3. CASE r # LocalCall
      <3>1. \A c \in Callers : Running(c, r)' => Running(c, r)
        BY <1>2, <2>3
      <3>. QED  BY <1>1, <2>1, <3>1 DEF RunInv
    <2>. QED  BY <2>2, <2>3
  <1>6. LocalInv'
    <2>1. \A k \in Conns : ~Running(k, LocalCall)'
      BY <1>2, <1>3, Names
    <2>. QED  BY <1>2, <2>1, Names DEF LocalInv
  <1>7. OnceInv'
    BY <1>1 DEF PlacesInv, OnceInv
  <1>. QED  BY <1>4, <1>5, <1>6, <1>7 DEF PlacesInv

\* The steps of call before execute ends, and the steps elsewhere.
LEMMA SamePlaces ==
  ASSUME PlacesInv, TypeInv',
         UNCHANGED <<toServer, m_serviceToRun, issued, runs, cur>>,
         \A c \in Callers : at'[c] = "idle" <=> at[c] = "idle"
  PROVE  PlacesInv'
  <1>1. \A c \in Callers : \A r : Running(c, r)' <=> Running(c, r)
    BY DEF Running
  <1>2. /\ \A r : Fresh(r)' <=> Fresh(r)
        /\ \A r : InList(r)' <=> InList(r)
        /\ \A k \in Conns : \A r : InNet(k, r)' <=> InNet(k, r)
    BY <1>1 DEF Fresh, InList, InNet
  <1>3. \A r \in Requests : PlaceInv(r)'
    BY <1>2 DEF PlacesInv, PlaceInv
  <1>4. \A r \in Calls : RunInv(r)'
    BY <1>1 DEF PlacesInv, RunInv
  <1>5. LocalInv' /\ OnceInv'
    BY <1>1, Names DEF PlacesInv, LocalInv, OnceInv
  <1>. QED  BY <1>3, <1>4, <1>5 DEF PlacesInv

LEMMA ExecutedOnce ==
  ASSUME PlacesInv, TypeInv', NEW c \in Callers, Executed(c)
  PROVE  PlacesInv'
  <1> DEFINE h == cur[c]
  <1>1. /\ UNCHANGED <<toServer, m_serviceToRun, issued, cur>>
        /\ at \in [Callers -> Positions] /\ runs \in [Calls -> Nat]
        /\ h \in Calls /\ Running(c, h)
        /\ at' = [at EXCEPT ![c] = "idle"]
        /\ runs' = [runs EXCEPT ![h] = @ + 1]
    BY DEF PlacesInv, TypeInv, CallTypeOK, CallersBusy, Executed, socketVars,
           netVars, clientListVars, Running
  <1>2. \A d \in Callers : \A r : Running(d, r)' <=> d # c /\ Running(d, r)
    BY <1>1 DEF Running
  <1>3. /\ RunInv(h) /\ runs[h] = 0 /\ h \notin Malformed
        /\ \A d \in Callers : Running(d, h) => d = c
    BY <1>1 DEF PlacesInv, RunInv
  <1>4. runs'[h] = 1 /\ \A r \in Calls : r # h => runs'[r] = runs[r]
    BY <1>1, <1>3
  <1>5. ASSUME NEW r \in Requests PROVE PlaceInv(r)'
    <2>1. PlaceInv(r) /\ r \in Calls
      BY Names DEF PlacesInv
    <2>2. /\ InList(r)' <=> InList(r)
          /\ \A k \in Conns : InNet(k, r)' <=> InNet(k, r)
      BY <1>1 DEF InList, InNet
    <2>3. r = h => ~Fresh(r)
      BY <1>1 DEF Fresh
    <2>4. r # h /\ Fresh(r) => Fresh(r)'
      BY <1>2, <1>4, <2>1 DEF Fresh
    <2>. QED  BY <1>1, <2>1, <2>2, <2>3, <2>4 DEF PlaceInv
  <1>6. ASSUME NEW r \in Calls PROVE RunInv(r)'
    <2>1. RunInv(r)
      BY DEF PlacesInv
    <2>2. CASE r = h
      <3>1. \A d \in Callers : ~Running(d, r)'
        BY <1>2, <1>3, <2>2
      <3>. QED  BY <1>3, <1>4, <2>2, <3>1 DEF RunInv
    <2>3. CASE r # h
      <3>1. \A d \in Callers : Running(d, r)' => Running(d, r)
        BY <1>2
      <3>. QED  BY <1>4, <2>1, <2>3, <3>1 DEF RunInv
    <2>. QED  BY <2>2, <2>3
  <1>7. LocalInv'
    <2>1. cur[Local] = 0 => h # LocalCall
      <3>1. c \in Conns \/ c = Local
        BY Names
      <3>. QED  BY <1>1, <3>1, Names DEF PlacesInv, LocalInv, Running
    <2>2. \A k \in Conns : ~Running(k, LocalCall)'
      BY <1>2, Names DEF PlacesInv, LocalInv
    <2>. QED  BY <1>1, <1>4, <2>1, <2>2, Names DEF PlacesInv, LocalInv
  <1>8. OnceInv'
    BY <1>1 DEF PlacesInv, OnceInv
  <1>. QED  BY <1>5, <1>6, <1>7, <1>8 DEF PlacesInv

LEMMA PlacesInitially ==
  ASSUME Init
  PROVE  PlacesInv
  <1>1. /\ m_serviceToRun = <<>> /\ issued = 0
        /\ \A k \in Conns : toServer[k] = <<>>
        /\ \A c \in Callers : at[c] = "idle" /\ cur[c] = 0
        /\ \A r \in Calls : runs[r] = 0
    BY DEF Init, SocketInit
  <1>2. OnceInv /\ \A r : ~InList(r) /\ \A k \in Conns : ~InNet(k, r)
    BY <1>1, EmptyQueue DEF OnceInv, InList, InNet
  <1>3. \A c \in Callers : \A r : ~Running(c, r)
    BY <1>1 DEF Running
  <1>4. \A r \in Requests : PlaceInv(r)
    BY <1>1, <1>2, <1>3, Names DEF PlaceInv, Fresh
  <1>5. (\A r \in Calls : RunInv(r)) /\ LocalInv
    BY <1>1, <1>3, Names DEF RunInv, LocalInv
  <1>. QED  BY <1>2, <1>4, <1>5, TypeInitially DEF PlacesInv

LEMMA PlacesStep ==
  ASSUME PlacesInv, [Next]_vars
  PROVE  PlacesInv'
  <1>1. TypeInv'
    BY TypeStep DEF PlacesInv
  <1>2. at \in [Callers -> Positions]
    BY DEF PlacesInv, TypeInv, CallTypeOK
  <1>3. CASE RunService
    BY <1>1, <1>3, RunServiceOnce
  <1>4. CASE HandlerSend
    BY <1>1, <1>4, HandlerSendOnce
  <1>5. CASE \/ UNCHANGED vars \/ (Connect /\ Other) \/ HandlerLock
             \/ HandlerUnlock \/ ClientReconnect
             \/ \E k \in Conns : WorkerClosed(k) \/ WorkerExit(k)
    <2>1. UNCHANGED <<toServer, m_serviceToRun, issued, runs, cur, at>>
      BY <1>5 DEF vars, Other, HandlerLock, HandlerUnlock, HandlerFails,
         ClientReconnect, WorkerClosed, WorkerExit, callVars, clientListVars,
         socketVars, netVars, Connect, Reconnect, ConnectOK, ConnectFails,
         WorkerReceiveError, WorkerEnds
    <2>. QED  BY <1>1, <2>1, SamePlaces
  <1>6. CASE \E k \in Conns : WorkerTake(k)
    BY <1>1, <1>6, TakeOnce
  <1>7. CASE LocalCalls
    BY <1>1, <1>7, LocalOnce
  <1>8. CASE \E c \in Callers : SetParam(c) \/ Lock(c) \/ Execute(c)
    <2>1. /\ UNCHANGED <<toServer, m_serviceToRun, issued, runs, cur>>
          /\ \A c \in Callers : at'[c] = "idle" <=> at[c] = "idle"
      BY <1>2, <1>8 DEF SetParam, Lock, Execute, socketVars, netVars,
         clientListVars
    <2>. QED  BY <1>1, <2>1, SamePlaces
  <1>9. CASE \E c \in Callers : Executed(c)
    BY <1>1, <1>9, ExecutedOnce
  <1>10. CASE \E k \in Conns : (Break(k) \/ CutMessage(k)) /\ Other
    <2>1. UNCHANGED <<at, cur, runs, issued, m_serviceToRun>>
      BY <1>10 DEF Other, callVars, clientListVars
    <2>. QED  BY <1>1, <1>10, <2>1, QueueShrinks DEF Break, CutMessage
  <1>. QED  BY <1>3, <1>4, <1>5, <1>6, <1>7, <1>8, <1>9, <1>10
            DEF Next, Worker, ClientThread, CallSteps

\* A request given to runService is executed at most once and a malformed one
\* never, over any number of failed sends, reconnections and lost messages.
THEOREM RunsAtMostOnce == Spec => []AtMostOnce
  <1>1. ASSUME PlacesInv PROVE AtMostOnce
    <2>1. \A r \in Malformed : r \in Calls
      BY ServiceAssumption, Names DEF ServiceAssumption, Requests
    <2>. QED  BY <1>1, <2>1 DEF PlacesInv, RunInv, AtMostOnce
  <1>. QED  BY PlacesInitially, PlacesStep, <1>1, PTL DEF Spec

-----------------------------------------------------------------------------
(* The parameters an execution uses.                                       *)

\* OwnParams is not inductive: a parameter that is set and not read yet, and
\* one that was read, is the caller's own exactly when nobody raced it; and
\* no request that has not run is among the raced ones.
CallInv(c) ==
  /\ at[c] = "param1" => raced[c] = {}
  /\ at[c] = "param2" => 2 \notin raced[c]
  /\ \A i \in Exposed(c) : i \in raced[c] <=> Params[i] # cur[c]
  /\ \A i \in 1 .. Len(got[c]) : i \in raced[c] <=> got[c][i] # cur[c]
  /\ at[c] # "execute" => got[c] = <<>>

MixedInv == \A r \in Calls, i \in 1 .. 2 : <<r, i>> \in mixed => runs[r] > 0

ParamsInv == PlacesInv /\ OwnParams /\ MixedInv /\ \A c \in Callers : CallInv(c)

\* What the steps of a call need to know of the state.
CallTypes ==
  /\ at \in [Callers -> Positions] /\ cur \in [Callers -> Values]
  /\ raced \in [Callers -> SUBSET (1 .. 2)] /\ Params \in [1 .. 2 -> Values]
  /\ got \in [Callers -> Seq(Values)]
  /\ used \in [Calls -> Seq(Values)] /\ runs \in [Calls -> Nat]
  /\ Len(<<>>) = 0

LEMMA CallsTyped ==
  ASSUME ParamsInv
  PROVE  CallTypes
  BY EmptySeq DEF ParamsInv, PlacesInv, TypeInv, CallTypeOK, CallTypes

\* Two callers never run the same request.
LEMMA CallsDiffer ==
  ASSUME ParamsInv, NEW c \in Callers, at[c] # "idle"
  PROVE  /\ cur[c] \in Calls /\ runs[cur[c]] = 0
         /\ \A d \in Callers : d # c /\ at[d] # "idle" => cur[d] # cur[c]
  <1>1. cur[c] \in Calls
    BY DEF ParamsInv, PlacesInv, TypeInv, CallersBusy
  <1>2. RunInv(cur[c]) /\ Running(c, cur[c])
    BY <1>1 DEF ParamsInv, PlacesInv, Running
  <1>. QED  BY <1>1, <1>2 DEF RunInv, Running

\* A step that begins a call, at most.
LEMMA BeginKept ==
  ASSUME ParamsInv, PlacesInv', NEW c \in Callers, NEW r,
         \/ UNCHANGED <<at, cur, raced>>
         \/ Call(c, r) /\ at[c] = "idle",
         UNCHANGED <<Params, got, runs, used, mixed>>
  PROVE  ParamsInv'
  <1>1. OwnParams' /\ MixedInv'
    BY DEF ParamsInv, OwnParams, MixedInv
  <1>2. ASSUME NEW d \in Callers PROVE CallInv(d)'
    <2>1. CallInv(d) /\ CallTypes
      BY CallsTyped DEF ParamsInv
    <2>2. CASE UNCHANGED <<at, cur, raced>> \/ (Call(c, r) /\ d # c)
      <3>1. at'[d] = at[d] /\ cur'[d] = cur[d] /\ raced'[d] = raced[d]
        BY <2>1, <2>2 DEF Call, CallTypes
      <3>2. Exposed(d)' = Exposed(d)
        BY <3>1 DEF Exposed
      <3>. QED  BY <2>1, <3>1, <3>2 DEF CallInv
    <2>3. CASE Call(c, r) /\ at[c] = "idle" /\ d = c
      <3>1. at'[d] = "param1" /\ raced'[d] = {} /\ got'[d] = <<>>
        BY <2>1, <2>3 DEF Call, CallTypes, CallInv
      <3>2. Exposed(d)' = {}
        BY <3>1 DEF Exposed
      <3>. QED  BY <2>1, <3>1, <3>2 DEF CallInv, CallTypes
    <2>. QED  BY <2>2, <2>3
  <1>. QED  BY <1>1, <1>2 DEF ParamsInv

\* What c sets is another value than that of any caller it is exposed to.
LEMMA SetParamOthers ==
  ASSUME ParamsInv, NEW c \in Callers, SetParam(c), NEW d \in Callers, d # c
  PROVE  CallInv(d)'
  <1>1. CallInv(d) /\ CallTypes
    BY CallsTyped DEF ParamsInv
  <1> DEFINE p == ParamIndex(c)
  <1>2. /\ p \in 1 .. 2 /\ Params' = [Params EXCEPT ![p] = cur[c]]
        /\ at'[d] = at[d] /\ UNCHANGED <<cur, got>>
        /\ raced'[d] = raced[d] \cup ({p} \cap Exposed(d))
        /\ at[c] # "idle"
    BY <1>1 DEF SetParam, ParamIndex, CallTypes
  <1> HIDE DEF p
  <1>3. Exposed(d)' = Exposed(d) /\ Exposed(d) \subseteq 1 .. 2
    BY <1>2 DEF Exposed
  <1>4. at[d] # "idle" => cur[d] # cur[c]
    BY <1>2, CallsDiffer
  <1>5. \A i \in Exposed(d) : at[d] # "idle" /\ i > Len(got[d])
    BY <1>1 DEF Exposed, CallTypes
  <1>6. ASSUME NEW i \in Exposed(d)
        PROVE  i \in raced'[d] <=> Params'[i] # cur'[d]
    <2>1. CASE i = p
      BY <1>1, <1>2, <1>3, <1>4, <1>5, <1>6, <2>1 DEF CallTypes
    <2>2. CASE i # p
      BY <1>1, <1>2, <1>3, <1>6, <2>2 DEF CallTypes, CallInv
    <2>. QED  BY <2>1, <2>2
  <1>7. ASSUME NEW i \in 1 .. Len(got[d])
        PROVE  i \in raced'[d] <=> got'[d][i] # cur'[d]
    <2>1. Len(got[d]) \in Nat
      BY <1>1, LenProperties DEF CallTypes
    <2>2. i \notin Exposed(d)
      BY <1>5, <1>7, <2>1 DEF Exposed
    <2>. QED  BY <1>1, <1>2, <2>2 DEF CallInv
  <1>8. at[d] = "param1" => Exposed(d) = {}
    BY DEF Exposed
  <1>9. at[d] = "param2" => 2 \notin Exposed(d)
    BY DEF Exposed
  <1>. QED  BY <1>1, <1>2, <1>3, <1>6, <1>7, <1>8, <1>9 DEF CallInv

LEMMA SetParamKept ==
  ASSUME ParamsInv, PlacesInv', NEW c \in Callers, SetParam(c)
  PROVE  ParamsInv'
  <1>1. OwnParams' /\ MixedInv'
    BY DEF ParamsInv, OwnParams, MixedInv, SetParam
  <1>2. CallInv(c)'
    <2>1. CallInv(c) /\ CallTypes
      BY CallsTyped DEF ParamsInv
    <2>2. /\ got[c] = <<>> /\ UNCHANGED <<cur, got>> /\ raced'[c] = raced[c]
          /\ Len(got'[c]) = 0
      BY <2>1 DEF SetParam, CallInv, CallTypes
    <2>3. CASE at[c] = "param1"
      <3>1. at'[c] = "param2" /\ Params'[1] = cur'[c] /\ raced'[c] = {}
        BY <2>1, <2>2, <2>3 DEF SetParam, ParamIndex, CallTypes, CallInv
      <3>2. Exposed(c)' = {1}
        BY <2>2, <3>1 DEF Exposed
      <3>. QED  BY <2>2, <3>1, <3>2 DEF CallInv
    <2>4. CASE at[c] = "param2"
      <3>1. /\ at'[c] = "lock" /\ Params'[2] = cur'[c] /\ Params'[1] = Params[1]
            /\ 2 \notin raced'[c]
        BY <2>1, <2>2, <2>4 DEF SetParam, ParamIndex, CallTypes, CallInv
      <3>2. Exposed(c)' = {1, 2}
        BY <2>2, <3>1 DEF Exposed
      <3>3. 1 \in Exposed(c)
        BY <2>2, <2>4 DEF Exposed
      <3>4. 1 \in raced'[c] <=> Params'[1] # cur'[c]
        BY <2>1, <2>2, <3>1, <3>3 DEF CallInv
      <3>. QED  BY <2>2, <3>1, <3>2, <3>4 DEF CallInv
    <2>. QED  BY <2>3, <2>4 DEF SetParam
  <1>. QED  BY <1>1, <1>2, SetParamOthers DEF ParamsInv

LEMMA LockKept ==
  ASSUME ParamsInv, PlacesInv', NEW c \in Callers, Lock(c)
  PROVE  ParamsInv'
  <1>1. OwnParams' /\ MixedInv'
    BY DEF ParamsInv, OwnParams, MixedInv, Lock
  <1>2. ASSUME NEW d \in Callers PROVE CallInv(d)'
    <2>1. /\ CallInv(d) /\ CallTypes /\ UNCHANGED <<cur, Params, got, raced>>
          /\ \/ at'[d] = at[d]
             \/ at[d] = "lock" /\ at'[d] = "execute"
      BY CallsTyped DEF ParamsInv, Lock, CallTypes
    <2>2. Exposed(d)' = Exposed(d)
      BY <2>1 DEF Exposed
    <2>. QED  BY <2>1, <2>2 DEF CallInv
  <1>. QED  BY <1>1, <1>2 DEF ParamsInv

LEMMA ExecuteKept ==
  ASSUME ParamsInv, PlacesInv', NEW c \in Callers, Execute(c)
  PROVE  ParamsInv'
  <1>1. OwnParams' /\ MixedInv'
    BY DEF ParamsInv, OwnParams, MixedInv, Execute
  <1>2. ASSUME NEW d \in Callers PROVE CallInv(d)'
    <2>1. /\ CallInv(d) /\ CallTypes /\ UNCHANGED <<at, cur, Params, raced>>
      BY CallsTyped DEF ParamsInv, Execute
    <2>2. CASE d # c
      <3>1. got'[d] = got[d]
        BY <2>1, <2>2 DEF Execute, CallTypes
      <3>2. Exposed(d)' = Exposed(d)
        BY <2>1, <3>1 DEF Exposed
      <3>. QED  BY <2>1, <3>1, <3>2 DEF CallInv
    <2>3. CASE d = c
      <3> DEFINE n == Len(got[c]) + 1
      <3>1. /\ at[c] = "execute" /\ got[c] \in Seq(Values) /\ Len(got[c]) \in Nat
            /\ n \in 1 .. 2 /\ got'[c] = Append(got[c], Params[n])
        BY <2>1, LenProperties DEF Execute, CallTypes
      <3>2. /\ Len(got'[c]) = n /\ got'[c][n] = Params[n]
            /\ \A i \in 1 .. Len(got[c]) : got'[c][i] = got[c][i]
        BY <2>1, <3>1, AppendProperties DEF CallTypes
      <3>3. n \in Exposed(c) /\ Exposed(c)' \subseteq Exposed(c)
        BY <2>1, <3>1, <3>2 DEF Exposed
      <3>4. ASSUME NEW i \in 1 .. Len(got'[c])
            PROVE  i \in raced'[c] <=> got'[c][i] # cur'[c]
        <4>1. i = n \/ i \in 1 .. Len(got[c])
          BY <3>1, <3>2, <3>4
        <4>. QED  BY <2>1, <2>3, <3>2, <3>3, <4>1 DEF CallInv
      <3>5. \A i \in Exposed(c)' : i \in raced'[c] <=> Params'[i] # cur'[c]
        BY <2>1, <2>3, <3>3 DEF CallInv
      <3>. QED  BY <2>1, <2>3, <3>1, <3>4, <3>5 DEF CallInv
    <2>. QED  BY <2>2, <2>3
  <1>. QED  BY <1>1, <1>2 DEF ParamsInv

LEMMA ExecutedKept ==
  ASSUME ParamsInv, PlacesInv', NEW c \in Callers, Executed(c)
  PROVE  ParamsInv'
  <1>1. /\ CallInv(c) /\ CallTypes /\ at[c] = "execute" /\ Len(got[c]) = 2
        /\ cur[c] \in Calls /\ runs[cur[c]] = 0
        /\ UNCHANGED <<cur, Params, raced>>
        /\ mixed' = mixed \cup ({cur[c]} \X raced[c])
    BY CallsTyped, CallsDiffer DEF ParamsInv, Executed
  <1>2. /\ runs'[cur[c]] = 1 /\ used'[cur[c]] = got[c]
        /\ \A r \in Calls : r # cur[c] => runs'[r] = runs[r] /\ used'[r] = used[r]
    BY <1>1 DEF Executed, CallTypes
  <1>3. ASSUME NEW r \in Calls, NEW i \in 1 .. 2
        PROVE  <<r, i>> \in mixed' <=>
                 IF r = cur[c] THEN i \in raced[c] ELSE <<r, i>> \in mixed
    <2>1. <<r, i>> \in {cur[c]} \X raced[c] <=> r = cur[c] /\ i \in raced[c]
      OBVIOUS
    <2>2. ~(<<cur[c], i>> \in mixed)
      <3>1. <<cur[c], i>> \in mixed => runs[cur[c]] > 0
        BY <1>1, Zenon DEF ParamsInv, MixedInv
      <3>. QED  BY <1>1, <3>1
    <2>. QED  BY <1>1, <2>1, <2>2
  <1>4. OwnParams'
    <2> SUFFICES ASSUME NEW r \in Calls, NEW i \in 1 .. 2, runs'[r] > 0
                 PROVE  used'[r][i] = r <=> <<r, i>> \notin mixed'
      BY DEF OwnParams
    <2>1. CASE r = cur[c]
      <3>1. <<r, i>> \in mixed' <=> i \in raced[c]
        BY <1>3, <2>1
      <3>2. used'[r] = got[c] /\ (i \in raced[c] <=> got[c][i] # cur[c])
        BY <1>1, <1>2, <2>1 DEF CallInv
      <3>. QED  BY <2>1, <3>1, <3>2
    <2>2. CASE r # cur[c]
      <3>1. <<r, i>> \in mixed' <=> <<r, i>> \in mixed
        BY <1>3, <2>2
      <3>2. used'[r] = used[r] /\ runs[r] > 0
        BY <1>2, <2>2
      <3>3. used[r][i] = r <=> <<r, i>> \notin mixed
        BY <3>2, Zenon DEF ParamsInv, OwnParams
      <3>. QED  BY <3>1, <3>2, <3>3
    <2>. QED  BY <2>1, <2>2
  <1>5. MixedInv'
    <2> SUFFICES ASSUME NEW r \in Calls, NEW i \in 1 .. 2, <<r, i>> \in mixed'
                 PROVE  runs'[r] > 0
      BY DEF MixedInv
    <2>1. CASE r = cur[c]
      BY <1>2, <2>1
    <2>2. CASE r # cur[c]
      <3>1. <<r, i>> \in mixed /\ runs'[r] = runs[r]
        BY <1>2, <1>3, <2>2
      <3>2. runs[r] > 0
        BY <3>1, Zenon DEF ParamsInv, MixedInv
      <3>. QED  BY <3>1, <3>2
    <2>. QED  BY <2>1, <2>2
  <1>6. ASSUME NEW d \in Callers PROVE CallInv(d)'
    <2>1. CallInv(d)
      BY DEF ParamsInv
    <2>2. CASE d = c
      <3>1. at'[c] = "idle" /\ got'[c] = <<>>
        BY <1>1 DEF Executed, CallTypes
      <3>2. Exposed(c)' = {}
        BY <3>1 DEF Exposed
      <3>. QED  BY <1>1, <2>2, <3>1, <3>2 DEF CallInv, CallTypes
    <2>3. CASE d # c
      <3>1. at'[d] = at[d] /\ got'[d] = got[d]
        BY <1>1, <2>3 DEF Executed, CallTypes
      <3>2. Exposed(d)' = Exposed(d)
        BY <3>1 DEF Exposed
      <3>. QED  BY <1>1, <2>1, <3>1, <3>2 DEF CallInv
    <2>. QED  BY <2>2, <2>3
  <1>. QED  BY <1>4, <1>5, <1>6 DEF ParamsInv

\* The steps that leave the calls alone.
LEMMA Elsewhere ==
  ASSUME \/ UNCHANGED vars
         \/ Connect /\ Other
         \/ RunService \/ ClientThread
         \/ \E k \in Conns : \/ WorkerClosed(k) \/ WorkerExit(k)
                             \/ (Break(k) \/ CutMessage(k)) /\ Other
  PROVE  UNCHANGED <<at, cur, raced, Params, got, runs, used, mixed>>
  BY DEF vars, Other, RunService, ClientThread, HandlerLock, HandlerSend,
     HandlerUnlock, ClientReconnect, WorkerClosed, WorkerExit, callVars

\* ControlObject::call: whatever threads call the service, an execution uses
\* the parameters of its own request, except those, and all of those, that
\* another caller sets between this one's setting and its reading them.
THEOREM ExecutesOwnParams == Spec => []OwnParams
  <1>1. ASSUME Init PROVE ParamsInv
    <2>1. /\ \A c \in Callers : at[c] = "idle" /\ got[c] = <<>>
          /\ \A r \in Calls : runs[r] = 0
          /\ mixed = {} /\ Len(<<>>) = 0
      BY <1>1, EmptySeq DEF Init
    <2>2. \A c \in Callers : Exposed(c) = {}
      BY <2>1 DEF Exposed
    <2>3. \A c \in Callers : CallInv(c)
      BY <2>1, <2>2 DEF CallInv
    <2>. QED  BY <1>1, <2>1, <2>3, PlacesInitially DEF ParamsInv, OwnParams, MixedInv
  <1>2. ASSUME ParamsInv, [Next]_vars PROVE ParamsInv'
    <2>1. PlacesInv'
      BY <1>2, PlacesStep DEF ParamsInv
    <2>2. CASE \/ UNCHANGED vars
               \/ Connect /\ Other
               \/ RunService \/ ClientThread
               \/ \E k \in Conns : \/ WorkerClosed(k) \/ WorkerExit(k)
                                   \/ (Break(k) \/ CutMessage(k)) /\ Other
      BY <1>2, <2>1, <2>2, Elsewhere, BeginKept, Names
    <2>3. CASE \E k \in Conns : WorkerTake(k)
      <3>1. PICK k \in Conns : WorkerTake(k)
        BY <2>3
      <3>2. k \in Callers
        BY Names
      <3>. QED  BY <1>2, <2>1, <3>1, <3>2, BeginKept DEF WorkerTake
    <2>4. CASE LocalCalls
      BY <1>2, <2>1, <2>4, BeginKept, Names DEF LocalCalls
    <2>5. CASE \E c \in Callers : CallSteps(c)
      BY <1>2, <2>1, <2>5, SetParamKept, LockKept, ExecuteKept, ExecutedKept
      DEF CallSteps
    <2>. QED  BY <1>2, <2>2, <2>3, <2>4, <2>5 DEF Next, Worker
  <1>3. ParamsInv => OwnParams
    BY DEF ParamsInv
  <1>. QED  BY <1>1, <1>2, <1>3, PTL DEF Spec
=============================================================================
