------------------------------- MODULE Service -------------------------------
(***************************************************************************)
(* Running a service of a control object from another process.             *)
(*                                                                         *)
(* The client's runService puts a request into m_serviceToRun of           *)
(* IckStormServiceSocket; its connection thread sends the requests.  At    *)
(* the server a thread per connection answers "Success" and then calls     *)
(* ControlObject::call, which sets the parameters of the service one by    *)
(* one and executes it under mutex_service.  A local thread calls the same *)
(* service.  The client never receives: the answers stay in its buffer.    *)
(*                                                                         *)
(* A request is its number; the two parameters it sets have that number as *)
(* their value.                                                            *)
(***************************************************************************)
EXTENDS Socket

CONSTANTS
  MaxRequests,  \* bound: requests of the client
  Malformed,    \* the requests with a wrong number of parameters
  Window        \* messages that fit into a connection nobody reads from

ASSUME ServiceAssumption ==
  MaxRequests \in Nat /\ Window \in Nat /\ Malformed \subseteq 1 .. MaxRequests

Requests == 1 .. MaxRequests
LocalCall == MaxRequests + 1   \* the call of the local thread
Calls == Requests \cup {LocalCall}
Local == 0                     \* that thread among the callers
Callers == Conns \cup {Local}
Nobody == -1

VARIABLES
  m_serviceToRun, issued,
  pc,        \* the client's thread: "top", or "send" with m_mutex locked
  stuck,     \* it returned without unlocking m_mutex
  at, cur,   \* per caller: where it is in call, and the request
  Params,    \* the parameters of the service
  owner,     \* of mutex_service
  got,       \* per caller: what execute has read
  raced,     \* per caller: its parameters that another one set since
  runs, used, mixed  \* executions, what they used, the raced parameters

clientListVars == <<m_serviceToRun, issued, pc, stuck>>
callVars == <<at, cur, Params, owner, got, raced, runs, used, mixed>>
vars == <<socketVars, clientListVars, callVars>>

-----------------------------------------------------------------------------
(* The client.                                                             *)

\* addService, under m_mutex.
AddService(r) ==
  /\ pc = "top" /\ ~stuck
  /\ m_serviceToRun' = Append(m_serviceToRun, r)

\* IckStormManager::runService.
RunService ==
  /\ issued < MaxRequests
  /\ issued' = issued + 1
  /\ AddService(issued + 1)
  /\ UNCHANGED <<socketVars, pc, stuck, callVars>>

HandlerLock ==
  /\ thread = "run" /\ pc = "top"
  /\ pc' = "send"
  /\ UNCHANGED <<socketVars, m_serviceToRun, issued, stuck, callVars>>

\* A failed send returns with m_mutex locked.
HandlerFails ==
  /\ thread' = "closed" /\ stuck' = TRUE /\ pc' = "top"
  /\ UNCHANGED <<toServer, m_serviceToRun>>

\* Mutant: the last request stays in the list.
EraseMutant ==
  m_serviceToRun' = IF Len(m_serviceToRun) = 1 THEN m_serviceToRun
                    ELSE Tail(m_serviceToRun)

\* A request that was sent leaves the list.
Erase == m_serviceToRun' = Tail(m_serviceToRun)

\* Send the next request.  send blocks while the connection is full.
HandlerSend ==
  /\ thread = "run" /\ pc = "send" /\ m_serviceToRun # <<>>
  /\ link[sock] = "up" => Len(toServer[sock]) < Window
  /\ \/ /\ TRUE \in SendResults(sock)
        /\ toServer' = Sent(toServer, sock, <<Head(m_serviceToRun)>>)
        /\ Erase
        /\ UNCHANGED <<thread, stuck, pc>>
     \/ /\ FALSE \in SendResults(sock)
        /\ HandlerFails
  /\ UNCHANGED <<link, toClient, faults, serverVars, sock, issued, callVars>>

\* Once a minute a heart beat, which may fail; then unlock.
HandlerUnlock ==
  /\ thread = "run" /\ pc = "send" /\ m_serviceToRun = <<>>
  /\ \/ pc' = "top" /\ UNCHANGED <<toServer, m_serviceToRun, thread, stuck>>
     \/ FALSE \in SendResults(sock) /\ HandlerFails
  /\ UNCHANGED <<link, toClient, faults, serverVars, sock, issued, callVars>>

\* A mutex whose owner ended is free.
ClientReconnect ==
  /\ Reconnect
  /\ stuck' = FALSE
  /\ UNCHANGED <<m_serviceToRun, issued, pc, callVars>>

-----------------------------------------------------------------------------
(* The server's connection threads.                                        *)

\* call with the parameters of request r by caller c begins.
Call(c, r) ==
  /\ at' = [at EXCEPT ![c] = "param1"]
  /\ cur' = [cur EXCEPT ![c] = r]
  /\ raced' = [raced EXCEPT ![c] = {}]

\* Take a request and answer it; call looks at it only then.  The send
\* blocks while the client's buffer is full; when it fails the request is
\* not run, nor are those that came in the same read.
WorkerTake(k) ==
  /\ worker[k] = "run" /\ at[k] = "idle" /\ HasMessage(toServer, k)
  /\ link[k] = "up" => Len(toClient[k]) < Window
  /\ LET r == Head(toServer[k]) IN
     /\ toClient' = Sent(toClient, k, <<r>>)
     /\ \/ /\ TRUE \in SendResults(k) /\ r \notin Malformed
           /\ Call(k, r)
           /\ toServer' = Consumed(toServer, k)
        \/ /\ TRUE \in SendResults(k) /\ r \in Malformed
           /\ toServer' = Consumed(toServer, k)
           /\ UNCHANGED <<at, cur, raced>>
        \/ /\ FALSE \in SendResults(k)
           /\ \E n \in 1 .. Len(toServer[k]) :
                toServer' = [toServer EXCEPT ![k] = SubSeq(@, n + 1, Len(@))]
           /\ UNCHANGED <<at, cur, raced>>
  /\ UNCHANGED <<link, faults, serverVars, clientVars, clientListVars, Params,
                 owner, got, runs, used, mixed>>

WorkerClosed(k) ==
  /\ at[k] = "idle"
  /\ WorkerReceiveError(k)
  /\ UNCHANGED <<clientListVars, callVars>>

WorkerExit(k) ==
  /\ WorkerEnds(k)
  /\ UNCHANGED <<clientListVars, callVars>>

-----------------------------------------------------------------------------
(* ControlObject.                                                          *)

\* A thread of the server's own, or one made by start, runs the service.
LocalCalls ==
  /\ at[Local] = "idle" /\ cur[Local] = 0
  /\ Call(Local, LocalCall)
  /\ UNCHANGED <<socketVars, clientListVars, Params, owner, got, runs, used,
                 mixed>>

\* Mutant: the second parameter is stored as the first.
ParamIndexMutant(c) == 1

\* The parameter that caller c sets next.
ParamIndex(c) == IF at[c] = "param1" THEN 1 ELSE 2

\* The parameters that caller c has set and its execution has not read yet.
Exposed(c) ==
  {i \in 1 .. 2 :
     /\ at[c] \in {"lock", "execute"} \/ (i = 1 /\ at[c] = "param2")
     /\ Len(got[c]) < i}

\* call sets the parameters, without the mutex.
SetParam(c) ==
  /\ at[c] \in {"param1", "param2"}
  /\ Params' = [Params EXCEPT ![ParamIndex(c)] = cur[c]]
  /\ at' = [at EXCEPT ![c] = IF @ = "param1" THEN "param2" ELSE "lock"]
  /\ raced' = [d \in Callers |->
                 IF d = c THEN raced[d]
                 ELSE raced[d] \cup ({ParamIndex(c)} \cap Exposed(d))]
  /\ UNCHANGED <<socketVars, clientListVars, cur, owner, got, runs, used, mixed>>

\* call, ThreadHandler: lock mutex_service and execute ...
Lock(c) ==
  /\ at[c] = "lock" /\ owner = Nobody
  /\ owner' = c
  /\ at' = [at EXCEPT ![c] = "execute"]
  /\ UNCHANGED <<socketVars, clientListVars, cur, Params, got, raced, runs,
                 used, mixed>>

\* ... which reads the parameters one after the other ...
Execute(c) ==
  /\ at[c] = "execute" /\ Len(got[c]) < 2
  /\ got' = [got EXCEPT ![c] = Append(@, Params[Len(@) + 1])]
  /\ UNCHANGED <<socketVars, clientListVars, at, cur, Params, owner, raced,
                 runs, used, mixed>>

\* Mutant: the mutex stays locked.
ReleaseMutant == UNCHANGED owner

Release == owner' = Nobody

\* ... and ends.
Executed(c) ==
  /\ at[c] = "execute" /\ Len(got[c]) = 2
  /\ Release
  /\ at' = [at EXCEPT ![c] = "idle"]
  /\ got' = [got EXCEPT ![c] = <<>>]
  /\ runs' = [runs EXCEPT ![cur[c]] = @ + 1]
  /\ used' = [used EXCEPT ![cur[c]] = got[c]]
  /\ mixed' = mixed \cup ({cur[c]} \X raced[c])
  /\ UNCHANGED <<socketVars, clientListVars, cur, Params, raced>>

-----------------------------------------------------------------------------
Init ==
  /\ SocketInit
  /\ m_serviceToRun = <<>> /\ issued = 0 /\ pc = "top" /\ stuck = FALSE
  /\ at = [c \in Callers |-> "idle"] /\ cur = [c \in Callers |-> 0]
  /\ Params = <<0, 0>> /\ owner = Nobody
  /\ got = [c \in Callers |-> <<>>] /\ raced = [c \in Callers |-> {}]
  /\ runs = [r \in Calls |-> 0] /\ used = [r \in Calls |-> <<>>]
  /\ mixed = {}

Other == UNCHANGED <<clientListVars, callVars>>

ClientThread == HandlerLock \/ HandlerSend \/ HandlerUnlock \/ ClientReconnect
CallSteps(c) == SetParam(c) \/ Lock(c) \/ Execute(c) \/ Executed(c)
Worker(k) == WorkerTake(k) \/ WorkerClosed(k) \/ WorkerExit(k)

Next ==
  \/ Connect /\ Other
  \/ RunService
  \/ ClientThread
  \/ \E k \in Conns : Worker(k)
  \/ LocalCalls
  \/ \E c \in Callers : CallSteps(c)
  \/ \E k \in Conns : Break(k) /\ Other
  \/ \E k \in Conns : CutMessage(k) /\ Other

Spec == Init /\ [][Next]_vars

\* Threads that can go on do, and execute returns.
FairSpec ==
  /\ Spec
  /\ WF_vars(ClientThread)
  /\ \A k \in Conns : WF_vars(Worker(k))
  /\ \A c \in Callers : WF_vars(CallSteps(c))

-----------------------------------------------------------------------------
TypeOK ==
  /\ SocketTypeOK(Requests, {})
  /\ m_serviceToRun \in Seq(Requests)
  /\ issued \in 0 .. MaxRequests
  /\ pc \in {"top", "send"} /\ stuck \in BOOLEAN
  /\ at \in [Callers -> {"idle", "param1", "param2", "lock", "execute"}]
  /\ cur \in [Callers -> Calls \cup {0}]
  /\ Params \in [1 .. 2 -> Calls \cup {0}]
  /\ owner \in Callers \cup {Nobody}
  /\ got \in [Callers -> Seq(Calls \cup {0})]
  /\ raced \in [Callers -> SUBSET (1 .. 2)]
  /\ runs \in [Calls -> Nat]
  /\ used \in [Calls -> Seq(Calls \cup {0})]
  /\ mixed \subseteq Calls \X (1 .. 2)

\* A request given to runService is executed at most once, over failed sends,
\* reconnections and lost messages, and a malformed one never, though it is
\* answered "Success".
AtMostOnce ==
  /\ \A r \in Calls : runs[r] <= 1
  /\ \A r \in Malformed : runs[r] = 0

\* ControlObject::call: an execution uses the parameters of its own request;
\* mutex_service does not cover their setting, and exactly those are lost
\* that another caller sets between this one's setting and its reading them.
OwnParams ==
  \A r \in Calls, i \in 1 .. 2 :
    runs[r] > 0 => (used[r][i] = r <=> <<r, i>> \notin mixed)

\* A request made while a connection that lasts is there is executed, as
\* long as the answers, which the client never receives, fit into its buffer.
Served ==
  \A r \in Requests \ Malformed :
    (issued >= r /\ link[1] = "up" /\ r <= Window)
      ~> (runs[r] > 0 \/ link[1] # "up" \/ faults > 0)
=============================================================================
