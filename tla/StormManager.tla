----------------------------- MODULE StormManager ----------------------------
(***************************************************************************)
(* The client's side of the storm as an application sees it:               *)
(* IckStormSubscriberManager, IckStormManager, which is a copy of it, and  *)
(* the functions of dot_net_interface.cc.  Application threads register    *)
(* callbacks and Subscriber objects for channels; the thread of the        *)
(* subscriber socket hands the updates that arrive to them.                *)
(*                                                                         *)
(* A name is a sequence of characters, a callback or an object the number  *)
(* of the call that registered it; 0 is NULL.  m_mutex is that of Windows: *)
(* its holder may lock it again, and it is free when the holder's thread   *)
(* has ended.  What the socket does with a request is modelled in Storm.   *)
(***************************************************************************)
EXTENDS Integers, Sequences, FiniteSetsExt

CONSTANTS
  Apps,          \* the application's threads
  Names,         \* the names they use,
  CopyNames,     \* and those they use with IckStormManager
  MaxRegister    \* bound: the calls they make

ASSUME StormManagerAssumption ==
  /\ MaxRegister \in Nat /\ CopyNames \subseteq Names
  /\ \A n \in Names : n \in Seq(STRING)

VARIABLES
  lan,                   \* m_isNetworkLan of the application
  m_subscriberSocket,    \* per manager: set
  mgrMutex,              \* m_mutex per manager: its holder, and how often
  m_callbacks, m_subscriberCallBack,   \* per manager and path
  asked,                 \* what the socket was given to send
  call,                  \* per thread: the call it is in
  made,                  \* the calls made
  registered,            \* the registrations, in order: manager, kind, name, id
  kept,                  \* <<t, m>>: a call of t returned with m's mutex locked
  update                 \* the last update: who was called, and when

socketVars == <<lan, m_subscriberSocket>>
mapVars == <<m_callbacks, m_subscriberCallBack, registered>>
mutexVars == <<mgrMutex, kept>>
callVars == <<call, made>>
managerVars == <<socketVars, mapVars, mutexVars, callVars, asked, update>>

Managers == {"IckStormSubscriberManager", "IckStormManager"}
Delivering == "IckStormSubscriberManager"   \* the one the socket asks

\* channelPath: every "/" becomes a "-".
Path(n) == [i \in DOMAIN n |-> IF n[i] = "/" THEN "-" ELSE n[i]]

Slash(n) == Max({0} \union {i \in DOMAIN n : n[i] = "/"})

\* Mutant: the node without its "/".
NodeMutant(n) == SubSeq(n, 1, Slash(n) - 1)

\* nodeName: up to the last "/".
Node(n) == SubSeq(n, 1, Slash(n))

Lookup(map, p) == IF p \in DOMAIN map THEN map[p] ELSE <<>>
PushBack(map, p, id) ==
  [q \in DOMAIN map \union {p} |->
     IF q = p THEN Append(Lookup(map, p), id) ELSE map[q]]

NoUpdate == [at |-> "none"]

\* The record of an update that is done is dropped at the next step.
Settle == update' = IF update.at = "done" THEN NoUpdate ELSE update

Idle == [at |-> "idle"]
Free == [holder |-> 0, count |-> 0]

ManagerInit ==
  /\ lan \in BOOLEAN
  /\ m_subscriberSocket = [m \in Managers |-> FALSE]
  /\ mgrMutex = [m \in Managers |-> Free]
  /\ m_callbacks = [m \in Managers |-> <<>>]
  /\ m_subscriberCallBack = [m \in Managers |-> <<>>]
  /\ asked = {} /\ call = [t \in Apps |-> Idle] /\ made = 0
  /\ registered = <<>> /\ kept = {}
  /\ update = NoUpdate

-----------------------------------------------------------------------------
(* The main thread.                                                        *)

\* IApplication::run of a client in a WAN: first one manager's socket, then
\* the other's.
SetIckStormSubscriberSocket(m) ==
  /\ ~lan /\ ~m_subscriberSocket[m]
  /\ m = Delivering \/ m_subscriberSocket[Delivering]
  /\ m_subscriberSocket' = [m_subscriberSocket EXCEPT ![m] = TRUE]
  /\ Settle
  /\ UNCHANGED <<mapVars, mutexVars, callVars, lan, asked>>

-----------------------------------------------------------------------------
(* The calls of an application thread.                                     *)

BeginCall(t, m, kind, n, null) ==
  /\ call[t] = Idle /\ made < MaxRegister
  /\ made' = made + 1
  /\ call' = [call EXCEPT ![t] = [at |-> "lock", m |-> m, kind |-> kind,
                                  name |-> n, id |-> IF null THEN 0 ELSE made']]
  /\ Settle
  /\ UNCHANGED <<socketVars, mapVars, mutexVars, asked>>

\* The overloads of subscriber: with a callback, with a Subscriber object,
\* and with an IckStormSubscriber, which asks the socket for nothing.
SubscribeCallback(t, n, null) == BeginCall(t, Delivering, "callback", n, null)
SubscribeObject(t, n) == BeginCall(t, Delivering, "object", n, FALSE)
SubscribeRemote(t, n, null) == BeginCall(t, Delivering, "remote", n, null)

\* The same overloads of IckStormManager.
ManagerCallback(t, n) == BeginCall(t, "IckStormManager", "callback", n, FALSE)
ManagerObject(t, n) == BeginCall(t, "IckStormManager", "object", n, FALSE)
ManagerRemote(t, n) == BeginCall(t, "IckStormManager", "remote", n, FALSE)

\* dot_net_interface.cc: the overload depends on the network.
SubscribeWithCallBack(t, n, null) ==
  \/ ~lan /\ SubscribeCallback(t, n, null)
  \/ lan /\ SubscribeRemote(t, n, null)

Lock(t) ==
  LET m == call[t].m IN
  /\ call[t].at = "lock"
  /\ mgrMutex[m] = Free \/ mgrMutex[m].holder = t
  /\ mgrMutex' = [mgrMutex EXCEPT ![m] = [holder |-> t, count |-> @.count + 1]]
  /\ call' = [call EXCEPT ![t].at = IF call[t].kind = "remote"
                                    THEN "identity" ELSE "socket"]
  /\ Settle
  /\ UNCHANGED <<socketVars, mapVars, asked, made, kept>>

Unlocked1(mutex) == IF mutex.count = 1 THEN Free
                    ELSE [mutex EXCEPT !.count = @ - 1]
UnlockManager(m) == mgrMutex' = [mgrMutex EXCEPT ![m] = Unlocked1(@)]

\* The call returns, or throws, with m_mutex locked.
ReturnLocked(t) ==
  /\ kept' = kept \union {<<t, call[t].m>>}
  /\ UNCHANGED mgrMutex

\* Mutant: the mutex stays locked here too.
ObjectRefusedMutant(t) == UNCHANGED <<mutexVars>>

\* subscriber(channelName, Subscriber) without a socket.
ObjectRefused(t) == UnlockManager(call[t].m) /\ UNCHANGED kept

\* subscriber(channelName, callback) without a socket.
CallbackRefused(t) == ReturnLocked(t)

\* There is no socket: the call returns false.
Refused(t) ==
  /\ call[t].at = "socket" /\ ~m_subscriberSocket[call[t].m]
  /\ IF call[t].kind = "object" THEN ObjectRefused(t) ELSE CallbackRefused(t)
  /\ call' = [call EXCEPT ![t] = Idle]
  /\ Settle
  /\ UNCHANGED <<socketVars, mapVars, asked, made>>

\* The socket is asked for the channel.
Requests(t) ==
  /\ call[t].at = "socket" /\ m_subscriberSocket[call[t].m]
  /\ asked' = asked \union {<<"Subscribe", call[t].name>>}
  /\ call' = [call EXCEPT ![t].at = "store"]
  /\ Settle
  /\ UNCHANGED <<socketVars, mapVars, mutexVars, made>>

\* subscriber(IckStormSubscriber, callback): an empty identity is thrown, and
\* nothing is asked for.
Identity(t) ==
  /\ call[t].at = "identity"
  /\ \/ /\ call[t].name = <<>>
        /\ ReturnLocked(t)
        /\ call' = [call EXCEPT ![t] = Idle]
     \/ /\ call[t].name # <<>>
        /\ call' = [call EXCEPT ![t].at = "store"]
        /\ UNCHANGED <<mutexVars>>
  /\ Settle
  /\ UNCHANGED <<socketVars, mapVars, asked, made>>

\* The callback or the object is entered, unless it is NULL.
Store(t) ==
  LET c == call[t]  p == Path(c.name) IN
  /\ c.at = "store"
  /\ IF c.id = 0
     THEN UNCHANGED <<mapVars>>
     ELSE /\ registered' = Append(registered, [m |-> c.m, name |-> c.name,
                                  object |-> c.kind = "object", id |-> c.id])
          /\ IF c.kind = "object"
             THEN /\ m_subscriberCallBack' =
                       [m_subscriberCallBack EXCEPT ![c.m] = PushBack(@, p, c.id)]
                  /\ UNCHANGED m_callbacks
             ELSE /\ m_callbacks' = [m_callbacks EXCEPT ![c.m] =
                                       PushBack(@, p, c.id)]
                  /\ UNCHANGED m_subscriberCallBack
  /\ UnlockManager(c.m)
  /\ call' = [call EXCEPT ![t] = Idle]
  /\ Settle
  /\ UNCHANGED <<socketVars, asked, made, kept>>

\* getNodeInfoList; the answer to it is not modelled.
GetNodeInfoList(m, n) ==
  /\ n # <<>> /\ m_subscriberSocket[m] /\ made < MaxRegister
  /\ asked' = asked \union {<<"ChannelList", n>>}
  /\ made' = made + 1
  /\ Settle
  /\ UNCHANGED <<socketVars, mapVars, mutexVars, call>>

\* A thread that holds a mutex ends: the mutex is free.
ThreadEnds(t) ==
  /\ call[t] = Idle /\ \E m \in Managers : mgrMutex[m].holder = t
  /\ call' = [call EXCEPT ![t].at = "ended"]
  /\ mgrMutex' = [m \in Managers |-> IF mgrMutex[m].holder = t THEN Free
                                     ELSE mgrMutex[m]]
  /\ kept' = {k \in kept : k[1] # t}
  /\ Settle
  /\ UNCHANGED <<socketVars, mapVars, asked, made>>

-----------------------------------------------------------------------------
(* The socket's thread, which takes no lock.                               *)

GetSubscriberCallBackList(n) ==
  LET map == m_callbacks[Delivering] IN
  IF Path(n) \in DOMAIN map THEN map[Path(n)] ELSE Lookup(map, Path(Node(n)))

GetSubscriberList(n) == Lookup(m_subscriberCallBack[Delivering], Path(n))

\* A thread is changing the maps that are read here.
Racing == \E t \in Apps : call[t].at = "store" /\ call[t].m = Delivering

\* An update of a channel that was asked for, or whose node was.  To read a
\* map that is being changed can end the process.
HandleUpdate(n) ==
  /\ update.at # "callbacks" /\ Node(n) # n
  /\ <<"Subscribe", n>> \in asked \/ <<"Subscribe", Node(n)>> \in asked
  /\ \/ update' = [at |-> "callbacks", name |-> n, clean |-> ~Racing,
                   called |-> GetSubscriberCallBackList(n),
                   seen |-> Len(registered), after |-> Len(registered)]
     \/ Racing /\ update' = [at |-> "crashed"]
  /\ UNCHANGED <<socketVars, mapVars, mutexVars, callVars, asked>>

\* Then the Subscriber objects.
HandleObjects ==
  /\ update.at = "callbacks"
  /\ update' = [update EXCEPT !.at = "done", !.after = Len(registered),
                              !.clean = @ /\ ~Racing,
                              !.called = @ \o GetSubscriberList(update.name)]
  /\ UNCHANGED <<socketVars, mapVars, mutexVars, callVars, asked>>

CallStep(t) == Lock(t) \/ Refused(t) \/ Requests(t) \/ Identity(t) \/ Store(t)

ManagerNext ==
  /\ update.at # "crashed"
  /\ \/ \E m \in Managers : SetIckStormSubscriberSocket(m)
     \/ \E t \in Apps, n \in Names, null \in BOOLEAN :
           SubscribeWithCallBack(t, n, null)
     \/ \E t \in Apps, n \in Names : SubscribeObject(t, n)
     \/ \E t \in Apps, n \in CopyNames : ManagerCallback(t, n)
     \/ \E t \in Apps, n \in CopyNames : ManagerObject(t, n)
     \/ \E t \in Apps, n \in CopyNames : ManagerRemote(t, n)
     \/ \E t \in Apps : Lock(t)
     \/ \E t \in Apps : Refused(t)
     \/ \E t \in Apps : Requests(t)
     \/ \E t \in Apps : Identity(t)
     \/ \E t \in Apps : Store(t)
     \/ \E m \in Managers, n \in Names : GetNodeInfoList(m, n)
     \/ \E t \in Apps : ThreadEnds(t)
     \/ \E n \in Names : HandleUpdate(n)
     \/ HandleObjects

ManagerSpec == ManagerInit /\ [][ManagerNext]_managerVars

-----------------------------------------------------------------------------
\* p is the path of the node that the channel n belongs to.
IsNode(p, n) ==
  \E i \in 0 .. Len(n) :
    /\ p = Path(SubSeq(n, 1, i))
    /\ i = 0 \/ n[i] = "/"
    /\ \A j \in i + 1 .. Len(n) : n[j] # "/"

\* ids are those of the registrations rs at the positions S, in order.
Lists(rs, ids, S) ==
  \E p \in [1 .. Len(ids) -> S] :
    /\ \A i \in S : \E j \in 1 .. Len(ids) : p[j] = i
    /\ \A j, k \in 1 .. Len(ids) : j < k => p[j] < p[k]
    /\ \A j \in 1 .. Len(ids) : ids[j] = rs[p[j]].id

\* The positions of the callbacks, and of the objects, among the first n
\* registrations rs with the manager.
CallbacksAt(rs, n) == {i \in 1 .. n : rs[i].m = Delivering /\ ~rs[i].object}
ObjectsAt(rs, n) == {i \in 1 .. n : rs[i].m = Delivering /\ rs[i].object}

\* getSubscriberCallBackList, getSubscriberList: an update that is handled
\* while nobody registers calls, once each and in order, the callbacks
\* registered for its channel, those of the node only if there are none, and
\* then the objects registered for the channel itself; "/" and "-" are the
\* same here.  What was registered with IckStormManager is never called.
Heard ==
  update.at = "done" /\ update.clean =>
    LET rs == registered
        own == {i \in CallbacksAt(rs, update.seen) :
                  Path(rs[i].name) = Path(update.name)}
        node == {i \in CallbacksAt(rs, update.seen) :
                   IsNode(Path(rs[i].name), update.name)}
        objects == {i \in ObjectsAt(rs, update.after) :
                      Path(rs[i].name) = Path(update.name)}
        called == update.called
    IN \E k \in 0 .. Len(called) :
         /\ Lists(rs, SubSeq(called, 1, k), IF own # {} THEN own ELSE node)
         /\ Lists(rs, SubSeq(called, k + 1, Len(called)), objects)

\* subscriber, both managers: a call that waits for m_mutex returns, unless a
\* thread that still runs kept the mutex when a call of it was refused for
\* want of a socket, or threw.
CallsReturn ==
  \A t \in Apps :
    call[t].at = "lock" ~>
      \/ call[t].at # "lock" \/ update.at = "crashed"
      \/ \E u \in Apps \ {t} : <<u, call[t].m>> \in kept
=============================================================================
