----------------------------- MODULE DataChannel -----------------------------
(***************************************************************************)
(* A data channel (untyped_data.cc and the six ReadOnly.../ReadWrite...    *)
(* classes) and the thread that polls it (ObjectManager::execute).         *)
(*                                                                         *)
(* A channel keeps a value, the value it was last compared with and a      *)
(* flag m_isChanged.  The poll thread calls getValue, which reads the      *)
(* driver and raises the flag on a change; when the flag is up it calls    *)
(* update, which hands the channel to every subscriber and lowers the      *)
(* flag.  Any other thread may call getValue, setValue, setSimulatedValue, *)
(* subscribe and unsubscribe meanwhile.  Only subscribe, unsubscribe and   *)
(* update take the channel's mutex.                                        *)
(*                                                                         *)
(* A call of the driver is a step of its own, apart from the assignments   *)
(* getValue and setValue make after it.  Values are numbers: those of a    *)
(* double channel count steps of a fixed size, the string "" is 0.  The    *)
(* flags isValid() and isValidated() return are left out.                  *)
(***************************************************************************)
EXTENDS Integers, Sequences, SequencesExt

CONSTANTS
  Channels,     \* the kinds of channel considered: class and configuration
  Platform,     \* "windows" or "linux"
  Subscribers,  \* the Subscriber objects
  Threads,      \* the threads other than the poll thread
  Readers,      \* those of them that call getValue
  Writers,      \* those that call setValue or setSimulatedValue
  MaxValue,     \* bound: values are 0 .. MaxValue
  Accuracy,     \* m_accuracy of a double channel
  MaxOps,       \* bound: changes of the device, writes and subscriptions
  None          \* no value

ReadOnlyKinds  == {"ReadOnlyInt", "ReadOnlyDouble", "ReadOnlyString"}
ReadWriteKinds == {"ReadWriteInt", "ReadWriteDouble", "ReadWriteString"}

ASSUME ChannelAssumption ==
  /\ Channels \subseteq [kind : ReadOnlyKinds \cup ReadWriteKinds,
                          driven : BOOLEAN, simulated : BOOLEAN]
  /\ Platform \in {"windows", "linux"}
  /\ Readers \subseteq Threads /\ Writers \subseteq Threads
  /\ MaxValue \in Nat /\ Accuracy \in Nat \ {0} /\ MaxOps \in Nat
  /\ None \notin Int

Values == 0 .. MaxValue

VARIABLES
  channel,        \* which of Channels this one is; it never changes
  m_value, m_oldValue, m_isChanged,
  back,           \* ghost: the value went back to m_oldValue without the flag
  m_subscribers,  \* UntypedData::m_subscribers
  seen,           \* the value each subscriber was handed last, or None
  device,         \* the value in the device behind the driver
  poll,           \* where the poll thread is
  pollValue,      \* the value its driver call returned
  at,             \* the position its loop over the subscribers has reached
  dangling,       \* TRUE: the list node at that position was erased
  pc,             \* where each other thread is
  arg,            \* the value or subscriber it holds
  ops,            \* the operations counted against MaxOps
  process         \* "running" or "crashed"

dataVars   == <<m_value, m_oldValue, m_isChanged, back>>
listVars   == <<m_subscribers, seen, at, dangling>>
pollVars   == <<poll, pollValue>>
threadVars == <<pc, arg>>
vars ==
  <<channel, dataVars, listVars, pollVars, threadVars, device, ops, process>>

Kind      == channel.kind       \* the class of the channel
Driven    == channel.driven     \* a driver registered its functions
Simulated == channel.simulated  \* setSimulated(true) was called

IsDouble == Kind \in {"ReadOnlyDouble", "ReadWriteDouble"}
MutexWorks == Platform = "windows"

Abs(n) == IF n < 0 THEN -n ELSE n

\* How two values are compared: a double by m_accuracy.
Differs(a, b) == IF IsDouble THEN Abs(a - b) >= Accuracy ELSE a # b

\* Mutant: update does not hold the mutex over its loop.
UnlockedMutant == TRUE

\* m_mutex is free: it is held in update and between the two parts of
\* subscribe.
Unlocked ==
  MutexWorks => /\ poll \notin {"notify", "reset"}
                /\ \A t \in Threads : pc[t] # "push"

\* Whether getValue calls the driver: a simulated ReadOnlyInt or
\* ReadOnlyString does not, and a ReadWriteDouble never does.
ReadsDriver ==
  /\ Driven
  /\ Kind # "ReadWriteDouble"
  /\ ~(Simulated /\ Kind \in {"ReadOnlyInt", "ReadOnlyString"})

WritesDriver == Driven /\ Kind \in ReadWriteKinds

-----------------------------------------------------------------------------
(* What the classes' getValue and setValue assign.                         *)

\* Mutant: m_oldValue stays what it was.
CompareMutant ==
  /\ m_isChanged' = (m_isChanged \/ m_value # m_oldValue)
  /\ UNCHANGED <<m_value, m_oldValue, back>>

\* getValue without a driver, for the classes that look for a change then.
Compare ==
  /\ m_isChanged' = (m_isChanged \/ m_value # m_oldValue)
  /\ m_oldValue' = m_value
  /\ UNCHANGED <<m_value, back>>

GetPlain ==
  IF \/ Kind \in {"ReadOnlyInt", "ReadOnlyString"} /\ Simulated
     \/ Kind \in {"ReadWriteInt", "ReadWriteString"} /\ ~Driven
  THEN Compare
  ELSE UNCHANGED dataVars

\* Mutant: the flag is not raised.
ReplaceMutant(v) ==
  IF Differs(m_value, v)
  THEN m_oldValue' = m_value /\ m_value' = v /\ UNCHANGED <<m_isChanged, back>>
  ELSE UNCHANGED dataVars

\* Replace the value and raise the flag, if the new value differs.
Replace(v) ==
  IF Differs(m_value, v)
  THEN /\ m_oldValue' = m_value /\ m_value' = v /\ m_isChanged' = TRUE
       /\ UNCHANGED back
  ELSE UNCHANGED dataVars

\* Mutant: the value is stored only when it is not m_oldValue.
StoreReadChangedMutant(v) ==
  IF v # m_oldValue
  THEN /\ m_oldValue' = m_value /\ m_value' = v /\ m_isChanged' = TRUE
       /\ UNCHANGED back
  ELSE UNCHANGED dataVars

\* getValue after the driver returned v.
StoreRead(v) ==
  CASE Kind \in ReadOnlyKinds -> Replace(v)
    [] Kind = "ReadWriteInt" ->
         /\ m_isChanged' = (m_isChanged \/ v # m_oldValue)
         /\ m_oldValue' = IF v # m_oldValue THEN m_value ELSE m_oldValue
         /\ m_value' = v
         /\ back' = (v = m_oldValue /\ (v # m_value \/ back))
    [] OTHER -> m_value' = v /\ UNCHANGED <<m_oldValue, m_isChanged, back>>

\* setValue after the driver accepted v.
StoreWritten(v) ==
  IF Kind = "ReadWriteDouble" THEN Replace(v)
  ELSE /\ m_isChanged' = (m_isChanged \/ v # m_oldValue)
       /\ m_value' = v
       /\ UNCHANGED <<m_oldValue, back>>

\* setValue without a driver.
SetPlain(v) ==
  IF Kind = "ReadWriteDouble" THEN Replace(v)
  ELSE m_oldValue' = m_value /\ m_value' = v /\ UNCHANGED <<m_isChanged, back>>

-----------------------------------------------------------------------------
\* The constructors, then registChannels and the start of the poll thread.
\* The default constructor of ReadOnlyDouble leaves m_value, and both leave
\* m_oldValue, uninitialized: any value.
Init ==
  /\ channel \in Channels
  /\ m_value \in (IF Kind = "ReadWriteInt" THEN {0} ELSE Values)
  /\ m_oldValue \in (CASE Kind = "ReadOnlyInt"    -> {m_value}
                       [] Kind = "ReadOnlyDouble" -> Values
                       [] OTHER                   -> {0})
  /\ m_isChanged = (Kind # "ReadWriteDouble") /\ back = FALSE
  /\ m_subscribers = <<>> /\ seen = [s \in Subscribers |-> None]
  /\ device \in Values
  /\ poll = "get" /\ pollValue = 0 /\ at = 1 /\ dangling = FALSE
  /\ pc = [t \in Threads |-> "idle"] /\ arg = [t \in Threads |-> None]
  /\ ops = 0 /\ process = "running"

Count == ops < MaxOps /\ ops' = ops + 1

\* The device changes on its own.
DeviceChange(v) ==
  /\ Driven /\ v # device
  /\ Count
  /\ device' = v
  /\ UNCHANGED <<dataVars, listVars, pollVars, threadVars, process>>

-----------------------------------------------------------------------------
(* The poll thread: ObjectManager::execute and UntypedData::update.        *)

\* getValue up to and with a driver call that returns a value.
PollRead ==
  /\ poll = "get" /\ ReadsDriver
  /\ pollValue' = device
  /\ poll' = "store"
  /\ UNCHANGED <<dataVars, listVars, threadVars, device, ops, process>>

\* getValue when the driver call fails.
PollReadFails ==
  /\ poll = "get" /\ ReadsDriver
  /\ poll' = "check"
  /\ UNCHANGED <<dataVars, listVars, pollValue, threadVars, device, ops,
                 process>>

PollStore ==
  /\ poll = "store"
  /\ StoreRead(pollValue)
  /\ poll' = "check"
  /\ UNCHANGED <<listVars, pollValue, threadVars, device, ops, process>>

PollPlain ==
  /\ poll = "get" /\ ~ReadsDriver
  /\ GetPlain
  /\ poll' = "check"
  /\ UNCHANGED <<listVars, pollValue, threadVars, device, ops, process>>

\* if (object->isChanged()) object->update(); the latter locks.
PollCheck ==
  /\ poll = "check"
  /\ \/ ~m_isChanged /\ poll' = "get" /\ UNCHANGED at
     \/ m_isChanged /\ Unlocked /\ poll' = "notify" /\ at' = 1
  /\ UNCHANGED <<dataVars, m_subscribers, seen, dangling, pollValue,
                 threadVars, device, ops, process>>

\* Mutant: the loop stops one short of the end.
PollNotifyMutant ==
  /\ poll = "notify" /\ ~dangling
  /\ \/ /\ at < Len(m_subscribers)
        /\ seen' = [seen EXCEPT ![m_subscribers[at]] = m_value]
        /\ at' = at + 1
        /\ UNCHANGED poll
     \/ at >= Len(m_subscribers) /\ poll' = "reset" /\ UNCHANGED <<seen, at>>
  /\ UNCHANGED <<dataVars, m_subscribers, dangling, pollValue, threadVars,
                 device, ops, process>>

\* subscriber->update(this), which reads m_value; then ++it.
PollNotify ==
  /\ poll = "notify" /\ ~dangling
  /\ \/ /\ at <= Len(m_subscribers)
        /\ seen' = [seen EXCEPT ![m_subscribers[at]] = m_value]
        /\ at' = at + 1
        /\ UNCHANGED poll
     \/ at > Len(m_subscribers) /\ poll' = "reset" /\ UNCHANGED <<seen, at>>
  /\ UNCHANGED <<dataVars, m_subscribers, dangling, pollValue, threadVars,
                 device, ops, process>>

\* The iterator's node was erased: using it is undefined.  The process
\* crashes, or the loop happens to end.
PollDangling ==
  /\ poll = "notify" /\ dangling
  /\ \/ process' = "crashed" /\ UNCHANGED <<poll, dangling>>
     \/ poll' = "reset" /\ dangling' = FALSE /\ UNCHANGED process
  /\ UNCHANGED <<dataVars, m_subscribers, seen, at, pollValue, threadVars,
                 device, ops>>

\* m_isChanged = false, unlock, sleep.
PollReset ==
  /\ poll = "reset"
  /\ m_isChanged' = FALSE /\ back' = FALSE
  /\ poll' = "get"
  /\ UNCHANGED <<m_value, m_oldValue, listVars, pollValue, threadVars, device,
                 ops, process>>

-----------------------------------------------------------------------------
(* The other threads.                                                      *)

Goto(t, to, a) == pc' = [pc EXCEPT ![t] = to] /\ arg' = [arg EXCEPT ![t] = a]

\* getValue from a thread other than the poll thread.  (A driver call that
\* fails changes nothing.)
GetValue(t) ==
  /\ pc[t] = "idle" /\ t \in Readers
  /\ \/ ReadsDriver /\ Goto(t, "read", device) /\ UNCHANGED dataVars
     \/ ~ReadsDriver /\ GetPlain /\ UNCHANGED threadVars
  /\ UNCHANGED <<listVars, pollVars, device, ops, process>>

GetStore(t) ==
  /\ pc[t] = "read"
  /\ StoreRead(arg[t])
  /\ Goto(t, "idle", None)
  /\ UNCHANGED <<listVars, pollVars, device, ops, process>>

\* setValue of the ReadWrite classes.
SetValue(t, v) ==
  /\ pc[t] = "idle" /\ t \in Writers /\ Kind \in ReadWriteKinds
  /\ Count
  /\ \/ WritesDriver /\ device' = v /\ Goto(t, "written", v)
        /\ UNCHANGED dataVars
     \/ ~WritesDriver /\ SetPlain(v) /\ UNCHANGED <<device, threadVars>>
  /\ UNCHANGED <<listVars, pollVars, process>>

SetStore(t) ==
  /\ pc[t] = "written"
  /\ StoreWritten(arg[t])
  /\ Goto(t, "idle", None)
  /\ UNCHANGED <<listVars, pollVars, device, ops, process>>

\* setSimulatedValue of the ReadOnly classes.  (It throws, and changes
\* nothing, when the channel is not simulated.)
SetSimulatedValue(t, v) ==
  /\ pc[t] = "idle" /\ t \in Writers
  /\ Kind \in ReadOnlyKinds /\ Simulated
  /\ Count
  /\ m_value' = v
  /\ UNCHANGED <<m_oldValue, m_isChanged, back, listVars, pollVars, threadVars,
                 device, process>>

\* subscribe: lock, raise the flag ...
Subscribe(t, s) ==
  /\ pc[t] = "idle"
  /\ Unlocked
  /\ Count
  /\ m_isChanged' = TRUE
  /\ Goto(t, "push", s)
  /\ UNCHANGED <<m_value, m_oldValue, back, listVars, pollVars, device, process>>

\* ... append the subscriber unless it is in the list, unlock.
SubscribePush(t) ==
  /\ pc[t] = "push"
  /\ IF Contains(m_subscribers, arg[t])
     THEN UNCHANGED <<m_subscribers, seen>>
     ELSE /\ m_subscribers' = Append(m_subscribers, arg[t])
          /\ seen' = [seen EXCEPT ![arg[t]] = None]
  /\ Goto(t, "idle", None)
  /\ UNCHANGED <<dataVars, at, dangling, pollVars, device, ops, process>>

\* Mutant: unsubscribe erases without the mutex.
UnsubscribeMutant(t, s) ==
  /\ pc[t] = "idle"
  /\ \E i \in DOMAIN m_subscribers :
       /\ m_subscribers[i] = s
       /\ m_subscribers' = RemoveAt(m_subscribers, i)
       /\ at' = IF i < at THEN at - 1 ELSE at
       /\ dangling' = (dangling \/ (poll = "notify" /\ i = at))
  /\ UNCHANGED <<dataVars, seen, pollVars, threadVars, device, ops, process>>

\* unsubscribe: erase the subscriber.  An iterator on a later node stays on
\* it, one on the erased node dangles.
Unsubscribe(t, s) ==
  /\ pc[t] = "idle"
  /\ Unlocked
  /\ \E i \in DOMAIN m_subscribers :
       /\ m_subscribers[i] = s
       /\ m_subscribers' = RemoveAt(m_subscribers, i)
       /\ at' = IF i < at THEN at - 1 ELSE at
       /\ dangling' = (dangling \/ (poll = "notify" /\ i = at))
  /\ UNCHANGED <<dataVars, seen, pollVars, threadVars, device, ops, process>>

-----------------------------------------------------------------------------
Poll ==
  \/ PollRead \/ PollReadFails \/ PollStore \/ PollPlain
  \/ PollCheck \/ PollNotify \/ PollDangling \/ PollReset

Finish(t) == GetStore(t) \/ SetStore(t) \/ SubscribePush(t)

Thread(t) ==
  \/ GetValue(t) \/ Finish(t)
  \/ \E v \in Values : SetValue(t, v) \/ SetSimulatedValue(t, v)
  \/ \E s \in Subscribers : Subscribe(t, s) \/ Unsubscribe(t, s)

\* Steps are taken by a process that did not crash.
Run(A) == process = "running" /\ UNCHANGED channel /\ A

Next ==
  \/ Run(Poll)
  \/ \E v \in Values : Run(DeviceChange(v))
  \/ \E t \in Threads : Run(Thread(t))

Spec == Init /\ [][Next]_vars

\* Every thread goes on running, and the driver answers again and again.
FairSpec ==
  /\ Spec
  /\ WF_vars(Run(Poll)) /\ SF_vars(Run(PollRead))
  /\ \A t \in Threads : WF_vars(Run(Finish(t)))

-----------------------------------------------------------------------------
(* Properties.                                                             *)

\* The value of a ReadWriteInt went back to m_oldValue, and no update since.
GoneBack == Kind = "ReadWriteInt" /\ back /\ m_value = m_oldValue

Subscribed(s) == \E i \in DOMAIN m_subscribers : m_subscribers[i] = s

\* The variables hold values of their types, and the poll loop's position is
\* one of the list or just behind it.
TypeOK ==
  /\ channel \in Channels
  /\ m_value \in Values /\ m_oldValue \in Values
  /\ m_isChanged \in BOOLEAN /\ back \in BOOLEAN
  /\ m_subscribers \in Seq(Subscribers)
  /\ seen \in [Subscribers -> Values \cup {None}]
  /\ device \in Values
  /\ poll \in {"get", "store", "check", "notify", "reset"}
  /\ pollValue \in Values
  /\ at \in Nat \ {0} /\ dangling \in BOOLEAN
  /\ pc \in [Threads -> {"idle", "read", "written", "push"}]
  /\ \A t \in Threads :
       /\ pc[t] \in {"read", "written"} => arg[t] \in Values
       /\ pc[t] = "push" => arg[t] \in Subscribers
  /\ arg \in [Threads -> Values \cup Subscribers \cup {None}]
  /\ ops \in 0 .. MaxOps
  /\ process \in {"running", "crashed"}

\* A subscriber is told the channel's value once it has subscribed: until
\* update has handed it the channel, the flag that makes the poll thread call
\* update is up.  (subscribe raises m_isChanged before it appends.)
FirstNotice ==
  \A s \in Subscribers : Subscribed(s) => seen[s] # None \/ m_isChanged

\* No change is missed: whenever a subscriber's last value is not the
\* channel's value, the flag that makes the poll thread call update is up.
\* The one exception is a ReadWriteInt, whose getValue compares what it read
\* with m_oldValue: a change back to that older value does not raise the flag.
\* (Meant for channels behind a driver, polled by one thread.)
NoMissedChange ==
  \A s \in Subscribers :
    Subscribed(s) => seen[s] = m_value \/ m_isChanged \/ GoneBack

\* update never goes on with the list node of a subscriber that unsubscribed.
NoDanglingIterator == ~dangling

\* Once the channel's value no longer changes, every subscriber was handed
\* it, with the exception of NoMissedChange.  ("when value of this data
\* changed, object will be get notify", says the comment on subscribe in
\* untyped_data.h.)
ChangeNotified ==
  \A s \in Subscribers : <>[](Subscribed(s) => seen[s] = m_value \/ GoneBack)

\* Once the device no longer changes, the value of a channel whose getValue
\* calls the driver is the device's, up to the accuracy, whatever reads,
\* writes and failed driver calls came before.
Mirror ==
  <>[](process = "crashed" \/ (ReadsDriver => ~Differs(m_value, device)))

\* Once nothing changes and nobody subscribes, the poll thread stops calling
\* update.
Quiesces == <>[](process = "crashed" \/ ~m_isChanged)
=============================================================================
