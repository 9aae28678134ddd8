-------------------------- MODULE DataChannelProofs --------------------------
(***************************************************************************)
(* Theorems about DataChannel, for every class of channel and any number   *)
(* of threads, subscribers, values and operations.                         *)
(***************************************************************************)
EXTENDS DataChannel, SequenceTheorems, TLAPS

-----------------------------------------------------------------------------
(* Facts about the operators of DataChannel.                               *)

\* Erasing an element leaves a sequence of the other elements.
LEMMA RemoveAtProperties ==
  ASSUME NEW s \in Seq(Subscribers), NEW i \in DOMAIN s
  PROVE  /\ RemoveAt(s, i) \in Seq(Subscribers)
         /\ \A j \in DOMAIN RemoveAt(s, i) :
              \E l \in DOMAIN s : RemoveAt(s, i)[j] = s[l]
  <1>1. i \in 1..Len(s) /\ Len(s) \in Nat /\ DOMAIN s = 1..Len(s)
    BY LenProperties
  <1>2. \A j \in 1..Len(s) : s[j] \in Subscribers
    BY ElementOfSeq
  <1> DEFINE a == SubSeq(s, 1, i - 1)
             b == SubSeq(s, i + 1, Len(s))
  <1>3. /\ a \in Seq(Subscribers) /\ Len(a) = i - 1
        /\ \A j \in 1..(i - 1) : a[j] = s[j]
    <2>1. \A j \in 1..(i - 1) : s[j] \in Subscribers
      BY <1>1, <1>2
    <2>2. /\ a \in Seq(Subscribers)
          /\ Len(a) = IF 1 <= i - 1 THEN (i - 1) - 1 + 1 ELSE 0
          /\ \A j \in 1..((i - 1) - 1 + 1) : a[j] = s[1 + j - 1]
      BY <1>1, <2>1, SubSeqProperties
    <2>. QED  BY <1>1, <2>2
  <1>4. /\ b \in Seq(Subscribers) /\ Len(b) = Len(s) - i
        /\ \A j \in 1..(Len(s) - i) : b[j] = s[i + j]
    <2>1. \A j \in (i + 1)..Len(s) : s[j] \in Subscribers
      BY <1>1, <1>2
    <2>2. /\ b \in Seq(Subscribers)
          /\ Len(b) = IF i + 1 <= Len(s) THEN Len(s) - (i + 1) + 1 ELSE 0
          /\ \A j \in 1..(Len(s) - (i + 1) + 1) : b[j] = s[(i + 1) + j - 1]
      BY <1>1, <2>1, SubSeqProperties
    <2>. QED  BY <1>1, <2>2
  <1>5. /\ a \o b \in Seq(Subscribers) /\ Len(a \o b) = Len(a) + Len(b)
        /\ \A j \in 1..(Len(a) + Len(b)) :
             (a \o b)[j] = IF j <= Len(a) THEN a[j] ELSE b[j - Len(a)]
    BY <1>3, <1>4, ConcatProperties
  <1> HIDE DEF a, b
  <1>6. \A j \in DOMAIN (a \o b) : \E l \in DOMAIN s : (a \o b)[j] = s[l]
    <2> SUFFICES ASSUME NEW j \in DOMAIN (a \o b)
                 PROVE  \E l \in DOMAIN s : (a \o b)[j] = s[l]
      OBVIOUS
    <2>1. j \in 1..(Len(a) + Len(b)) /\ DOMAIN (a \o b) = 1..Len(a \o b)
      BY <1>5, LenProperties
    <2>2. CASE j <= i - 1
      <3>1. j \in DOMAIN s /\ (a \o b)[j] = s[j]
        BY <1>1, <1>3, <1>5, <2>1, <2>2
      <3>. QED  BY <3>1
    <2>3. CASE j > i - 1
      <3>1. j - (i - 1) \in 1..(Len(s) - i)
        BY <1>1, <1>3, <1>4, <2>1, <2>3
      <3>2. (a \o b)[j] = b[j - (i - 1)]
        BY <1>1, <1>3, <1>4, <1>5, <2>1, <2>3
      <3>3. (a \o b)[j] = s[i + (j - (i - 1))] /\ i + (j - (i - 1)) \in DOMAIN s
        BY <1>1, <1>4, <3>1, <3>2
      <3>. QED  BY <3>3
    <2>. QED  BY <1>1, <2>1, <2>2, <2>3
  <1>. QED  BY <1>5, <1>6 DEF RemoveAt, a, b

\* What getValue and setValue assign are values, and they never lower the
\* flag.
LEMMA StoreType ==
  ASSUME TypeOK, NEW v \in Values,
         \/ GetPlain \/ StoreRead(v) \/ StoreWritten(v) \/ SetPlain(v)
  PROVE  /\ m_value' \in Values /\ m_oldValue' \in Values
         /\ m_isChanged' \in BOOLEAN /\ back' \in BOOLEAN
         /\ m_isChanged => m_isChanged'
  <1>1. CASE GetPlain
    BY <1>1 DEF TypeOK, GetPlain, Compare, dataVars
  <1>2. ASSUME Replace(v)
        PROVE  /\ m_value' \in Values /\ m_oldValue' \in Values
               /\ m_isChanged' \in BOOLEAN /\ back' \in BOOLEAN
               /\ m_isChanged => m_isChanged'
    BY <1>2 DEF TypeOK, Replace, dataVars
  <1>3. CASE StoreRead(v)
    <2>1. CASE Kind \in ReadOnlyKinds
      BY <1>2, <1>3, <2>1, Zenon DEF StoreRead, ReadOnlyKinds
    <2>2. CASE Kind = "ReadWriteInt"
      BY <1>3, <2>2 DEF TypeOK, StoreRead, ReadOnlyKinds
    <2>3. CASE Kind \notin ReadOnlyKinds /\ Kind # "ReadWriteInt"
      BY <1>3, <2>3 DEF TypeOK, StoreRead
    <2>. QED  BY <2>1, <2>2, <2>3
  <1>4. CASE StoreWritten(v)
    BY <1>2, <1>4 DEF TypeOK, StoreWritten
  <1>5. CASE SetPlain(v)
    BY <1>2, <1>5 DEF TypeOK, SetPlain
  <1>. QED  BY <1>1, <1>3, <1>4, <1>5

-----------------------------------------------------------------------------
(* Type correctness.                                                       *)

LEMMA InitType == Init => TypeOK
  <1> SUFFICES ASSUME Init  PROVE TypeOK
    OBVIOUS
  <1>1. 0 \in Values /\ 0 \in 0 .. MaxOps
    BY ChannelAssumption DEF ChannelAssumption, Values
  <1>2. m_value \in Values
    BY <1>1 DEF Init
  <1>3. m_oldValue \in Values
    BY <1>1, <1>2 DEF Init
  <1>4. <<>> \in Seq(Subscribers)
    BY EmptySeq
  <1>5. m_isChanged \in BOOLEAN /\ back \in BOOLEAN
    BY DEF Init
  <1>6. /\ channel \in Channels
        /\ m_subscribers = <<>> /\ seen = [s \in Subscribers |-> None]
        /\ device \in Values
        /\ poll = "get" /\ pollValue = 0 /\ at = 1 /\ dangling = FALSE
        /\ pc = [t \in Threads |-> "idle"] /\ arg = [t \in Threads |-> None]
        /\ ops = 0 /\ process = "running"
    BY DEF Init
  <1>7. m_subscribers \in Seq(Subscribers)
    BY <1>4, <1>6
  <1>8. seen \in [Subscribers -> Values \cup {None}]
    BY <1>6
  <1>9. /\ pc \in [Threads -> {"idle", "read", "written", "push"}]
        /\ arg \in [Threads -> Values \cup Subscribers \cup {None}]
        /\ \A t \in Threads : pc[t] = "idle"
    BY <1>6
  <1>10. pollValue \in Values /\ ops \in 0 .. MaxOps
    BY <1>1, <1>6
  <1>11. /\ device \in Values
         /\ poll \in {"get", "store", "check", "notify", "reset"}
         /\ process \in {"running", "crashed"}
    BY <1>6, Zenon
  <1>12. at \in Nat \ {0}
    BY <1>6
  <1>13. dangling \in BOOLEAN
    BY <1>6, Zenon
  <1>14. \A t \in Threads :
           /\ pc[t] \in {"read", "written"} => arg[t] \in Values
           /\ pc[t] = "push" => arg[t] \in Subscribers
    BY <1>9
  <1>. QED
    BY <1>2, <1>3, <1>5, <1>6, <1>7, <1>8, <1>9, <1>10, <1>11, <1>12, <1>13, <1>14,
       Zenon DEF TypeOK

LEMMA NextType ==
  ASSUME TypeOK, [Next]_vars
  PROVE  TypeOK'
  <1> USE DEF dataVars, listVars, pollVars, threadVars
  <1>0. UNCHANGED channel
    BY DEF Next, Run, vars
  <1> USE <1>0
  <1>1. CASE UNCHANGED vars
    BY <1>1 DEF TypeOK, vars
  <1>2. CASE \E v \in Values : DeviceChange(v)
    BY <1>2, ChannelAssumption DEF TypeOK, DeviceChange, Count, ChannelAssumption
  <1>3. CASE PollRead
    BY <1>3 DEF TypeOK, PollRead
  <1>4. CASE PollReadFails
    BY <1>4 DEF TypeOK, PollReadFails
  <1>5. CASE PollStore
    <2>1. pollValue \in Values /\ StoreRead(pollValue)
      BY <1>5 DEF PollStore, TypeOK
    <2>2. /\ m_value' \in Values /\ m_oldValue' \in Values
          /\ m_isChanged' \in BOOLEAN /\ back' \in BOOLEAN
      BY <2>1, StoreType
    <2>. QED  BY <1>5, <2>2 DEF TypeOK, PollStore
  <1>6. CASE PollPlain
    <2>1. GetPlain /\ device \in Values
      BY <1>6 DEF PollPlain, TypeOK
    <2>2. /\ m_value' \in Values /\ m_oldValue' \in Values
          /\ m_isChanged' \in BOOLEAN /\ back' \in BOOLEAN
      BY <2>1, StoreType
    <2>. QED  BY <1>6, <2>2 DEF TypeOK, PollPlain
  <1>7. CASE PollCheck
    BY <1>7 DEF TypeOK, PollCheck
  <1>8. CASE PollNotify
    BY <1>8 DEF TypeOK, PollNotify
  <1>9. CASE PollDangling
    BY <1>9 DEF TypeOK, PollDangling
  <1>10. CASE PollReset
    BY <1>10 DEF TypeOK, PollReset
  <1>11. ASSUME NEW t \in Threads, GetValue(t)  PROVE TypeOK'
    <2>1. CASE ReadsDriver /\ Goto(t, "read", device) /\ UNCHANGED dataVars
      BY <1>11, <2>1 DEF TypeOK, GetValue, Goto
    <2>2. CASE GetPlain /\ UNCHANGED threadVars
      <3>1. device \in Values
        BY DEF TypeOK
      <3>2. /\ m_value' \in Values /\ m_oldValue' \in Values
            /\ m_isChanged' \in BOOLEAN /\ back' \in BOOLEAN
        BY <2>2, <3>1, StoreType
      <3>. QED  BY <1>11, <2>2, <3>2 DEF TypeOK, GetValue
    <2>. QED  BY <1>11, <2>1, <2>2 DEF GetValue
  <1>12. ASSUME NEW t \in Threads, GetStore(t)  PROVE TypeOK'
    <2>1. arg[t] \in Values /\ StoreRead(arg[t])
      BY <1>12 DEF GetStore, TypeOK
    <2>2. /\ m_value' \in Values /\ m_oldValue' \in Values
          /\ m_isChanged' \in BOOLEAN /\ back' \in BOOLEAN
      BY <2>1, StoreType
    <2>. QED  BY <1>12, <2>2 DEF TypeOK, GetStore, Goto
  <1>13. ASSUME NEW t \in Threads, NEW v \in Values, SetValue(t, v)  PROVE TypeOK'
    <2>0. ops' \in 0 .. MaxOps
      BY <1>13, ChannelAssumption DEF SetValue, Count, TypeOK, ChannelAssumption
    <2>1. CASE device' = v /\ Goto(t, "written", v) /\ UNCHANGED dataVars
      BY <1>13, <2>0, <2>1 DEF TypeOK, SetValue, Goto
    <2>2. CASE SetPlain(v) /\ UNCHANGED <<device, threadVars>>
      <3>1. /\ m_value' \in Values /\ m_oldValue' \in Values
            /\ m_isChanged' \in BOOLEAN /\ back' \in BOOLEAN
        BY <2>2, StoreType
      <3>. QED  BY <1>13, <2>0, <2>2, <3>1 DEF TypeOK, SetValue
    <2>. QED  BY <1>13, <2>1, <2>2 DEF SetValue
  <1>14. ASSUME NEW t \in Threads, SetStore(t)  PROVE TypeOK'
    <2>1. arg[t] \in Values /\ StoreWritten(arg[t])
      BY <1>14 DEF SetStore, TypeOK
    <2>2. /\ m_value' \in Values /\ m_oldValue' \in Values
          /\ m_isChanged' \in BOOLEAN /\ back' \in BOOLEAN
      BY <2>1, StoreType
    <2>. QED  BY <1>14, <2>2 DEF TypeOK, SetStore, Goto
  <1>15. ASSUME NEW t \in Threads, NEW v \in Values, SetSimulatedValue(t, v)
         PROVE  TypeOK'
    BY <1>15, ChannelAssumption
    DEF TypeOK, SetSimulatedValue, Count, ChannelAssumption
  <1>16. ASSUME NEW t \in Threads, NEW s \in Subscribers, Subscribe(t, s)
         PROVE  TypeOK'
    BY <1>16, ChannelAssumption
    DEF TypeOK, Subscribe, Count, Goto, ChannelAssumption
  <1>17. ASSUME NEW t \in Threads, SubscribePush(t)  PROVE TypeOK'
    <2>1. arg[t] \in Subscribers
      BY <1>17 DEF SubscribePush, TypeOK
    <2>2. Append(m_subscribers, arg[t]) \in Seq(Subscribers)
      BY <2>1, AppendProperties DEF TypeOK
    <2>. QED  BY <1>17, <2>1, <2>2 DEF TypeOK, SubscribePush, Goto
  <1>18. ASSUME NEW t \in Threads, NEW s \in Subscribers, Unsubscribe(t, s)
         PROVE  TypeOK'
    <2>1. PICK i \in DOMAIN m_subscribers :
                 /\ m_subscribers' = RemoveAt(m_subscribers, i)
                 /\ at' = IF i < at THEN at - 1 ELSE at
                 /\ dangling' = (dangling \/ (poll = "notify" /\ i = at))
      BY <1>18 DEF Unsubscribe
    <2>2. m_subscribers' \in Seq(Subscribers)
      BY <2>1, RemoveAtProperties DEF TypeOK
    <2>3. i \in Nat \ {0}
      BY LenProperties DEF TypeOK
    <2>4. at' \in Nat \ {0}
      BY <2>1, <2>3 DEF TypeOK
    <2>. QED  BY <1>18, <2>1, <2>2, <2>4 DEF TypeOK, Unsubscribe
  <1>. QED
    BY <1>1, <1>2, <1>3, <1>4, <1>5, <1>6, <1>7, <1>8, <1>9, <1>10, <1>11,
       <1>12, <1>13, <1>14, <1>15, <1>16, <1>17, <1>18
    DEF Next, Run, Poll, Thread, Finish

\* Every behaviour of the channel keeps its variables in their types,
\* whatever the class, the platform and the number of threads.
THEOREM ChannelTypeCorrect == Spec => []TypeOK
  BY InitType, NextType, PTL DEF Spec

-----------------------------------------------------------------------------
(* The mutex.                                                              *)

\* What the channel's mutex guarantees while update or subscribe holds it:
\* the flag stays up, and the list node under the loop is not erased.
MutexInv ==
  /\ poll \in {"notify", "reset"} => m_isChanged
  /\ \A t \in Threads :
       pc[t] = "push" => m_isChanged /\ poll \notin {"notify", "reset"}
  /\ ~dangling

\* A step either is one of the poll thread's that moves poll between the
\* places where the mutex is held and those where it is not, or touches the
\* list under the mutex, or leaves the list alone and keeps the flag up.
QuietStep ==
  /\ UNCHANGED listVars
  /\ m_isChanged => m_isChanged'
  /\ poll \in {"notify", "reset"} => poll' = poll
  /\ poll' \in {"notify", "reset"} => poll' = poll
  /\ \A t \in Threads : pc'[t] = "push" => pc[t] = "push"

LEMMA StepCases ==
  ASSUME TypeOK, MutexWorks, MutexInv, [Next]_vars
  PROVE  \/ QuietStep
         \/ PollCheck /\ m_isChanged
         \/ PollNotify \/ PollReset
         \/ \E t \in Threads :
              \/ SubscribePush(t)
              \/ \E s \in Subscribers : Subscribe(t, s) \/ Unsubscribe(t, s)
  <1> USE DEF dataVars, listVars, pollVars, threadVars
  <1>1. CASE UNCHANGED vars
    BY <1>1 DEF QuietStep, vars
  <1>2. CASE \E v \in Values : DeviceChange(v)
    BY <1>2 DEF QuietStep, DeviceChange
  <1>3. CASE PollRead
    BY <1>3 DEF QuietStep, PollRead
  <1>4. CASE PollReadFails
    BY <1>4 DEF QuietStep, PollReadFails
  <1>5. CASE PollStore
    <2>1. m_isChanged => m_isChanged'
      BY <1>5, StoreType DEF PollStore, TypeOK
    <2>. QED  BY <1>5, <2>1 DEF QuietStep, PollStore
  <1>6. CASE PollPlain
    <2>1. m_isChanged => m_isChanged'
      BY <1>6, StoreType DEF PollPlain, TypeOK
    <2>. QED  BY <1>6, <2>1 DEF QuietStep, PollPlain
  <1>7. CASE PollCheck /\ ~m_isChanged
    BY <1>7 DEF QuietStep, PollCheck
  <1>8. CASE PollDangling
    BY <1>8 DEF PollDangling, MutexInv
  <1>9. ASSUME NEW t \in Threads, GetValue(t)  PROVE QuietStep
    <2>1. CASE Goto(t, "read", device) /\ UNCHANGED dataVars
      BY <1>9, <2>1 DEF QuietStep, GetValue, Goto, TypeOK
    <2>2. CASE GetPlain /\ UNCHANGED threadVars
      <3>1. m_isChanged => m_isChanged'
        BY <2>2, StoreType DEF TypeOK
      <3>. QED  BY <1>9, <2>2, <3>1 DEF QuietStep, GetValue
    <2>. QED  BY <1>9, <2>1, <2>2 DEF GetValue
  <1>10. ASSUME NEW t \in Threads, GetStore(t)  PROVE QuietStep
    <2>1. m_isChanged => m_isChanged'
      BY <1>10, StoreType DEF GetStore, TypeOK
    <2>. QED  BY <1>10, <2>1 DEF QuietStep, GetStore, Goto, TypeOK
  <1>11. ASSUME NEW t \in Threads, NEW v \in Values, SetValue(t, v)
         PROVE  QuietStep
    <2>1. CASE Goto(t, "written", v) /\ UNCHANGED dataVars
      BY <1>11, <2>1 DEF QuietStep, SetValue, Goto, TypeOK
    <2>2. CASE SetPlain(v) /\ UNCHANGED threadVars
      <3>1. m_isChanged => m_isChanged'
        BY <2>2, StoreType
      <3>. QED  BY <1>11, <2>2, <3>1 DEF QuietStep, SetValue
    <2>. QED  BY <1>11, <2>1, <2>2 DEF SetValue
  <1>12. ASSUME NEW t \in Threads, SetStore(t)  PROVE QuietStep
    <2>1. m_isChanged => m_isChanged'
      BY <1>12, StoreType DEF SetStore, TypeOK
    <2>. QED  BY <1>12, <2>1 DEF QuietStep, SetStore, Goto, TypeOK
  <1>13. ASSUME NEW t \in Threads, NEW v \in Values, SetSimulatedValue(t, v)
         PROVE  QuietStep
    BY <1>13 DEF QuietStep, SetSimulatedValue
  <1>. QED
    BY <1>1, <1>2, <1>3, <1>4, <1>5, <1>6, <1>7, <1>8, <1>9, <1>10, <1>11,
       <1>12, <1>13
    DEF Next, Run, Poll, Thread, Finish

LEMMA InitMutex == Init => MutexInv
  BY DEF Init, MutexInv

LEMMA NextMutex ==
  ASSUME TypeOK, MutexWorks, MutexInv, [Next]_vars
  PROVE  MutexInv'
  <1> USE DEF dataVars, listVars, pollVars, threadVars
  <1>1. CASE QuietStep
    BY <1>1 DEF QuietStep, MutexInv
  <1>2. CASE PollCheck /\ m_isChanged
    BY <1>2 DEF PollCheck, MutexInv, Unlocked
  <1>3. CASE PollNotify
    BY <1>3 DEF PollNotify, MutexInv
  <1>4. CASE PollReset
    BY <1>4 DEF PollReset, MutexInv
  <1>5. ASSUME NEW t \in Threads, SubscribePush(t)  PROVE MutexInv'
    BY <1>5 DEF SubscribePush, MutexInv, Goto, TypeOK
  <1>6. ASSUME NEW t \in Threads, NEW s \in Subscribers, Subscribe(t, s)
        PROVE  MutexInv'
    BY <1>6 DEF Subscribe, MutexInv, Goto, Unlocked, TypeOK
  <1>7. ASSUME NEW t \in Threads, NEW s \in Subscribers, Unsubscribe(t, s)
        PROVE  MutexInv'
    BY <1>7 DEF Unsubscribe, MutexInv, Unlocked, TypeOK
  <1>. QED  BY <1>1, <1>2, <1>3, <1>4, <1>5, <1>6, <1>7, StepCases

\* Where IMutex is a lock, update never goes on with the list node of a
\* subscriber that unsubscribed while it was at it.
THEOREM IteratorStaysValid ==
  ASSUME MutexWorks
  PROVE  Spec => []NoDanglingIterator
  <1>1. TypeOK /\ MutexInv /\ [Next]_vars => (TypeOK /\ MutexInv)'
    BY NextType, NextMutex
  <1>2. MutexInv => NoDanglingIterator
    BY DEF MutexInv, NoDanglingIterator
  <1>. QED  BY <1>1, <1>2, InitType, InitMutex, PTL DEF Spec

-----------------------------------------------------------------------------
(* Notification.                                                           *)

\* FirstNotice is not inductive: lowering the flag preserves it only because
\* the loop of update has been past every subscriber in the list.
NoticeInv ==
  /\ FirstNotice
  /\ poll = "notify" =>
       \A i \in DOMAIN m_subscribers : i < at => seen[m_subscribers[i]] # None
  /\ poll = "reset" =>
       \A i \in DOMAIN m_subscribers : seen[m_subscribers[i]] # None

\* The same for the last value: here the value must also stay what it is
\* while update runs.
ChangeInv ==
  /\ NoMissedChange
  /\ poll = "notify" =>
       \A i \in DOMAIN m_subscribers : i < at => seen[m_subscribers[i]] = m_value
  /\ poll = "reset" =>
       \A i \in DOMAIN m_subscribers : seen[m_subscribers[i]] = m_value

LEMMA InitNotice == Init => NoticeInv /\ ChangeInv
  <1> SUFFICES ASSUME Init  PROVE NoticeInv /\ ChangeInv
    OBVIOUS
  <1>1. m_subscribers = <<>> /\ poll = "get"
    BY DEF Init
  <1>2. \A s \in Subscribers : ~Subscribed(s)
    BY <1>1 DEF Subscribed
  <1>. QED  BY <1>1, <1>2 DEF NoticeInv, ChangeInv, FirstNotice, NoMissedChange

\* Unsubscribe adds no element to the list.
LEMMA ListAfterErase ==
  ASSUME TypeOK, NEW t \in Threads, NEW s, Unsubscribe(t, s), NEW u,
         Subscribed(u)'
  PROVE  Subscribed(u)
  BY RemoveAtProperties DEF Unsubscribe, Subscribed, TypeOK

LEMMA NextNotice ==
  ASSUME TypeOK, MutexWorks, MutexInv, NoticeInv, [Next]_vars
  PROVE  NoticeInv'
  <1> USE DEF dataVars, listVars, pollVars, threadVars
  <1>1. CASE QuietStep
    BY <1>1 DEF QuietStep, NoticeInv, FirstNotice, Subscribed
  <1>2. CASE PollCheck /\ m_isChanged
    <2>1. \A i \in DOMAIN m_subscribers : ~(i < 1)
      BY LenProperties DEF TypeOK
    <2>. QED  BY <1>2, <2>1 DEF PollCheck, NoticeInv, FirstNotice, Subscribed
  <1>3. CASE PollNotify
    <2>0. m_isChanged' = m_isChanged /\ m_isChanged /\ m_subscribers' = m_subscribers
      BY <1>3 DEF PollNotify, MutexInv
    <2>1. FirstNotice'
      BY <2>0 DEF FirstNotice
    <2>2. CASE /\ at <= Len(m_subscribers)
               /\ seen' = [seen EXCEPT ![m_subscribers[at]] = m_value]
               /\ at' = at + 1
               /\ UNCHANGED poll
      <3>1. m_value # None
        BY ChannelAssumption DEF ChannelAssumption, TypeOK, Values
      <3>2. ASSUME NEW i \in DOMAIN m_subscribers, i < at + 1
            PROVE  seen'[m_subscribers[i]] # None
        <4>1. m_subscribers[i] \in Subscribers /\ i \in Nat /\ at \in Nat
          BY LenProperties, ElementOfSeq DEF TypeOK
        <4>2. CASE i < at
          BY <1>3, <2>2, <3>1, <4>1, <4>2 DEF PollNotify, NoticeInv, TypeOK
        <4>3. CASE i = at
          BY <2>2, <3>1, <4>1, <4>3 DEF TypeOK
        <4>. QED  BY <3>2, <4>1, <4>2, <4>3
      <3>. QED  BY <1>3, <2>0, <2>1, <2>2, <3>2 DEF NoticeInv, PollNotify
    <2>3. CASE at > Len(m_subscribers) /\ poll' = "reset" /\ UNCHANGED <<seen, at>>
      <3>1. \A i \in DOMAIN m_subscribers : i < at
        BY <2>3, LenProperties DEF TypeOK
      <3>. QED  BY <1>3, <2>0, <2>1, <2>3, <3>1 DEF NoticeInv, PollNotify
    <2>. QED  BY <1>3, <2>2, <2>3 DEF PollNotify
  <1>4. CASE PollReset
    BY <1>4 DEF PollReset, NoticeInv, FirstNotice, Subscribed
  <1>5. ASSUME NEW t \in Threads, SubscribePush(t)  PROVE NoticeInv'
    <2>1. m_isChanged' /\ poll' \notin {"notify", "reset"}
      BY <1>5 DEF SubscribePush, MutexInv
    <2>. QED  BY <2>1 DEF NoticeInv, FirstNotice
  <1>6. ASSUME NEW t \in Threads, NEW s \in Subscribers, Subscribe(t, s)
        PROVE  NoticeInv'
    BY <1>6 DEF Subscribe, NoticeInv, FirstNotice, Subscribed, Unlocked
  <1>7. ASSUME NEW t \in Threads, NEW s \in Subscribers, Unsubscribe(t, s)
        PROVE  NoticeInv'
    <2>1. poll' \notin {"notify", "reset"} /\ UNCHANGED <<seen, m_isChanged>>
      BY <1>7 DEF Unsubscribe, Unlocked
    <2>2. \A u : Subscribed(u)' => Subscribed(u)
      BY <1>7, ListAfterErase
    <2>. QED  BY <2>1, <2>2 DEF NoticeInv, FirstNotice
  <1>. QED  BY <1>1, <1>2, <1>3, <1>4, <1>5, <1>6, <1>7, StepCases

\* Where IMutex is a lock, a subscriber of a channel of any class, however
\* many threads read, write and subscribe at the same time, has been handed
\* the channel since it subscribed or is going to be.
THEOREM SubscriberIsTold ==
  ASSUME MutexWorks
  PROVE  Spec => []FirstNotice
  <1> DEFINE Inv == TypeOK /\ MutexInv /\ NoticeInv
  <1>1. Init => Inv
    BY InitType, InitMutex, InitNotice
  <1>2. Inv /\ [Next]_vars => Inv'
    BY NextType, NextMutex, NextNotice
  <1>3. Inv => FirstNotice
    BY DEF NoticeInv
  <1>. QED  BY <1>1, <1>2, <1>3, PTL DEF Spec

\* The classes whose getValue raises the flag for what it read.
FlaggingKinds == ReadOnlyKinds \cup {"ReadWriteInt"}

\* The value of such a channel behind a driver changes only in the poll
\* thread's getValue, with the flag unless it went back to m_oldValue.  While
\* it stays the same, so does the fact that it went back, until update ends.
LEMMA ValueStep ==
  ASSUME TypeOK, Readers = {}, Writers = {}, Driven, ~Simulated,
         Kind \in FlaggingKinds,
         \A t \in Threads : pc[t] \notin {"read", "written"},
         [Next]_vars
  PROVE  /\ \/ UNCHANGED m_value /\ (GoneBack => GoneBack')
            \/ PollReset /\ UNCHANGED m_value
            \/ (m_isChanged \/ GoneBack)' /\ poll = "store"
         /\ \A t \in Threads : pc'[t] \notin {"read", "written"}
  <1> USE DEF dataVars, listVars, pollVars, threadVars, GoneBack
  <1>0. ReadsDriver /\ UNCHANGED channel
    BY DEF ReadsDriver, FlaggingKinds, ReadOnlyKinds, Next, Run, vars
  <1>k. UNCHANGED Kind
    BY <1>0 DEF Kind
  <1> DEFINE Free == \A t \in Threads : pc[t] \notin {"read", "written"}
             Kept == UNCHANGED m_value /\ (GoneBack => GoneBack')
  <1>1. CASE UNCHANGED vars
    BY <1>1, <1>k DEF vars
  <1>2. CASE \E v \in Values : DeviceChange(v)
    BY <1>2, <1>k DEF DeviceChange
  <1>3. CASE PollStore
    <2>0. StoreRead(pollValue) /\ Free' /\ poll = "store"
      BY <1>3 DEF PollStore
    <2>1. CASE Kind \in ReadOnlyKinds
      <3>1. Replace(pollValue)
        BY <2>0, <2>1, Zenon DEF StoreRead, ReadOnlyKinds
      <3>2. Kind # "ReadWriteInt"
        BY <2>1 DEF ReadOnlyKinds
      <3>. QED  BY <2>0, <3>1, <3>2 DEF Replace
    <2>2. CASE Kind = "ReadWriteInt"
      <3>1. /\ m_isChanged' = (m_isChanged \/ pollValue # m_oldValue)
            /\ m_oldValue' = IF pollValue # m_oldValue THEN m_value ELSE m_oldValue
            /\ m_value' = pollValue
            /\ back' = (pollValue = m_oldValue /\ (pollValue # m_value \/ back))
        BY <2>0, <2>2 DEF StoreRead, ReadOnlyKinds
      <3>2. CASE pollValue # m_oldValue
        BY <2>0, <3>1, <3>2
      <3>3. CASE pollValue = m_oldValue /\ pollValue # m_value
        BY <2>0, <2>2, <1>k, <3>1, <3>3
      <3>4. CASE pollValue = m_oldValue /\ pollValue = m_value
        <4>1. Kept
          BY <1>k, <3>1, <3>4
        <4>. QED  BY <2>0, <4>1
      <3>. QED  BY <3>2, <3>3, <3>4
    <2>. QED  BY <2>1, <2>2 DEF FlaggingKinds
  <1>4. CASE PollRead \/ PollReadFails \/ PollPlain \/ PollCheck \/ PollNotify
             \/ PollDangling
    <2>1. UNCHANGED <<dataVars, pc>>
      BY <1>0, <1>4 DEF PollRead, PollReadFails, PollPlain, PollCheck, PollNotify,
                        PollDangling
    <2>. QED  BY <1>k, <2>1
  <1>5. CASE PollReset
    BY <1>5 DEF PollReset
  <1>6. ASSUME NEW t \in Threads, GetValue(t) \/ GetStore(t) \/ SetStore(t)
        PROVE  FALSE
    BY <1>6 DEF GetValue, GetStore, SetStore
  <1>7. ASSUME NEW t \in Threads, NEW v \in Values,
               SetValue(t, v) \/ SetSimulatedValue(t, v)
        PROVE  FALSE
    BY <1>7 DEF SetValue, SetSimulatedValue
  <1>8. ASSUME NEW t \in Threads, NEW s \in Subscribers,
               Subscribe(t, s) \/ Unsubscribe(t, s)
        PROVE  Kept /\ Free'
    <2>1. UNCHANGED <<m_value, m_oldValue, back>>
      BY <1>8 DEF Subscribe, Unsubscribe
    <2>2. Free'
      BY <1>8 DEF Subscribe, Unsubscribe, Goto, TypeOK
    <2>. QED  BY <1>k, <2>1, <2>2
  <1>9. ASSUME NEW t \in Threads, SubscribePush(t)  PROVE Kept /\ Free'
    <2>1. UNCHANGED <<m_value, m_oldValue, back>>
      BY <1>9 DEF SubscribePush
    <2>2. Free'
      BY <1>9 DEF SubscribePush, Goto, TypeOK
    <2>. QED  BY <1>k, <2>1, <2>2
  <1>. QED
    BY <1>1, <1>2, <1>3, <1>4, <1>5, <1>6, <1>7, <1>8, <1>9
    DEF Next, Run, Poll, Thread, Finish

LEMMA NextChange ==
  ASSUME TypeOK, MutexWorks, MutexInv, ChangeInv, [Next]_vars,
         \/ UNCHANGED m_value /\ (GoneBack => GoneBack')
         \/ PollReset /\ UNCHANGED m_value
         \/ (m_isChanged \/ GoneBack)' /\ poll = "store"
  PROVE  ChangeInv'
  <1> USE DEF dataVars, listVars, pollVars, threadVars
  <1>1. CASE QuietStep
    <2>1. CASE UNCHANGED m_value /\ (GoneBack => GoneBack')
      BY <1>1, <2>1 DEF QuietStep, ChangeInv, NoMissedChange, Subscribed
    <2>2. CASE (m_isChanged \/ GoneBack)' /\ poll = "store"
      BY <1>1, <2>2 DEF QuietStep, ChangeInv, NoMissedChange
    <2>3. CASE PollReset
      BY <1>1, <2>3 DEF PollReset, QuietStep
    <2>. QED  BY <2>1, <2>2, <2>3
  <1>2. CASE PollCheck /\ m_isChanged
    <2>1. \A i \in DOMAIN m_subscribers : ~(i < 1)
      BY LenProperties DEF TypeOK
    <2>. QED  BY <1>2, <2>1 DEF PollCheck, ChangeInv, NoMissedChange, Subscribed
  <1>3. CASE PollNotify
    <2>0. /\ m_isChanged' = m_isChanged /\ m_isChanged
          /\ m_subscribers' = m_subscribers /\ m_value' = m_value
      BY <1>3 DEF PollNotify, MutexInv
    <2>1. NoMissedChange'
      BY <2>0 DEF NoMissedChange
    <2>2. CASE /\ at <= Len(m_subscribers)
               /\ seen' = [seen EXCEPT ![m_subscribers[at]] = m_value]
               /\ at' = at + 1
               /\ UNCHANGED poll
      <3>2. ASSUME NEW i \in DOMAIN m_subscribers, i < at + 1
            PROVE  seen'[m_subscribers[i]] = m_value
        <4>1. m_subscribers[i] \in Subscribers /\ i \in Nat /\ at \in Nat
          BY LenProperties, ElementOfSeq DEF TypeOK
        <4>2. CASE i < at
          BY <1>3, <2>2, <4>1, <4>2 DEF PollNotify, ChangeInv, TypeOK
        <4>3. CASE i = at
          BY <2>2, <4>1, <4>3 DEF TypeOK
        <4>. QED  BY <3>2, <4>1, <4>2, <4>3
      <3>. QED  BY <1>3, <2>0, <2>1, <2>2, <3>2 DEF ChangeInv, PollNotify
    <2>3. CASE at > Len(m_subscribers) /\ poll' = "reset" /\ UNCHANGED <<seen, at>>
      <3>1. \A i \in DOMAIN m_subscribers : i < at
        BY <2>3, LenProperties DEF TypeOK
      <3>. QED  BY <1>3, <2>0, <2>1, <2>3, <3>1 DEF ChangeInv, PollNotify
    <2>. QED  BY <1>3, <2>2, <2>3 DEF PollNotify
  <1>4. CASE PollReset
    BY <1>4 DEF PollReset, ChangeInv, NoMissedChange, Subscribed
  <1>5. ASSUME NEW t \in Threads, SubscribePush(t)  PROVE ChangeInv'
    <2>1. m_isChanged' /\ poll' \notin {"notify", "reset"}
      BY <1>5 DEF SubscribePush, MutexInv
    <2>. QED  BY <2>1 DEF ChangeInv, NoMissedChange
  <1>6. ASSUME NEW t \in Threads, NEW s \in Subscribers, Subscribe(t, s)
        PROVE  ChangeInv'
    BY <1>6 DEF Subscribe, ChangeInv, NoMissedChange, Subscribed, Unlocked
  <1>7. ASSUME NEW t \in Threads, NEW s \in Subscribers, Unsubscribe(t, s)
        PROVE  ChangeInv'
    <2>1. /\ poll' \notin {"notify", "reset"}
          /\ UNCHANGED <<seen, dataVars, channel>>
      BY <1>7 DEF Unsubscribe, Unlocked, Next, Run, vars
    <2>2. \A u : Subscribed(u)' => Subscribed(u)
      BY <1>7, ListAfterErase
    <2>3. GoneBack => GoneBack'
      BY <2>1 DEF GoneBack, Kind
    <2>. QED  BY <2>1, <2>2, <2>3 DEF ChangeInv, NoMissedChange
  <1>. QED  BY <1>1, <1>2, <1>3, <1>4, <1>5, <1>6, <1>7, StepCases

\* Where IMutex is a lock, a ReadOnly or ReadWriteInt channel behind a driver
\* that only the poll thread reads and nobody writes never loses a change,
\* but for one of a ReadWriteInt back to m_oldValue: whenever a subscriber's
\* last value is not the channel's, the flag that leads to update is up.
THEOREM NoChangeMissed ==
  ASSUME MutexWorks, Readers = {}, Writers = {},
         Channels \subseteq
           [kind : FlaggingKinds, driven : {TRUE}, simulated : {FALSE}]
  PROVE  Spec => []NoMissedChange
  <1> DEFINE Free == \A t \in Threads : pc[t] \notin {"read", "written"}
             Inv  == TypeOK /\ MutexInv /\ ChangeInv /\ Free
  <1>1. Init => Inv
    <2>1. Init => Free
      BY DEF Init
    <2>. QED  BY <2>1, InitType, InitMutex, InitNotice
  <1>2. Inv /\ [Next]_vars => Inv'
    <2> SUFFICES ASSUME Inv, [Next]_vars  PROVE Inv'
      OBVIOUS
    <2>1. /\ \/ UNCHANGED m_value /\ (GoneBack => GoneBack')
             \/ PollReset /\ UNCHANGED m_value
             \/ (m_isChanged \/ GoneBack)' /\ poll = "store"
          /\ Free'
      <3>1. Driven /\ ~Simulated /\ Kind \in FlaggingKinds
        BY DEF TypeOK, Driven, Simulated, Kind
      <3>. QED  BY <3>1, ValueStep
    <2>2. ChangeInv'
      BY <2>1, NextChange
    <2>. QED  BY <2>1, <2>2, NextType, NextMutex
  <1>3. Inv => NoMissedChange
    BY DEF ChangeInv
  <1>. QED  BY <1>1, <1>2, <1>3, PTL DEF Spec
=============================================================================
