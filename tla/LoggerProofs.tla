---------------------------- MODULE LoggerProofs ----------------------------
(***************************************************************************)
(* Theorems about Logger, for every value of its constants: any number of  *)
(* threads, clients and messages, either platform.                         *)
(***************************************************************************)
EXTENDS Logger, SequenceTheorems, TLAPS

\* What the files and their entries have to do with each other: an open file
\* has an entry, and the lines of a file are lines of the log.
HistoryOK ==
  /\ file_name_ => history # <<>>
  /\ writer \in {"write", "account"} => history # <<>>
  /\ \A i \in DOMAIN history : history[i].first + history[i].lines <= Len(disk)

\* TypeOK is not inductive: WriterWrite touches the last history entry, which
\* HistoryOK says is there, and a handler reads lines HistoryOK says exist.
TypeInv == TypeOK /\ HistoryOK

-----------------------------------------------------------------------------
(* Facts about the operators of Logger.                                    *)

\* Recording a message keeps m_messages and pushed in their types.
LEMMA PushType ==
  ASSUME TypeOK, Push
  PROVE  m_messages' \in Seq(Nat) /\ pushed' \in Nat
  BY DEF TypeOK, Push

\* Program counters stay in their type when one thread moves.
LEMMA GotoType ==
  ASSUME TypeOK, NEW t, NEW to \in CallerPc \cup RequestPc, Goto(t, to)
  PROVE  pc' \in [Callers \cup Requests -> CallerPc \cup RequestPc]
  BY DEF TypeOK, Goto

\* A handler's counters, its lists and the subscriber list keep their types.
LEMMA BumpType ==
  ASSUME NEW f \in [Requests -> Nat], NEW r \in Requests, NEW n \in Nat
  PROVE  [f EXCEPT ![r] = @ + n] \in [Requests -> Nat]
  <1>1. f[r] + n \in Nat
    OBVIOUS
  <1>. QED  BY <1>1

LEMMA ExtendType ==
  ASSUME NEW f \in [Requests -> Seq(Nat)], NEW r \in Requests, NEW s \in Seq(Nat)
  PROVE  [f EXCEPT ![r] = @ \o s] \in [Requests -> Seq(Nat)]
  <1>1. f[r] \o s \in Seq(Nat)
    BY ConcatProperties
  <1>. QED  BY <1>1

LEMMA EmptiedType ==
  ASSUME NEW f \in [Requests -> Seq(Nat)], NEW r \in Requests
  PROVE  [f EXCEPT ![r] = <<>>] \in [Requests -> Seq(Nat)]
  OBVIOUS

LEMMA RemoveAtType ==
  ASSUME NEW s \in Seq(Requests), NEW i \in DOMAIN s
  PROVE  RemoveAt(s, i) \in Seq(Requests)
  <1>1. i \in 1..Len(s) /\ Len(s) \in Nat
    BY LenProperties
  <1>2. \A j \in 1..Len(s) : s[j] \in Requests
    BY ElementOfSeq
  <1>3. \A j \in 1..(i - 1) : s[j] \in Requests
    BY <1>1, <1>2
  <1>4. \A j \in (i + 1)..Len(s) : s[j] \in Requests
    BY <1>1, <1>2
  <1>5. SubSeq(s, 1, i - 1) \in Seq(Requests)
    BY <1>1, <1>3, SubSeqProperties
  <1>6. SubSeq(s, i + 1, Len(s)) \in Seq(Requests)
    BY <1>1, <1>4, SubSeqProperties
  <1>. QED  BY <1>5, <1>6, ConcatProperties DEF RemoveAt

\* The lines a handler reads from a file are log lines.
LEMMA LinesReadType ==
  ASSUME TypeInv, NEW r \in Requests, k[r] < Len(history)
  PROVE  /\ Entry(r) \in EntryType
         /\ LinesRead(r) \in Seq(Nat)
         /\ Len(LinesRead(r)) \in Nat
  <1>0. count[r] \in Nat /\ total[r] \in Nat /\ index[r] \in Nat
    BY LoggerAssumption DEF LoggerAssumption, TypeInv, TypeOK
  <1>1. k[r] + 1 \in DOMAIN history
    BY DEF TypeInv, TypeOK
  <1>2. Entry(r) \in EntryType /\ Entry(r).first + Entry(r).lines <= Len(disk)
    BY <1>1 DEF TypeInv, TypeOK, HistoryOK, Entry
  <1> DEFINE start == StartLineIndex(r) - index[r]
             skip  == IF start <= 0 THEN 0 ELSE start
  <1>3. start \in Int /\ skip \in Nat
    BY <1>0 DEF StartLineIndex
  <1> HIDE DEF start, skip
  <1>4. \A i \in (Entry(r).first + skip + 1)..(Entry(r).first + Entry(r).lines) :
          disk[i] \in Nat
    <2>1. Entry(r).first \in Nat /\ Entry(r).lines \in Nat
      BY <1>2 DEF EntryType
    <2>2. disk \in Seq(Nat) /\ Len(disk) \in Nat
      BY DEF TypeInv, TypeOK
    <2>3. \A i \in 1..Len(disk) : disk[i] \in Nat
      BY <2>2, ElementOfSeq
    <2>. QED  BY <1>2, <1>3, <2>1, <2>2, <2>3
  <1>5. LinesRead(r) = SubSeq(disk, Entry(r).first + skip + 1,
                                    Entry(r).first + Entry(r).lines)
    BY DEF LinesRead, ReadFile, start, skip
  <1>6. LinesRead(r) \in Seq(Nat)
    BY <1>2, <1>3, <1>4, <1>5, SubSeqProperties DEF EntryType
  <1>. QED  BY <1>2, <1>6, LenProperties

\* The fields of a history entry before and after execute updates it.
LEMMA EntryUpdate ==
  ASSUME NEW e \in EntryType, NEW n \in Nat
  PROVE  /\ e.first \in Nat /\ e.lines \in Nat /\ e.line_count \in Nat
         /\ LET w == [e EXCEPT !.lines = e.lines + n, !.exists = TRUE] IN
            w \in EntryType /\ w.first = e.first /\ w.lines = e.lines + n
         /\ LET a == [e EXCEPT !.line_count = @ + n] IN
            a \in EntryType /\ a.first = e.first /\ a.lines = e.lines
  <1>1. e.first \in Nat /\ e.lines \in Nat /\ e.line_count \in Nat
    BY DEF EntryType
  <1>2. e.lines + n \in Nat /\ e.line_count + n \in Nat
    BY <1>1
  <1>3. ASSUME NEW x \in Nat
        PROVE  LET w == [e EXCEPT !.lines = x, !.exists = TRUE] IN
               w \in EntryType /\ w.first = e.first /\ w.lines = x
    BY DEF EntryType
  <1>4. ASSUME NEW x \in Nat
        PROVE  LET a == [e EXCEPT !.line_count = x] IN
               a \in EntryType /\ a.first = e.first /\ a.lines = e.lines
    BY DEF EntryType
  <1>. QED  BY <1>1, <1>2, <1>3, <1>4

\* Appending an entry to a history.
LEMMA AppendEntry ==
  ASSUME NEW h \in Seq(EntryType), NEW e \in EntryType
  PROVE  /\ Append(h, e) \in Seq(EntryType) /\ Append(h, e) # <<>>
         /\ \A i \in DOMAIN Append(h, e) :
              Append(h, e)[i] = e \/ (i \in DOMAIN h /\ Append(h, e)[i] = h[i])
  BY AppendProperties

\* Replacing the last entry of a history by e, one of whose neighbours is
\* unchanged: execute's updates through --end().
LEMMA LastEntry ==
  ASSUME TypeInv, history # <<>>
  PROVE  /\ Len(history) \in DOMAIN history
         /\ history[Len(history)] \in EntryType
         /\ Len(batch) \in Nat
         /\ \A h, e : (e \in EntryType /\ h = [history EXCEPT ![Len(history)] = e])
              => /\ h \in Seq(EntryType) /\ h # <<>>
                 /\ Len(h) = Len(history) /\ DOMAIN h = DOMAIN history
  <1>1. history \in Seq(EntryType) /\ batch \in Seq(Nat)
    BY DEF TypeInv, TypeOK
  <1>2. Len(history) \in 1..Len(history)
    BY <1>1
  <1>3. history[Len(history)] \in EntryType
    BY <1>1, <1>2
  <1>4. Len(batch) \in Nat
    BY <1>1
  <1>5. ASSUME NEW h, NEW e \in EntryType,
               h = [history EXCEPT ![Len(history)] = e]
        PROVE  /\ h \in Seq(EntryType) /\ h # <<>>
               /\ Len(h) = Len(history) /\ DOMAIN h = DOMAIN history
    BY <1>1, <1>2, <1>5, ExceptSeq
  <1>. QED  BY <1>1, <1>2, <1>3, <1>4, <1>5

-----------------------------------------------------------------------------
(* Type correctness.                                                       *)

\* The threads that log preserve the types.
LEMMA CallerType ==
  ASSUME TypeInv, UNCHANGED count, NEW c \in Callers, Log(c) \/ Fatal(c) \/ FatalStep(c)
  PROVE  TypeInv'
  <1> USE DEF TypeInv, HistoryOK, TypeOK, writerVars, requestVars
  <1>1. CASE Log(c)
    BY <1>1, PushType DEF Log
  <1>2. CASE Fatal(c)
    <2>1. pc' \in [Callers \cup Requests -> CallerPc \cup RequestPc]
      BY <1>2, GotoType DEF Fatal, CallerPc
    <2>2. m_messages' \in Seq(Nat) /\ pushed' \in Nat
      BY <1>2, PushType DEF Fatal
    <2>. QED  BY <1>2, <2>1, <2>2 DEF Fatal
  <1>3. CASE FatalSeesEmpty(c)
    BY <1>3 DEF FatalSeesEmpty, Goto, CallerPc
  <1>4. CASE Stop(c)
    BY <1>4 DEF Stop, Goto, CallerPc
  <1>5. CASE Join(c)
    <2>1. pc' \in [Callers \cup Requests -> CallerPc \cup RequestPc]
      BY <1>5 DEF Join, Goto, CallerPc
    <2>2. m_messages' \in Seq(Nat) /\ pushed' \in Nat
      BY <1>5, PushType DEF Join
    <2>3. joiner' \in Callers \cup {None}
      BY <1>5 DEF Join
    <2>. QED  BY <1>5, <2>1, <2>2, <2>3 DEF Join
  <1>6. CASE Joined(c)
    BY <1>6 DEF Joined, Goto, CallerPc
  <1>7. CASE Exit(c)
    BY <1>7 DEF Exit
  <1>. QED  BY <1>1, <1>2, <1>3, <1>4, <1>5, <1>6, <1>7 DEF FatalStep

\* The writer thread preserves the types.
LEMMA WriterType ==
  ASSUME TypeInv, UNCHANGED count, Writer
  PROVE  TypeInv'
  <1> USE DEF TypeInv, HistoryOK, TypeOK, requestVars, WriterPc
  <1>1. CASE WriterAssign
    BY <1>1 DEF WriterAssign
  <1>2. CASE WriterClear
    BY <1>2 DEF WriterClear
  <1>3. CASE WriterName
    <2> DEFINE new == [first |-> Len(disk), lines |-> 0, line_count |-> 0,
                       exists |-> FALSE]
    <2>1. CASE file_name_
      BY <1>3, <2>1 DEF WriterName
    <2>2. CASE ~file_name_
      <3>1. history \in Seq(EntryType) /\ Len(disk) \in Nat
        OBVIOUS
      <3>2. new \in EntryType
        BY <3>1 DEF EntryType
      <3>3. history' = Append(history, new)
        BY <1>3, <2>2 DEF WriterName
      <3>4. history' \in Seq(EntryType) /\ history' # <<>>
        BY <3>1, <3>2, <3>3, AppendEntry
      <3>5. \A i \in DOMAIN history' :
              history'[i].first + history'[i].lines <= Len(disk)
        <4>1. Len(disk) \in Nat /\ new.first + new.lines <= Len(disk)
          BY <3>1
        <4>2. \A i \in DOMAIN history' :
                history'[i] = new \/ (i \in DOMAIN history /\ history'[i] = history[i])
          BY <3>1, <3>2, <3>3, AppendEntry
        <4>. QED  BY <4>1, <4>2
      <3>. QED  BY <1>3, <3>4, <3>5 DEF WriterName
    <2>. QED  BY <2>1, <2>2
  <1>4. CASE WriterWrite
    <2> DEFINE n == Len(history)
               size == history[n].lines + Len(batch)
               e == [history[n] EXCEPT !.lines = size, !.exists = TRUE]
    <2>0. history # <<>>
      BY <1>4 DEF WriterWrite
    <2>1. n \in DOMAIN history /\ history[n] \in EntryType /\ Len(batch) \in Nat
      BY <2>0, LastEntry
    <2>2. /\ size \in Nat /\ e \in EntryType
          /\ e.first = history[n].first /\ e.lines = size
          /\ history[n].first \in Nat /\ history[n].lines \in Nat
      <3> HIDE DEF n, TypeInv, HistoryOK, TypeOK
      <3>. QED  BY <2>1, EntryUpdate
    <2>3. CASE /\ disk' = disk \o batch
               /\ history' = [history EXCEPT ![n].lines = size, ![n].exists = TRUE]
               /\ file_name_' = (size < RollLines)
      <3>1. disk' \in Seq(Nat) /\ Len(disk') = Len(disk) + Len(batch)
        BY <2>3, ConcatProperties
      <3>2. history' = [history EXCEPT ![n] = e]
        BY <2>1, <2>3 DEF EntryType
      <3>3. /\ history' \in Seq(EntryType) /\ history' # <<>>
            /\ DOMAIN history' = DOMAIN history
        BY <2>0, <2>2, <3>2, LastEntry
      <3>4. ASSUME NEW i \in DOMAIN history'
            PROVE  history'[i].first + history'[i].lines <= Len(disk')
        <4>1. /\ history[i] \in EntryType /\ Len(disk) \in Nat
              /\ history[i].first + history[i].lines <= Len(disk)
          BY <3>3, <3>4
        <4>2. CASE i = n
          <5>1. history'[i] = e
            BY <2>1, <3>2, <4>2
          <5>2. history'[i].first + history'[i].lines
                  = history[n].first + (history[n].lines + Len(batch))
            BY <2>2, <5>1
          <5>3. history[n].first + history[n].lines <= Len(disk)
            BY <4>1, <4>2
          <5> HIDE DEF n, e, TypeInv, HistoryOK, TypeOK
          <5>4. \A a, b, m, d \in Nat : a + b <= d => a + (b + m) <= d + m
            OBVIOUS
          <5>. QED  BY <2>1, <2>2, <3>1, <4>1, <5>2, <5>3, <5>4
        <4>3. CASE i # n
          <5>1. history'[i] = history[i]
            BY <3>2, <3>3, <3>4, <4>3
          <5>2. history[i].first \in Nat /\ history[i].lines \in Nat
            BY <4>1, <2>1, EntryUpdate
          <5>3. history'[i].first + history'[i].lines <= Len(disk)
            BY <4>1, <5>1
          <5>4. Len(disk') \in Nat /\ Len(disk') >= Len(disk)
            BY <2>1, <3>1, <4>1
          <5>5. history'[i].first \in Nat /\ history'[i].lines \in Nat
            BY <5>1, <5>2
          <5>. QED  BY <4>1, <5>3, <5>4, <5>5
        <4>. QED  BY <4>2, <4>3
      <3>5. file_name_' \in BOOLEAN
        BY <2>3
      <3>. QED  BY <1>4, <3>1, <3>3, <3>4, <3>5 DEF WriterWrite
    <2>4. CASE file_name_' = FALSE /\ UNCHANGED <<disk, history>>
      BY <1>4, <2>0, <2>4 DEF WriterWrite
    <2>. QED  BY <1>4, <2>3, <2>4 DEF WriterWrite
  <1>5. CASE WriterAccount
    <2> DEFINE n == Len(history)
               e == [history[n] EXCEPT !.line_count = @ + Len(batch)]
    <2>0. history # <<>>
      BY <1>5 DEF WriterAccount
    <2>1. n \in DOMAIN history /\ history[n] \in EntryType /\ Len(batch) \in Nat
      BY <2>0, LastEntry
    <2>2. e \in EntryType /\ e.first = history[n].first /\ e.lines = history[n].lines
      BY <2>1, EntryUpdate
    <2>3. history' = [history EXCEPT ![n] = e]
      BY <1>5, <2>1 DEF WriterAccount, EntryType
    <2>4. /\ history' \in Seq(EntryType) /\ history' # <<>>
          /\ DOMAIN history' = DOMAIN history
      BY <2>0, <2>2, <2>3, LastEntry
    <2>5. ASSUME NEW i \in DOMAIN history'
          PROVE  history'[i].first + history'[i].lines <= Len(disk)
      BY <2>1, <2>2, <2>3, <2>4, <2>5
    <2>6. cur' \in Requests \cup {None}
      BY <1>5 DEF WriterAccount
    <2>. QED  BY <1>5, <2>4, <2>5, <2>6 DEF WriterAccount
  <1>6. CASE WriterUpdate
    <2>1. cur \in Requests
      BY <1>6 DEF WriterUpdate
    <2>2. inbox' \in [Requests -> Seq(Nat)]
      BY <1>6, <2>1, ConcatProperties DEF WriterUpdate
    <2>3. cur' \in Requests \cup {None}
      <3> DEFINE i == CHOOSE j \in DOMAIN subscribers : subscribers[j] = cur
      <3>1. \E j \in DOMAIN subscribers : subscribers[j] = cur
        BY <1>6 DEF WriterUpdate
      <3>2. i \in DOMAIN subscribers
        BY <3>1, Zenon
      <3> HIDE DEF i
      <3>3. subscribers \in Seq(Requests) /\ i \in 1..Len(subscribers)
        BY <3>2, LenProperties
      <3>4. i = Len(subscribers) \/ subscribers[i + 1] \in Requests
        <4>1. i = Len(subscribers) \/ i + 1 \in 1..Len(subscribers)
          BY <3>3, LenProperties
        <4>2. \A j \in 1..Len(subscribers) : subscribers[j] \in Requests
          BY <3>3, ElementOfSeq
        <4>. QED  BY <4>1, <4>2
      <3>. QED  BY <1>6, <3>4 DEF WriterUpdate, NextSubscriber, i
    <2>. QED  BY <1>6, <2>2, <2>3 DEF WriterUpdate
  <1>7. CASE WriterDangling
    BY <1>7 DEF WriterDangling
  <1>8. CASE WriterDone
    BY <1>8 DEF WriterDone
  <1>9. CASE WriterExit
    BY <1>9 DEF WriterExit
  <1>. QED  BY <1>1, <1>2, <1>3, <1>4, <1>5, <1>6, <1>7, <1>8, <1>9 DEF Writer

\* The RequestLogger handlers preserve the types.
LEMMA RequestType ==
  ASSUME TypeInv, UNCHANGED count, NEW r \in Requests, Request(r) \/ Relay(r)
  PROVE  TypeInv'
  <1> USE DEF TypeInv, HistoryOK, TypeOK, writerVars, requestVars
  <1>1. CASE RequestBegin(r)
    <2>1. pc' \in [Callers \cup Requests -> CallerPc \cup RequestPc]
      BY <1>1 DEF RequestBegin, Goto, RequestPc
    <2>. QED  BY <1>1, <2>1, PushType DEF RequestBegin
  <1>2. CASE RequestTotal(r)
    <2>1. Entry(r).line_count \in Nat
      BY <1>2, LinesReadType, EntryUpdate DEF RequestTotal
    <2>2. total' \in [Requests -> Nat] /\ k' \in [Requests -> Nat]
      BY <1>2, <2>1, BumpType DEF RequestTotal
    <2>. QED  BY <1>2, <2>2 DEF RequestTotal
  <1>3. CASE RequestNoLine(r)
    <2>1. pc' \in [Callers \cup Requests -> CallerPc \cup RequestPc]
      BY <1>3 DEF RequestNoLine, Goto, RequestPc
    <2>. QED  BY <1>3, <2>1, PushType DEF RequestNoLine
  <1>4. CASE RequestLock(r)
    <2>1. pc' \in [Callers \cup Requests -> CallerPc \cup RequestPc]
      BY <1>4 DEF RequestLock, Goto, RequestPc
    <2>. QED  BY <1>4, <2>1 DEF RequestLock
  <1>5. CASE RequestRead(r)
    <2>1. /\ Entry(r).line_count \in Nat
          /\ LinesRead(r) \in Seq(Nat) /\ Len(LinesRead(r)) \in Nat
      BY <1>5, LinesReadType, EntryUpdate DEF RequestRead
    <2>2. k' \in [Requests -> Nat]
      BY <1>5, BumpType DEF RequestRead
    <2>3. index' \in [Requests -> Nat]
      <3>1. \/ index' = [index EXCEPT ![r] = @ + Entry(r).line_count]
            \/ index' = [index EXCEPT ![r] = @ + Len(LinesRead(r))]
            \/ UNCHANGED index
        BY <1>5 DEF RequestRead
      <3>2. index \in [Requests -> Nat]
        OBVIOUS
      <3>3. [index EXCEPT ![r] = @ + Entry(r).line_count] \in [Requests -> Nat]
        BY <2>1, <3>2, BumpType
      <3>4. [index EXCEPT ![r] = @ + Len(LinesRead(r))] \in [Requests -> Nat]
        BY <2>1, <3>2, BumpType
      <3>. QED  BY <3>1, <3>2, <3>3, <3>4
    <2>4. stream' \in [Requests -> Seq(Nat)]
      <3>1. \/ stream' = [stream EXCEPT ![r] = @ \o LinesRead(r)]
            \/ UNCHANGED stream
        BY <1>5 DEF RequestRead
      <3>2. stream \in [Requests -> Seq(Nat)]
        OBVIOUS
      <3>3. [stream EXCEPT ![r] = @ \o LinesRead(r)] \in [Requests -> Seq(Nat)]
        BY <2>1, <3>2, ExtendType
      <3>. QED  BY <3>1, <3>2, <3>3
    <2>5. m_messages' \in Seq(Nat) /\ pushed' \in Nat
      BY <1>5, PushType DEF RequestRead
    <2>. QED  BY <1>5, <2>2, <2>3, <2>4, <2>5 DEF RequestRead
  <1>6. CASE RequestRegister(r)
    <2>1. pc' \in [Callers \cup Requests -> CallerPc \cup RequestPc]
      BY <1>6 DEF RequestRegister, Goto, RequestPc
    <2>2. subscribers' \in Seq(Requests)
      BY <1>6 DEF RequestRegister
    <2>. QED  BY <1>6, <2>1, <2>2 DEF RequestRegister
  <1>7. CASE RequestCancelled(r)
    <2>1. pc' \in [Callers \cup Requests -> CallerPc \cup RequestPc]
      BY <1>7 DEF RequestCancelled, Goto, RequestPc
    <2>. QED  BY <1>7, <2>1, PushType DEF RequestCancelled
  <1>8. CASE RequestCancel(r)
    <2>1. pc' \in [Callers \cup Requests -> CallerPc \cup RequestPc]
      BY <1>8 DEF RequestCancel, Goto, RequestPc
    <2>2. subscribers' \in Seq(Requests)
      <3>1. CASE UNCHANGED subscribers
        BY <3>1
      <3>2. ASSUME NEW i \in DOMAIN subscribers,
                   subscribers' = RemoveAt(subscribers, i)
            PROVE  subscribers' \in Seq(Requests)
        BY <3>2, RemoveAtType
      <3>. QED  BY <1>8, <3>1, <3>2 DEF RequestCancel
    <2>. QED  BY <1>8, <2>1, <2>2 DEF RequestCancel
  <1>9. CASE RequestFetch(r)
    <2>1. pc' \in [Callers \cup Requests -> CallerPc \cup RequestPc]
      BY <1>9 DEF RequestFetch, Goto, RequestPc
    <2>. QED  BY <1>9, <2>1 DEF RequestFetch
  <1>10. CASE RequestClear(r)
    <2>1. pc' \in [Callers \cup Requests -> CallerPc \cup RequestPc]
      BY <1>10 DEF RequestClear, Goto, RequestPc
    <2>2. inbox' \in [Requests -> Seq(Nat)] /\ taken' \in [Requests -> Seq(Nat)]
      <3>1. inbox \in [Requests -> Seq(Nat)] /\ taken \in [Requests -> Seq(Nat)]
        OBVIOUS
      <3>2. /\ inbox' = [inbox EXCEPT ![r] = <<>>]
            /\ taken' = [taken EXCEPT ![r] = <<>>]
        BY <1>10 DEF RequestClear
      <3> HIDE DEF TypeInv, HistoryOK, TypeOK
      <3>. QED  BY <3>1, <3>2, EmptiedType
    <2>3. stream' \in [Requests -> Seq(Nat)]
      <3>1. stream \in [Requests -> Seq(Nat)] /\ taken[r] \in Seq(Nat)
        OBVIOUS
      <3>2. stream' = [stream EXCEPT ![r] = @ \o taken[r]]
        BY <1>10 DEF RequestClear
      <3>. QED  BY <3>1, <3>2, ExtendType
    <2>. QED  BY <1>10, <2>1, <2>2, <2>3 DEF RequestClear
  <1>. QED  BY <1>1, <1>2, <1>3, <1>4, <1>5, <1>6, <1>7, <1>8, <1>9, <1>10
            DEF Request, Relay

\* Type correctness: the declarations of logger.h hold in every state, on
\* both platforms, for any number of threads and clients; in particular
\* execute's --end() always has a history entry to stand on and a handler
\* never reads past the lines of a file.
THEOREM TypeCorrect == Spec => [](TypeOK /\ HistoryOK)
  <1>1. Init => TypeInv
    <2> SUFFICES ASSUME Init PROVE TypeInv
      OBVIOUS
    <2>1. pc \in [Callers \cup Requests -> CallerPc \cup RequestPc]
      BY DEF Init, CallerPc, RequestPc
    <2>2. TypeOK
      <3>1. /\ <<>> \in Seq(Nat) /\ <<>> \in Seq(EntryType)
            /\ <<>> \in Seq(Requests)
        BY EmptySeq
      <3>2. [r \in Requests |-> <<>>] \in [Requests -> Seq(Nat)]
        BY <3>1
      <3>. QED  BY <2>1, <3>1, <3>2 DEF Init, TypeOK, WriterPc
    <2>3. HistoryOK
      BY DEF Init, HistoryOK
    <2>. QED  BY <2>2, <2>3 DEF TypeInv
  <1>2. TypeInv /\ [Next]_vars => TypeInv'
    <2> SUFFICES ASSUME TypeInv, [Next]_vars
                 PROVE  TypeInv'
      OBVIOUS
    <2>0. UNCHANGED count
      BY DEF Next, Run, vars
    <2>1. CASE Startup
      <3> USE DEF TypeInv, HistoryOK, TypeOK, requestVars
      <3>1. pc' \in [Callers \cup Requests -> CallerPc \cup RequestPc]
        BY <2>1 DEF Startup, Goto, CallerPc
      <3>2. m_messages' \in Seq(Nat) /\ pushed' \in Nat
        <4>1. CASE Push
          BY <4>1, PushType
        <4>2. CASE /\ m_messages' = m_messages \o <<pushed + 1, pushed + 2>>
                   /\ pushed' = pushed + 2
          <5>1. <<pushed + 1, pushed + 2>> \in Seq(Nat)
            OBVIOUS
          <5>. QED  BY <4>2, <5>1, ConcatProperties
        <4>. QED  BY <2>1, <4>1, <4>2 DEF Startup
      <3>3. \/ writer' \in WriterPc /\ writer' \notin {"write", "account"}
            \/ UNCHANGED writer
        BY <2>1 DEF Startup, WriterPc
      <3>. QED  BY <2>0, <2>1, <3>1, <3>2, <3>3 DEF Startup
    <2>2. CASE UNCHANGED vars
      BY <2>2 DEF vars, writerVars, requestVars, TypeInv, TypeOK, HistoryOK
    <2>. QED  BY <2>0, <2>1, <2>2, CallerType, WriterType, RequestType DEF Next, Run
  <1>. QED  BY <1>1, <1>2, PTL DEF Spec, TypeInv

-----------------------------------------------------------------------------
(* No message is lost where the mutex locks and the files can be opened.   *)

\* NothingLost is not inductive: between its copy and its clear the writer
\* must still hold exactly what it is about to clear.
Lossless ==
  /\ CountsFrom(disk, 0)
  /\ CountsFrom(Pending, Len(disk))
  /\ CountsFrom(m_messages, Len(disk) + Len(Pending))
  /\ pushed = Len(disk) + Len(Pending) + Len(m_messages)
  /\ writer = "clear" => m_messages = batch

\* The writer thread exists only once the main thread has started it.
StartOK == pc[Main] = "startup" => writer = "none"

LEMMA StartCorrect == Spec => []StartOK
  <1>1. Init => StartOK
    BY DEF Init, StartOK
  <1>2. TypeInv /\ StartOK /\ [Next]_vars => StartOK'
    <2> SUFFICES ASSUME TypeInv, StartOK, [Next]_vars
                 PROVE  StartOK'
      OBVIOUS
    <2> USE LoggerAssumption DEF LoggerAssumption, TypeInv, TypeOK, StartOK, Goto,
                                 writerVars, requestVars
    <2>1. CASE Startup
      BY <2>1 DEF Startup
    <2>2. CASE Writer
      BY <2>2 DEF Writer, WriterAssign, WriterClear, WriterName, WriterWrite,
                  WriterAccount, WriterUpdate, WriterDangling, WriterDone, WriterExit
    <2>3. ASSUME NEW c \in Callers, Log(c) \/ Fatal(c) \/ FatalStep(c)
          PROVE  StartOK'
      BY <2>3 DEF Log, Fatal, FatalStep, FatalSeesEmpty, Stop, Join, Joined, Exit
    <2>4. ASSUME NEW r \in Requests, Request(r) \/ Relay(r)
          PROVE  StartOK'
      BY <2>4 DEF Request, Relay, RequestBegin, RequestTotal, RequestNoLine,
                  RequestLock, RequestRead, RequestRegister, RequestCancelled,
                  RequestCancel, RequestFetch, RequestClear
    <2>5. CASE UNCHANGED vars
      BY <2>5 DEF vars
    <2>. QED  BY <2>1, <2>2, <2>3, <2>4, <2>5 DEF Next, Run
  <1>3. Spec => []TypeInv
    BY TypeCorrect, PTL DEF TypeInv
  <1>. QED  BY <1>1, <1>2, <1>3, PTL DEF Spec

\* Appending the next number to a sequence that counts.
LEMMA AppendCounts ==
  ASSUME NEW s \in Seq(Nat), NEW n \in Nat, CountsFrom(s, n)
  PROVE  /\ CountsFrom(Append(s, n + Len(s) + 1), n)
         /\ Len(Append(s, n + Len(s) + 1)) = Len(s) + 1
  <1> DEFINE t == Append(s, n + Len(s) + 1)
  <1>1. /\ DOMAIN s = 1..Len(s) /\ Len(s) \in Nat
        /\ n + Len(s) + 1 \in Nat
    BY LenProperties
  <1>2. /\ t \in Seq(Nat) /\ Len(t) = Len(s) + 1
        /\ \A i \in 1..Len(s) : t[i] = s[i]
        /\ t[Len(s) + 1] = n + Len(s) + 1
    BY <1>1, AppendProperties
  <1>3. DOMAIN t = 1..(Len(s) + 1)
    BY <1>2, LenProperties
  <1>4. ASSUME NEW i \in 1..(Len(s) + 1)
        PROVE  t[i] = n + i
    BY <1>1, <1>2 DEF CountsFrom
  <1>. QED  BY <1>2, <1>3, <1>4 DEF CountsFrom

\* Two sequences that count, one after the other.
LEMMA ConcatCounts ==
  ASSUME NEW s \in Seq(Nat), NEW t \in Seq(Nat), NEW n \in Nat,
         CountsFrom(s, n), CountsFrom(t, n + Len(s))
  PROVE  CountsFrom(s \o t, n) /\ Len(s \o t) = Len(s) + Len(t)
  <1>1. /\ DOMAIN s = 1..Len(s) /\ Len(s) \in Nat
        /\ DOMAIN t = 1..Len(t) /\ Len(t) \in Nat
    BY LenProperties
  <1>2. /\ s \o t \in Seq(Nat) /\ Len(s \o t) = Len(s) + Len(t)
        /\ \A i \in 1..(Len(s) + Len(t)) :
             (s \o t)[i] = IF i <= Len(s) THEN s[i] ELSE t[i - Len(s)]
    BY ConcatProperties
  <1>3. DOMAIN (s \o t) = 1..(Len(s) + Len(t))
    BY <1>2, LenProperties
  <1>4. ASSUME NEW i \in 1..(Len(s) + Len(t))
        PROVE  (s \o t)[i] = n + i
    <2>1. CASE i <= Len(s)
      <3>1. i \in 1..Len(s)
        BY <1>1, <2>1
      <3>2. s[i] = n + i
        BY <1>1, <3>1 DEF CountsFrom
      <3>. QED  BY <1>2, <2>1, <3>2
    <2>2. CASE i > Len(s)
      <3>1. i - Len(s) \in 1..Len(t)
        BY <1>1, <2>2
      <3>2. t[i - Len(s)] = (n + Len(s)) + (i - Len(s))
        BY <1>1, <3>1 DEF CountsFrom
      <3>. QED  BY <1>1, <1>2, <2>2, <3>2
    <2>. QED  BY <1>1, <2>1, <2>2
  <1>. QED  BY <1>2, <1>3, <1>4 DEF CountsFrom

\* The types of the sequences Lossless is about.
LEMMA QueueTypes ==
  ASSUME TypeOK
  PROVE  /\ disk \in Seq(Nat) /\ Pending \in Seq(Nat) /\ m_messages \in Seq(Nat)
         /\ batch \in Seq(Nat) /\ Len(batch) \in Nat
         /\ Len(disk) \in Nat /\ Len(Pending) \in Nat /\ Len(m_messages) \in Nat
  <1>1. /\ disk \in Seq(Nat) /\ Pending \in Seq(Nat) /\ m_messages \in Seq(Nat)
        /\ batch \in Seq(Nat)
    BY EmptySeq DEF TypeOK, Pending
  <1>. QED  BY <1>1, LenProperties

\* A step that records one message.
LEMMA PushLossless ==
  ASSUME TypeOK, Lossless, MutexWorks, Push,
         UNCHANGED <<disk, batch>>, Pending' = Pending, writer' # "clear"
  PROVE  Lossless'
  <1>1. pushed + 1 = (Len(disk) + Len(Pending)) + Len(m_messages) + 1
    BY QueueTypes DEF Lossless
  <1>2. m_messages' = Append(m_messages, pushed + 1) /\ pushed' = pushed + 1
    BY DEF Push
  <1>3. Len(disk) + Len(Pending) \in Nat
    BY QueueTypes
  <1>4. /\ CountsFrom(m_messages', Len(disk) + Len(Pending))
        /\ Len(m_messages') = Len(m_messages) + 1
    BY <1>1, <1>2, <1>3, QueueTypes, AppendCounts DEF Lossless
  <1>5. pushed' = Len(disk) + Len(Pending) + Len(m_messages')
    BY <1>1, <1>2, <1>4, QueueTypes
  <1>. QED  BY <1>4, <1>5 DEF Lossless, CountsFrom

\* A step that leaves the queue, the batch and the files alone.
LEMMA StutterLossless ==
  ASSUME Lossless, UNCHANGED <<m_messages, pushed, writer, batch, disk>>
  PROVE  Lossless'
  BY DEF Lossless, Pending, CountsFrom

\* Every step of the writer moves messages on without losing one.
LEMMA WriterLossless ==
  ASSUME TypeInv, Lossless, MutexWorks, ~OpenMayFail, Writer
  PROVE  Lossless'
  <1> USE DEF TypeInv
  <1>1. CASE WriterAssign
    <2>1. Pending = <<>> /\ Pending' = <<>>
      BY <1>1 DEF WriterAssign, Pending
    <2>. QED  BY <1>1, <2>1 DEF WriterAssign, Lossless, CountsFrom
  <1>2. CASE WriterClear
    <2>1. Pending = <<>> /\ m_messages = batch /\ m_messages' = <<>>
      BY <1>2 DEF WriterClear, Pending, Lossless
    <2>2. Pending' = batch
      BY <1>2 DEF WriterClear, Pending
    <2>3. Len(Pending) = 0 /\ Len(m_messages') = 0 /\ DOMAIN (m_messages') = {}
      BY <2>1, EmptySeq
    <2>4. UNCHANGED <<disk, pushed>> /\ writer' # "clear"
      BY <1>2 DEF WriterClear
    <2>5. CountsFrom(batch, Len(disk))
      BY <2>1, <2>3, QueueTypes DEF Lossless
    <2>6. pushed = Len(disk) + Len(batch)
      BY <2>1, <2>3, QueueTypes DEF Lossless
    <2>7. pushed' = Len(disk') + Len(Pending') + Len(m_messages')
      BY <2>2, <2>3, <2>4, <2>6, QueueTypes
    <2>8. CountsFrom(m_messages', Len(disk') + Len(Pending'))
      BY <2>3 DEF CountsFrom
    <2>9. CountsFrom(disk', 0) /\ CountsFrom(Pending', Len(disk'))
      BY <2>2, <2>4, <2>5 DEF Lossless
    <2>. QED  BY <2>4, <2>7, <2>8, <2>9 DEF Lossless, CountsFrom
  <1>3. CASE WriterName
    <2>1. Pending' = Pending
      BY <1>3 DEF WriterName, Pending
    <2>. QED  BY <1>3, <2>1 DEF WriterName, Lossless, CountsFrom
  <1>4. CASE WriterWrite
    <2>1. Pending = batch /\ Pending' = <<>>
      BY <1>4 DEF WriterWrite, Pending
    <2>2. /\ disk' = disk \o batch /\ writer' # "clear"
          /\ UNCHANGED <<m_messages, pushed>>
      BY <1>4 DEF WriterWrite
    <2>3. Len(Pending') = 0 /\ DOMAIN (Pending') = {}
      BY <2>1, EmptySeq
    <2>4. CountsFrom(disk', 0) /\ Len(disk') = Len(disk) + Len(batch)
      BY <2>1, <2>2, QueueTypes, ConcatCounts DEF Lossless
    <2>5. Len(disk') + Len(Pending') = Len(disk) + Len(Pending)
      BY <2>1, <2>3, <2>4, QueueTypes
    <2>6. CountsFrom(Pending', Len(disk'))
      BY <2>3 DEF CountsFrom
    <2>7. /\ CountsFrom(m_messages', Len(disk') + Len(Pending'))
          /\ pushed' = Len(disk') + Len(Pending') + Len(m_messages')
      BY <2>2, <2>5 DEF Lossless
    <2>. QED  BY <2>2, <2>4, <2>6, <2>7 DEF Lossless, CountsFrom
  <1>5. CASE WriterAccount \/ WriterUpdate \/ WriterDangling \/ WriterDone \/ WriterExit
    <2>1. /\ Pending' = Pending /\ writer' # "clear"
          /\ UNCHANGED <<m_messages, pushed, disk>>
      BY <1>5 DEF WriterAccount, WriterUpdate, WriterDangling, WriterDone,
                  WriterExit, Pending
    <2>. QED  BY <2>1 DEF Lossless, CountsFrom
  <1>. QED  BY <1>1, <1>2, <1>3, <1>4, <1>5 DEF Writer

\* Every step of the program: a step of the writer, one that records a
\* message, or one that leaves the queue, the batch and the files alone.
LEMMA StepLossless ==
  ASSUME TypeInv, StartOK, Lossless, MutexWorks, ~OpenMayFail, [Next]_vars
  PROVE  Lossless'
  <1> USE DEF TypeInv, writerVars, requestVars
  <1> DEFINE Recorded == /\ Push /\ UNCHANGED <<disk, batch>>
                         /\ Pending' = Pending /\ writer' # "clear"
             Alone == UNCHANGED <<m_messages, pushed, writer, batch, disk>>
  <1>1. CASE Startup
    <2>1. Recorded
      BY <1>1 DEF Startup, StartOK, Pending, Push, MutexWorks, JoinWorks
    <2>. QED  BY <2>1, PushLossless
  <1>2. ASSUME NEW c \in Callers, Log(c) \/ Fatal(c) \/ FatalStep(c)
        PROVE  Lossless'
    <2>1. Recorded \/ Alone
      BY <1>2 DEF Log, Fatal, FatalStep, FatalSeesEmpty, Stop, Join, Joined, Exit,
                  Push, MessagesUnlocked, Pending
    <2>. QED  BY <2>1, PushLossless, StutterLossless
  <1>3. ASSUME NEW r \in Requests, Request(r) \/ Relay(r)
        PROVE  Lossless'
    <2>1. Recorded \/ Alone
      BY <1>3 DEF Request, Relay, RequestBegin, RequestTotal, RequestNoLine,
                  RequestLock, RequestRead, RequestRegister, RequestCancelled,
                  RequestCancel, RequestFetch, RequestClear,
                  Push, MessagesUnlocked, Pending
    <2>. QED  BY <2>1, PushLossless, StutterLossless
  <1>4. CASE UNCHANGED vars
    BY <1>4, StutterLossless DEF vars
  <1>. QED  BY <1>1, <1>2, <1>3, <1>4, WriterLossless DEF Next, Run

\* On a build whose mutex locks, and while the log files can be opened, every
\* message recorded by Debug ... Fatal is, at every moment, in the files, in
\* the batch the writer holds, or in m_messages, exactly once and in order.
THEOREM NoMessageLost == Spec => []NothingLost
  <1>1. ASSUME MutexWorks, ~OpenMayFail
        PROVE  Init => Lossless
    BY EmptySeq DEF Init, Lossless, Pending, CountsFrom
  <1>2. ASSUME MutexWorks, ~OpenMayFail
        PROVE  TypeInv /\ StartOK /\ Lossless /\ [Next]_vars => Lossless'
    BY <1>2, StepLossless
  <1> DEFINE Inv == (MutexWorks /\ ~OpenMayFail) => Lossless
  <1>3. Init => Inv
    BY <1>1
  <1>4. TypeInv /\ StartOK /\ Inv /\ [Next]_vars => Inv'
    BY <1>2
  <1>5. Inv => NothingLost
    BY DEF Lossless, NothingLost
  <1>6. Spec => []TypeInv
    BY TypeCorrect, PTL DEF TypeInv
  <1> HIDE DEF Inv
  <1>. QED  BY <1>3, <1>4, <1>5, <1>6, StartCorrect, PTL DEF Spec

-----------------------------------------------------------------------------
(* The logger implements LogService.                                       *)

\* A step that writes a batch is a Write of the service, or writes nothing.
LEMMA WriteRefines ==
  ASSUME TypeInv, TypeInv', Lossless, Lossless', WriterWrite, ~OpenMayFail
  PROVE  [Service!Next]_<<pushed, disk>>
  <1> USE DEF TypeInv
  <1> DEFINE n == Len(disk) + Len(batch)
  <1>1. disk' = disk \o batch /\ pushed' = pushed /\ Pending = batch
    BY DEF WriterWrite, Pending
  <1>2. /\ disk \in Seq(Nat) /\ batch \in Seq(Nat) /\ disk' \in Seq(Nat)
        /\ Len(disk) \in Nat /\ Len(batch) \in Nat /\ Len(m_messages) \in Nat
    BY QueueTypes DEF TypeOK
  <1>3. Len(disk') = n
    BY <1>1, <1>2, ConcatProperties
  <1>4. CASE batch = <<>>
    BY <1>1, <1>2, <1>4, ConcatEmptySeq
  <1>5. CASE batch # <<>>
    <2>1. Len(batch) >= 1
      BY <1>2, <1>5, EmptySeq
    <2>2. n \in (Len(disk) + 1)..pushed
      BY <1>1, <1>2, <2>1 DEF Lossless
    <2>3. disk' = [i \in 1..n |-> i]
      <3>1. DOMAIN (disk') = 1..n /\ disk' \in [1..n -> Nat]
        BY <1>2, <1>3, LenProperties
      <3>2. \A i \in 1..n : disk'[i] = i
        BY <1>2, <3>1 DEF Lossless, CountsFrom
      <3>. QED  BY <3>1, <3>2
    <2>. QED  BY <1>1, <2>2, <2>3 DEF Service!Next, Service!Write
  <1>. QED  BY <1>4, <1>5

\* On a build whose mutex locks, and while the log files can be opened, the
\* logger implements LogService: whatever its threads and clients do, the
\* files hold a growing prefix of the messages accepted.
THEOREM LoggerImplementsService ==
  ASSUME MutexWorks, ~OpenMayFail
  PROVE  Spec => ImplementsService
  <1>1. Init => Service!Init /\ Lossless
    BY EmptySeq DEF Init, Service!Init, Lossless, Pending, CountsFrom
  <1>2. TypeInv /\ TypeInv' /\ StartOK /\ Lossless /\ [Next]_vars
          => Lossless' /\ [Service!Next]_<<pushed, disk>>
    <2> SUFFICES ASSUME TypeInv, TypeInv', StartOK, Lossless, [Next]_vars
                 PROVE  Lossless' /\ [Service!Next]_<<pushed, disk>>
      OBVIOUS
    <2>1. Lossless'
      BY StepLossless
    <2>2. pushed \in Nat /\ pushed' \in Nat
      BY DEF TypeInv, TypeOK
    <2>3. CASE WriterWrite
      BY <2>1, <2>3, WriteRefines
    <2>4. CASE ~WriterWrite
      <3>1. UNCHANGED disk /\ (pushed' = pushed \/ pushed' = pushed + 1
                                                \/ pushed' = pushed + 2)
        <4> USE DEF writerVars, requestVars, Push
        <4>1. CASE Startup
          BY <4>1 DEF Startup
        <4>2. CASE Writer
          BY <2>4, <4>2 DEF Writer, WriterAssign, WriterClear, WriterName,
             WriterAccount, WriterUpdate, WriterDangling, WriterDone, WriterExit
        <4>3. ASSUME NEW c \in Callers, Log(c) \/ Fatal(c) \/ FatalStep(c)
              PROVE  UNCHANGED disk /\ (pushed' = pushed \/ pushed' = pushed + 1)
          BY <4>3 DEF Log, Fatal, FatalStep, FatalSeesEmpty, Stop, Join, Joined,
                      Exit
        <4>4. ASSUME NEW r \in Requests, Request(r) \/ Relay(r)
              PROVE  UNCHANGED disk /\ (pushed' = pushed \/ pushed' = pushed + 1)
          BY <4>4 DEF Request, Relay, RequestBegin, RequestTotal, RequestNoLine,
                      RequestLock, RequestRead, RequestRegister, RequestCancelled,
                      RequestCancel, RequestFetch, RequestClear
        <4>5. CASE UNCHANGED vars
          BY <4>5 DEF vars
        <4>. QED  BY <4>1, <4>2, <4>3, <4>4, <4>5 DEF Next, Run
      <3>. QED  BY <2>1, <2>2, <3>1 DEF Service!Next, Service!Accept
    <2>. QED  BY <2>1, <2>3, <2>4
  <1>3. Spec => []TypeInv
    BY TypeCorrect, PTL DEF TypeInv
  <1>. QED  BY <1>1, <1>2, <1>3, StartCorrect, PTL
            DEF Spec, ImplementsService, Service!Spec

-----------------------------------------------------------------------------
(* The publish loop and the subscribers.                                   *)

Listening == {"stream", "clear", "cancel"}

\* NoDanglingSubscriber is not inductive: the loop goes on to subscribers that
\* are listed, so it needs that a listed handler is still polling, and that it
\* is listed once, because cancelLoggerSubscriber erases one entry.
ListedInv ==
  /\ \A i \in 1..Len(subscribers) : pc[subscribers[i]] \in Listening
  /\ \A i, j \in 1..Len(subscribers) : subscribers[i] = subscribers[j] => i = j
SubscriberInv == ListedInv /\ NoDanglingSubscriber

\* RemoveAt closes the gap.
LEMMA RemovedElements ==
  ASSUME NEW s \in Seq(Requests), NEW i \in 1..Len(s)
  PROVE  /\ Len(s) \in Nat /\ Len(RemoveAt(s, i)) = Len(s) - 1
         /\ \A j \in 1..(Len(s) - 1) :
              RemoveAt(s, i)[j] = IF j < i THEN s[j] ELSE s[j + 1]
  <1> DEFINE a == SubSeq(s, 1, i - 1)
             b == SubSeq(s, i + 1, Len(s))
  <1>1. Len(s) \in Nat /\ \A j \in 1..Len(s) : s[j] \in Requests
    BY LenProperties, ElementOfSeq
  <1>2. /\ \A j \in 1..(i - 1) : s[j] \in Requests
        /\ \A j \in (i + 1)..Len(s) : s[j] \in Requests
        /\ i \in Int /\ i - 1 \in Int /\ i + 1 \in Int /\ 1 \in Int
    BY <1>1
  <1>3. /\ a \in Seq(Requests) /\ Len(a) = IF 1 <= i - 1 THEN i - 1 - 1 + 1 ELSE 0
        /\ \A j \in 1..(i - 1 - 1 + 1) : a[j] = s[1 + j - 1]
    BY <1>2, SubSeqProperties
  <1>4. /\ b \in Seq(Requests)
        /\ Len(b) = IF i + 1 <= Len(s) THEN Len(s) - (i + 1) + 1 ELSE 0
        /\ \A j \in 1..(Len(s) - (i + 1) + 1) : b[j] = s[i + 1 + j - 1]
    BY <1>1, <1>2, SubSeqProperties
  <1> HIDE DEF a, b
  <1>5. Len(a) = i - 1 /\ Len(b) = Len(s) - i
    BY <1>1, <1>3, <1>4
  <1>6. /\ Len(a \o b) = Len(a) + Len(b)
        /\ \A j \in 1..(Len(a) + Len(b)) :
             (a \o b)[j] = IF j <= Len(a) THEN a[j] ELSE b[j - Len(a)]
    BY <1>3, <1>4, ConcatProperties
  <1>7. ASSUME NEW j \in 1..(Len(s) - 1)
        PROVE  (a \o b)[j] = IF j < i THEN s[j] ELSE s[j + 1]
    <2>1. (a \o b)[j] = IF j <= i - 1 THEN a[j] ELSE b[j - (i - 1)]
      BY <1>1, <1>5, <1>6
    <2>2. CASE j < i
      <3>1. j \in 1..(i - 1 - 1 + 1) /\ 1 + j - 1 = j /\ j <= i - 1
        BY <2>2
      <3>. QED  BY <1>3, <2>1, <2>2, <3>1
    <2>3. CASE ~(j < i)
      <3>1. /\ j - (i - 1) \in 1..(Len(s) - (i + 1) + 1)
            /\ i + 1 + (j - (i - 1)) - 1 = j + 1 /\ ~(j <= i - 1)
        BY <1>1, <2>3
      <3>. QED  BY <1>4, <2>1, <2>3, <3>1
    <2>. QED  BY <2>2, <2>3
  <1>8. RemoveAt(s, i) = a \o b
    BY DEF RemoveAt, a, b
  <1>. QED  BY <1>1, <1>5, <1>6, <1>7, <1>8

\* A step that leaves the list alone and lets no handler return.
LEMMA ListStays ==
  ASSUME TypeInv, SubscriberInv, UNCHANGED subscribers,
         \A r \in Requests : /\ pc[r] \in Listening => pc'[r] \in Listening
                             /\ pc[r] # "done" => pc'[r] # "done",
         UNCHANGED <<writer, cur>> \/ writer' # "publish" \/ cur' = None
  PROVE  SubscriberInv'
  <1>1. \A i \in 1..Len(subscribers) : subscribers[i] \in Requests
    BY ElementOfSeq DEF TypeInv, TypeOK
  <1>2. cur \in Requests \cup {None}
    BY DEF TypeInv, TypeOK
  <1>3. ListedInv'
    BY <1>1 DEF SubscriberInv, ListedInv
  <1>4. NoDanglingSubscriber'
    BY <1>2 DEF SubscriberInv, NoDanglingSubscriber
  <1>. QED  BY <1>3, <1>4 DEF SubscriberInv

\* The loop goes to a listed subscriber or ends.
LEMMA WriterSubscribers ==
  ASSUME TypeInv, SubscriberInv, Writer
  PROVE  SubscriberInv'
  <1> USE DEF requestVars
  <1>0. /\ subscribers \in Seq(Requests) /\ Len(subscribers) \in Nat
        /\ \A i \in 1..Len(subscribers) : pc[subscribers[i]] # "done"
    BY LenProperties DEF TypeInv, TypeOK, SubscriberInv, ListedInv, Listening
  <1>1. ASSUME UNCHANGED <<subscribers, pc>>,
               cur' = None \/ \E i \in 1..Len(subscribers) : cur' = subscribers[i]
        PROVE  SubscriberInv'
    <2>1. ListedInv'
      BY <1>1 DEF SubscriberInv, ListedInv
    <2>2. NoDanglingSubscriber'
      BY <1>0, <1>1 DEF NoDanglingSubscriber
    <2>. QED  BY <2>1, <2>2 DEF SubscriberInv
  <1>2. CASE WriterAssign \/ WriterClear \/ WriterName \/ WriterWrite
               \/ WriterDangling \/ WriterDone \/ WriterExit
    <2>1. /\ UNCHANGED <<subscribers, pc>>
          /\ UNCHANGED <<writer, cur>> \/ writer' # "publish" \/ cur' = None
      BY <1>2 DEF WriterAssign, WriterClear, WriterName, WriterWrite,
                  WriterDangling, WriterDone, WriterExit
    <2>. QED  BY <2>1, ListStays
  <1>3. CASE WriterAccount
    <2>1. UNCHANGED <<subscribers, pc>>
      BY <1>3 DEF WriterAccount
    <2>2. CASE subscribers = <<>>
      BY <1>1, <1>3, <2>1, <2>2 DEF WriterAccount
    <2>3. CASE subscribers # <<>>
      <3>1. cur' = subscribers[1] /\ 1 \in 1..Len(subscribers)
        BY <1>0, <1>3, <2>3, EmptySeq DEF WriterAccount
      <3>. QED  BY <1>1, <2>1, <3>1
    <2>. QED  BY <2>2, <2>3
  <1>4. CASE WriterUpdate
    <2> DEFINE i == CHOOSE j \in DOMAIN subscribers : subscribers[j] = cur
    <2>1. \E j \in DOMAIN subscribers : subscribers[j] = cur
      BY <1>4 DEF WriterUpdate
    <2>2. i \in DOMAIN subscribers
      BY <2>1, Zenon
    <2>3. cur' = IF i = Len(subscribers) THEN None ELSE subscribers[i + 1]
      BY <1>4 DEF WriterUpdate, NextSubscriber
    <2> HIDE DEF i
    <2>4. i = Len(subscribers) \/ i + 1 \in 1..Len(subscribers)
      BY <1>0, <2>2
    <2>5. UNCHANGED <<subscribers, pc>>
      BY <1>4 DEF WriterUpdate
    <2>. QED  BY <1>1, <2>3, <2>4, <2>5
  <1>. QED  BY <1>2, <1>3, <1>4 DEF Writer

\* A handler is listed while it polls, and is off the list when it returns.
LEMMA RequestSubscribers ==
  ASSUME TypeInv, SubscriberInv, MutexWorks, NEW r \in Requests,
         Request(r) \/ Relay(r)
  PROVE  SubscriberInv'
  <1> USE DEF writerVars, requestVars
  <1>0. /\ subscribers \in Seq(Requests) /\ Len(subscribers) \in Nat
        /\ \A i \in 1..Len(subscribers) : subscribers[i] \in Requests
        /\ pc \in [Callers \cup Requests -> CallerPc \cup RequestPc]
        /\ cur \in Requests \cup {None}
    BY LenProperties, ElementOfSeq DEF TypeInv, TypeOK
  <1>1. CASE RequestRegister(r)
    <2>1. /\ pc[r] = "read" /\ pc' = [pc EXCEPT ![r] = "stream"]
          /\ subscribers' = Append(subscribers, r) /\ UNCHANGED <<writer, cur>>
      BY <1>1 DEF RequestRegister, Goto
    <2>2. /\ Len(subscribers') = Len(subscribers) + 1
          /\ \A i \in 1..Len(subscribers) : subscribers'[i] = subscribers[i]
          /\ subscribers'[Len(subscribers) + 1] = r
      BY <1>0, <2>1, AppendProperties
    <2>3. \A i \in 1..Len(subscribers) : subscribers[i] # r
      BY <2>1 DEF SubscriberInv, ListedInv, Listening
    <2>4. \A i \in 1..Len(subscribers') :
            i \in 1..Len(subscribers) \/ i = Len(subscribers) + 1
      BY <1>0, <2>2
    <2>5. \A s \in Requests : pc'[s] = IF s = r THEN "stream" ELSE pc[s]
      BY <1>0, <2>1
    <2>6. ListedInv'
      <3>1. \A i \in 1..Len(subscribers') : pc'[subscribers'[i]] \in Listening
        BY <1>0, <2>2, <2>3, <2>4, <2>5 DEF SubscriberInv, ListedInv, Listening
      <3>2. \A i, j \in 1..Len(subscribers') :
              subscribers'[i] = subscribers'[j] => i = j
        BY <2>2, <2>3, <2>4 DEF SubscriberInv, ListedInv
      <3>. QED  BY <3>1, <3>2 DEF ListedInv
    <2>7. NoDanglingSubscriber'
      BY <1>0, <2>1, <2>5 DEF SubscriberInv, NoDanglingSubscriber
    <2>. QED  BY <2>6, <2>7 DEF SubscriberInv
  <1>2. CASE RequestCancel(r)
    <2>1. /\ pc' = [pc EXCEPT ![r] = "done"] /\ UNCHANGED <<writer, cur>>
          /\ writer # "publish"
      BY <1>2 DEF RequestCancel, RequestUnlocked, Goto
    <2>2. \A s \in Requests : s # r => pc'[s] = pc[s]
      BY <1>0, <2>1
    <2>3. NoDanglingSubscriber'
      BY <2>1 DEF NoDanglingSubscriber
    <2>4. CASE (\A i \in DOMAIN subscribers : subscribers[i] # r)
                 /\ UNCHANGED subscribers
      <3>1. \A i \in 1..Len(subscribers) : subscribers[i] # r
        BY <1>0, <2>4
      <3>2. ListedInv'
        BY <1>0, <2>2, <2>4, <3>1 DEF SubscriberInv, ListedInv
      <3>. QED  BY <2>3, <3>2 DEF SubscriberInv
    <2>5. ASSUME NEW i \in DOMAIN subscribers, subscribers[i] = r,
                 subscribers' = RemoveAt(subscribers, i)
          PROVE  SubscriberInv'
      <3>1. i \in 1..Len(subscribers)
        BY <1>0
      <3>2. /\ Len(subscribers') = Len(subscribers) - 1
            /\ \A j \in 1..(Len(subscribers) - 1) :
                 subscribers'[j] = IF j < i THEN subscribers[j] ELSE subscribers[j + 1]
        BY <1>0, <2>5, <3>1, RemovedElements
      <3> DEFINE from(j) == IF j < i THEN j ELSE j + 1
      <3>3. ASSUME NEW j \in 1..Len(subscribers')
            PROVE  /\ from(j) \in 1..Len(subscribers) /\ from(j) # i
                   /\ subscribers'[j] = subscribers[from(j)]
        BY <1>0, <3>1, <3>2
      <3>4. ASSUME NEW j \in 1..Len(subscribers'), NEW m \in 1..Len(subscribers'),
                   from(j) = from(m)
            PROVE  j = m
        BY <1>0, <3>1, <3>2, <3>4
      <3> HIDE DEF from
      <3>5. \A j \in 1..Len(subscribers') : subscribers'[j] # r
        BY <2>5, <3>1, <3>3 DEF SubscriberInv, ListedInv
      <3>6. \A j \in 1..Len(subscribers') : pc'[subscribers'[j]] \in Listening
        BY <1>0, <2>2, <3>3, <3>5 DEF SubscriberInv, ListedInv
      <3>7. \A j, m \in 1..Len(subscribers') :
              subscribers'[j] = subscribers'[m] => j = m
        BY <3>3, <3>4 DEF SubscriberInv, ListedInv
      <3>. QED  BY <2>3, <3>6, <3>7 DEF SubscriberInv, ListedInv
    <2>. QED  BY <1>2, <2>4, <2>5 DEF RequestCancel
  <1>3. CASE ~RequestRegister(r) /\ ~RequestCancel(r)
    <2>1. UNCHANGED <<subscribers, writer, cur>>
      BY <1>3 DEF Request, Relay, RequestBegin, RequestTotal, RequestNoLine,
                  RequestLock, RequestRead, RequestCancelled, RequestFetch,
                  RequestClear
    <2>2. \/ UNCHANGED pc
          \/ /\ pc[r] \notin Listening /\ pc' = [pc EXCEPT ![r] = "total"]
          \/ /\ pc[r] \notin Listening /\ pc' = [pc EXCEPT ![r] = "read"]
          \/ \E to \in Listening : pc' = [pc EXCEPT ![r] = to]
      BY <1>3 DEF Request, Relay, RequestBegin, RequestTotal, RequestNoLine,
                  RequestLock, RequestRead, RequestCancelled, RequestFetch,
                  RequestClear, Goto, Listening
    <2>3. \A s \in Requests : /\ pc[s] \in Listening => pc'[s] \in Listening
                              /\ pc[s] # "done" => pc'[s] # "done"
      BY <1>0, <2>2 DEF Listening
    <2>. QED  BY <2>1, <2>3, ListStays
  <1>. QED  BY <1>1, <1>2, <1>3

\* The list of subscribers through every step of the program.
LEMMA SubscribersStay ==
  ASSUME MutexWorks
  PROVE  Spec => []SubscriberInv
  <1>1. Init => SubscriberInv
    BY EmptySeq DEF Init, SubscriberInv, ListedInv, NoDanglingSubscriber
  <1>2. TypeInv /\ SubscriberInv /\ [Next]_vars => SubscriberInv'
    <2> SUFFICES ASSUME TypeInv, SubscriberInv, [Next]_vars
                 PROVE  SubscriberInv'
      OBVIOUS
    <2> USE DEF writerVars, requestVars
    <2>1. ASSUME NEW c \in Callers, UNCHANGED subscribers,
                 UNCHANGED pc \/ \E to : pc' = [pc EXCEPT ![c] = to],
                 UNCHANGED <<writer, cur>> \/ writer' # "publish"
          PROVE  SubscriberInv'
      <3>1. pc \in [Callers \cup Requests -> CallerPc \cup RequestPc]
        BY DEF TypeInv, TypeOK
      <3>2. \A r \in Requests : pc'[r] = pc[r]
        BY <2>1, <3>1, LoggerAssumption DEF LoggerAssumption
      <3>. QED  BY <2>1, <3>2, ListStays
    <2>2. CASE Startup
      <3>1. /\ UNCHANGED subscribers /\ (\E to : pc' = [pc EXCEPT ![Main] = to])
            /\ UNCHANGED <<writer, cur>> \/ writer' # "publish"
        BY <2>2 DEF Startup, Goto
      <3>. QED  BY <2>1, <3>1, LoggerAssumption DEF LoggerAssumption
    <2>3. ASSUME NEW c \in Callers, Log(c) \/ Fatal(c) \/ FatalStep(c)
          PROVE  SubscriberInv'
      <3>1. /\ UNCHANGED <<subscribers, writer, cur>>
            /\ UNCHANGED pc \/ \E to : pc' = [pc EXCEPT ![c] = to]
        BY <2>3 DEF Log, Fatal, FatalStep, FatalSeesEmpty, Stop, Join, Joined,
                    Exit, Goto
      <3>. QED  BY <2>1, <3>1
    <2>4. CASE UNCHANGED vars
      BY <2>4, ListStays DEF vars
    <2>. QED  BY <2>2, <2>3, <2>4, WriterSubscribers, RequestSubscribers DEF Next, Run
  <1>3. Spec => []TypeInv
    BY TypeCorrect, PTL DEF TypeInv
  <1>. QED  BY <1>1, <1>2, <1>3, PTL DEF Spec

\* On a build whose mutex locks, the publish loop of execute never stands on a
\* subscriber whose handler has returned, for any number of clients that come
\* and go while batches are published.
THEOREM LoopStaysValid ==
  ASSUME MutexWorks
  PROVE  Spec => []NoDanglingSubscriber
  <1>1. SubscriberInv => NoDanglingSubscriber
    BY DEF SubscriberInv
  <1>. QED  BY <1>1, SubscribersStay, PTL

-----------------------------------------------------------------------------
(* The order of the lines, on every build.                                 *)

Increasing(q) == \A i, j \in 1..Len(q) : i < j => q[i] < q[j]
Below(p, q) == \A i \in 1..Len(p), j \in 1..Len(q) : p[i] < q[j]
UpTo(q, n) == \A i \in 1..Len(q) : q[i] <= n

\* The batch from the moment it is copied.
Taken == IF writer \in {"clear", "name", "write"} THEN batch ELSE <<>>

\* WrittenInOrder needs that what is to be written comes after what is; while
\* the batch is still in m_messages as well, nothing relates the two.
OrderInv ==
  /\ Increasing(disk) /\ Increasing(Taken) /\ Increasing(m_messages)
  /\ UpTo(disk, pushed) /\ UpTo(Taken, pushed) /\ UpTo(m_messages, pushed)
  /\ Below(disk, Taken) /\ Below(disk, m_messages)
  /\ writer # "clear" => Below(Taken, m_messages)

LEMMA TakenTypes ==
  ASSUME TypeInv
  PROVE  /\ disk \in Seq(Nat) /\ Taken \in Seq(Nat) /\ m_messages \in Seq(Nat)
         /\ pushed \in Nat
  BY EmptySeq DEF TypeInv, TypeOK, Taken

LEMMA EmptyOrder ==
  ASSUME NEW q, NEW n
  PROVE  Increasing(<<>>) /\ UpTo(<<>>, n) /\ Below(<<>>, q) /\ Below(q, <<>>)
  <1>1. \A i \in 1..Len(<<>>) : FALSE
    BY EmptySeq
  <1>. QED  BY <1>1 DEF Increasing, UpTo, Below

\* A message with the next number.
LEMMA NextOrder ==
  ASSUME NEW q \in Seq(Nat), NEW n \in Nat, UpTo(q, n), Increasing(q)
  PROVE  /\ Append(q, n + 1) \in Seq(Nat) /\ n + 1 \in Nat
         /\ Increasing(Append(q, n + 1)) /\ UpTo(Append(q, n + 1), n + 1)
         /\ UpTo(q, n + 1)
         /\ \A p \in Seq(Nat) : UpTo(p, n) => UpTo(p, n + 1)
         /\ \A p \in Seq(Nat) : UpTo(p, n) /\ Below(p, q) => Below(p, Append(q, n + 1))
  <1> DEFINE a == Append(q, n + 1)
  <1>1. /\ a \in Seq(Nat) /\ Len(a) = Len(q) + 1 /\ Len(q) \in Nat
        /\ \A i \in 1..Len(q) : a[i] = q[i]
        /\ a[Len(q) + 1] = n + 1
    BY AppendProperties, LenProperties
  <1> HIDE DEF a
  <1>2. \A i \in 1..Len(a) : i \in 1..Len(q) \/ i = Len(q) + 1
    BY <1>1
  <1>3. \A p \in Seq(Nat) : \A i \in 1..Len(p) : p[i] \in Nat
    BY ElementOfSeq
  <1>4. \A p \in Seq(Nat) : UpTo(p, n) => \A i \in 1..Len(p) : p[i] < n + 1 /\ p[i] <= n + 1
    BY <1>3 DEF UpTo
  <1>5. \A p \in Seq(Nat) : UpTo(p, n) => UpTo(p, n + 1)
    BY <1>4 DEF UpTo
  <1>6. \A i \in 1..Len(q) : q[i] < n + 1 /\ q[i] <= n + 1
    BY <1>4
  <1>7. UpTo(a, n + 1)
    <2>1. \A i \in 1..Len(q) : a[i] <= n + 1
      BY <1>1, <1>6
    <2>2. a[Len(q) + 1] <= n + 1
      BY <1>1
    <2>. QED  BY <1>2, <2>1, <2>2 DEF UpTo
  <1>8. ASSUME NEW i \in 1..Len(a), NEW j \in 1..Len(a), i < j
        PROVE  a[i] < a[j]
    <2>1. i \in 1..Len(q)
      BY <1>1, <1>8
    <2>2. CASE j \in 1..Len(q)
      <3>1. a[i] = q[i] /\ a[j] = q[j]
        BY <1>1, <2>1, <2>2
      <3>. QED  BY <1>8, <2>1, <2>2, <3>1 DEF Increasing
    <2>3. CASE j = Len(q) + 1
      BY <1>1, <1>6, <2>1, <2>3
    <2>. QED  BY <1>2, <2>2, <2>3
  <1>9. ASSUME NEW p \in Seq(Nat), UpTo(p, n), Below(p, q)
        PROVE  Below(p, a)
    BY <1>1, <1>2, <1>4, <1>9 DEF Below
  <1>10. Increasing(a)
    BY <1>8 DEF Increasing
  <1>. QED  BY <1>1, <1>5, <1>7, <1>9, <1>10 DEF a

LEMMA TwoAppended ==
  ASSUME NEW q \in Seq(Nat), NEW x \in Nat, NEW y \in Nat
  PROVE  q \o <<x, y>> = Append(Append(q, x), y)
  <1>1. Append(q, x) = q \o <<x>> /\ Append(q, x) \in Seq(Nat)
    BY AppendIsConcat, AppendProperties
  <1>2. Append(Append(q, x), y) = (q \o <<x>>) \o <<y>>
    BY <1>1, AppendIsConcat
  <1>3. <<x>> \in Seq(Nat) /\ <<y>> \in Seq(Nat) /\ <<x>> \o <<y>> = <<x, y>>
    <2>1. <<x>> \in Seq(Nat) /\ <<y>> \in Seq(Nat) /\ <<x, y>> \in Seq(Nat)
      OBVIOUS
    <2>2. /\ Len(<<x>>) = 1 /\ Len(<<y>>) = 1 /\ Len(<<x, y>>) = 2
          /\ <<x>>[1] = x /\ <<y>>[1] = y /\ <<x, y>>[1] = x /\ <<x, y>>[2] = y
      OBVIOUS
    <2> DEFINE a == <<x>>
               b == <<y>>
               c == <<x, y>>
    <2> HIDE DEF a, b, c
    <2>3. /\ a \in Seq(Nat) /\ b \in Seq(Nat) /\ c \in Seq(Nat)
          /\ Len(a) = 1 /\ Len(b) = 1 /\ Len(c) = 2
          /\ a[1] = x /\ b[1] = y /\ c[1] = x /\ c[2] = y
      BY <2>1, <2>2 DEF a, b, c
    <2>4. /\ a \o b \in Seq(Nat) /\ Len(a \o b) = 2
          /\ (a \o b)[1] = x /\ (a \o b)[2] = y
      <3>1. /\ a \o b \in Seq(Nat) /\ Len(a \o b) = Len(a) + Len(b)
            /\ \A i \in 1..(Len(a) + Len(b)) :
                 (a \o b)[i] = IF i <= Len(a) THEN a[i] ELSE b[i - Len(a)]
        BY <2>3, ConcatProperties
      <3>2. \A i \in 1..2 : (a \o b)[i] = IF i <= 1 THEN a[i] ELSE b[i - 1]
        BY <2>3, <3>1
      <3>3. (a \o b)[1] = a[1] /\ (a \o b)[2] = b[1]
        <4>1. /\ 1 \in 1..2 /\ 1 <= 1 /\ 2 \in 1..2 /\ ~(2 <= 1) /\ 2 - 1 = 1
          OBVIOUS
        <4>2. (a \o b)[1] = IF 1 <= 1 THEN a[1] ELSE b[1 - 1]
          BY <3>2, <4>1
        <4>3. (a \o b)[2] = IF 2 <= 1 THEN a[2] ELSE b[2 - 1]
          BY <3>2, <4>1
        <4>. QED  BY <4>1, <4>2, <4>3
      <3>. QED  BY <2>3, <3>1, <3>3
    <2>5. \A i \in 1..2 : (a \o b)[i] = c[i]
      BY <2>3, <2>4
    <2>6. a \o b = c
      BY <2>3, <2>4, <2>5, SeqEqual
    <2>. QED  BY <2>1, <2>6 DEF a, b, c
  <1>4. (q \o <<x>>) \o <<y>> = q \o (<<x>> \o <<y>>)
    BY <1>3, ConcatAssociative
  <1>. QED  BY <1>2, <1>3, <1>4

\* Two sequences one after the other.
LEMMA ConcatOrder ==
  ASSUME NEW p \in Seq(Nat), NEW q \in Seq(Nat), NEW n,
         Increasing(p), Increasing(q), Below(p, q), UpTo(p, n), UpTo(q, n)
  PROVE  /\ Increasing(p \o q) /\ UpTo(p \o q, n)
         /\ \A t : Below(p, t) /\ Below(q, t) => Below(p \o q, t)
  <1> DEFINE c == p \o q
  <1>1. /\ Len(c) = Len(p) + Len(q) /\ Len(p) \in Nat /\ Len(q) \in Nat
        /\ \A i \in 1..(Len(p) + Len(q)) :
             c[i] = IF i <= Len(p) THEN p[i] ELSE q[i - Len(p)]
    BY ConcatProperties, LenProperties
  <1> HIDE DEF c
  <1>2. ASSUME NEW i \in 1..Len(c)
        PROVE  \/ i \in 1..Len(p) /\ c[i] = p[i]
               \/ i > Len(p) /\ i - Len(p) \in 1..Len(q) /\ c[i] = q[i - Len(p)]
    BY <1>1
  <1>3. UpTo(c, n) /\ \A t : Below(p, t) /\ Below(q, t) => Below(c, t)
    BY <1>2 DEF UpTo, Below
  <1>4. ASSUME NEW i \in 1..Len(c), NEW j \in 1..Len(c), i < j
        PROVE  c[i] < c[j]
    <2>1. CASE j \in 1..Len(p) /\ c[j] = p[j]
      <3>1. i \in 1..Len(p) /\ c[i] = p[i]
        BY <1>1, <1>2, <1>4, <2>1
      <3>. QED  BY <1>4, <2>1, <3>1 DEF Increasing
    <2>2. CASE j > Len(p) /\ j - Len(p) \in 1..Len(q) /\ c[j] = q[j - Len(p)]
      <3>1. CASE i \in 1..Len(p) /\ c[i] = p[i]
        BY <2>2, <3>1 DEF Below
      <3>2. CASE i > Len(p) /\ i - Len(p) \in 1..Len(q) /\ c[i] = q[i - Len(p)]
        <4>1. i - Len(p) < j - Len(p)
          BY <1>1, <1>4
        <4>. QED  BY <2>2, <3>2, <4>1 DEF Increasing
      <3>. QED  BY <1>2, <3>1, <3>2
    <2>. QED  BY <1>2, <2>1, <2>2
  <1>. QED  BY <1>3, <1>4 DEF Increasing, c

\* A message is recorded.
LEMMA PushOrder ==
  ASSUME TypeInv, OrderInv,
         m_messages' = Append(m_messages, pushed + 1), pushed' = pushed + 1,
         Taken' = Taken, writer' # "clear" => writer # "clear", UNCHANGED disk
  PROVE  OrderInv'
  <1>1. /\ Increasing(m_messages') /\ UpTo(m_messages', pushed')
        /\ UpTo(disk, pushed') /\ UpTo(Taken, pushed')
        /\ Below(disk, m_messages')
        /\ writer # "clear" => Below(Taken, m_messages')
    BY TakenTypes, NextOrder DEF OrderInv
  <1>. QED  BY <1>1 DEF OrderInv

\* Nothing is recorded, taken or written.
LEMMA StutterOrder ==
  ASSUME OrderInv, UNCHANGED <<m_messages, pushed, disk>>, Taken' = Taken,
         writer' # "clear" => writer # "clear"
  PROVE  OrderInv'
  BY DEF OrderInv

\* The start of the writer thread, and the two messages of a failed one.
LEMMA StartOrder ==
  ASSUME TypeInv, StartOK, OrderInv, Startup
  PROVE  OrderInv'
  <1>1. writer = "none" /\ UNCHANGED <<disk, batch>>
    BY DEF Startup, StartOK
  <1>2. CASE Push /\ writer' = "loop"
    <2>1. Taken' = Taken
      BY <1>1, <1>2 DEF Taken
    <2>. QED  BY <1>1, <1>2, <2>1, PushOrder DEF Push
  <1>3. CASE /\ m_messages' = m_messages \o <<pushed + 1, pushed + 2>>
             /\ pushed' = pushed + 2 /\ UNCHANGED writer
    <2> DEFINE one == Append(m_messages, pushed + 1)
               two == Append(one, pushed + 1 + 1)
    <2>1. Taken' = Taken /\ Taken = <<>>
      BY <1>1, <1>3 DEF Taken
    <2>2. /\ one \in Seq(Nat) /\ pushed + 1 \in Nat
          /\ Increasing(one) /\ UpTo(one, pushed + 1)
          /\ UpTo(disk, pushed + 1) /\ Below(disk, one)
      BY TakenTypes, NextOrder DEF OrderInv
    <2>3. m_messages' = two /\ pushed' = pushed + 1 + 1
      <3>1. pushed + 1 + 1 = pushed + 2 /\ pushed + 1 \in Nat /\ pushed + 2 \in Nat
        BY TakenTypes
      <3>2. m_messages \o <<pushed + 1, pushed + 2>> = Append(one, pushed + 2)
        BY <3>1, TakenTypes, TwoAppended
      <3>. QED  BY <1>3, <3>1, <3>2
    <2> HIDE DEF one
    <2>4. /\ Increasing(two) /\ UpTo(two, pushed + 1 + 1)
          /\ UpTo(disk, pushed + 1 + 1) /\ Below(disk, two)
      BY <2>2, TakenTypes, NextOrder
    <2> HIDE DEF two
    <2>5. UpTo(Taken, pushed') /\ Below(Taken, m_messages')
      BY <2>1, EmptyOrder
    <2>. QED  BY <1>1, <2>1, <2>3, <2>4, <2>5 DEF OrderInv
  <1>. QED  BY <1>2, <1>3 DEF Startup

\* The writer takes the messages in the order of m_messages and writes them
\* behind those it wrote before, or not at all.
LEMMA WriterOrder ==
  ASSUME TypeInv, OrderInv, Writer
  PROVE  OrderInv'
  <1>1. CASE WriterAssign
    <2>1. /\ Taken' = m_messages /\ writer' = "clear"
          /\ UNCHANGED <<m_messages, pushed, disk>>
      BY <1>1 DEF WriterAssign, Taken
    <2>. QED  BY <2>1 DEF OrderInv
  <1>2. CASE WriterClear
    <2>1. /\ Taken' = Taken /\ m_messages' = <<>>
          /\ UNCHANGED <<pushed, disk>>
      BY <1>2 DEF WriterClear, Taken
    <2>. QED  BY <2>1, EmptyOrder DEF OrderInv
  <1>3. CASE WriterWrite
    <2>1. /\ Taken = batch /\ Taken' = <<>> /\ writer # "clear"
          /\ UNCHANGED <<m_messages, pushed>>
          /\ disk' = disk \o batch \/ UNCHANGED disk
      BY <1>3 DEF WriterWrite, Taken
    <2>2. CASE disk' = disk \o batch
      <3>1. /\ Increasing(disk') /\ UpTo(disk', pushed)
            /\ Below(disk', m_messages)
        BY <2>1, <2>2, TakenTypes, ConcatOrder DEF OrderInv
      <3>. QED  BY <2>1, <3>1, EmptyOrder DEF OrderInv
    <2>3. CASE UNCHANGED disk
      BY <2>1, <2>3, EmptyOrder DEF OrderInv
    <2>. QED  BY <2>1, <2>2, <2>3
  <1>4. CASE WriterName \/ WriterAccount \/ WriterUpdate \/ WriterDangling
               \/ WriterDone \/ WriterExit
    <2>1. /\ UNCHANGED <<m_messages, pushed, disk>> /\ Taken' = Taken
          /\ writer # "clear"
      BY <1>4 DEF WriterName, WriterAccount, WriterUpdate, WriterDangling,
                  WriterDone, WriterExit, Taken
    <2>. QED  BY <2>1, StutterOrder
  <1>. QED  BY <1>1, <1>2, <1>3, <1>4 DEF Writer

\* What WrittenInOrder says of the entries: the writer only writes to a file
\* that has a name.
CountInv ==
  /\ writer = "write" => file_name_
  /\ \A i \in 1..Len(history) :
       /\ Counted(i) >= history[i].lines
       /\ i = Len(history) /\ file_name_ => Counted(i) = history[i].lines

\* The writer is not at the entries.
LEMMA StillCounted ==
  ASSUME CountInv, UNCHANGED <<history, file_name_>>,
         writer' = "write" => writer = "write",
         \/ UNCHANGED <<writer, batch>>
         \/ writer # "account" /\ writer' # "account"
  PROVE  CountInv'
  BY DEF CountInv, Counted

\* A new file has no line and counts none.
LEMMA NameCounts ==
  ASSUME TypeInv, CountInv, WriterName
  PROVE  CountInv'
  <1> DEFINE n == Len(history)
             e == [first |-> Len(disk), lines |-> 0, line_count |-> 0,
                   exists |-> FALSE]
  <1>0. /\ writer = "name" /\ writer' = "write" /\ file_name_'
        /\ history' = IF file_name_ THEN history ELSE Append(history, e)
    BY DEF WriterName
  <1>1. CASE file_name_
    BY <1>0, <1>1 DEF CountInv, Counted
  <1>2. CASE ~file_name_
    <2>1. /\ history \in Seq(EntryType) /\ n \in Nat /\ e \in EntryType
          /\ e.lines = 0 /\ e.line_count = 0
      BY DEF TypeInv, TypeOK, EntryType
    <2>2. /\ Len(history') = n + 1 /\ history'[n + 1] = e
          /\ \A i \in 1..n : history'[i] = history[i]
      BY <1>0, <1>2, <2>1, AppendProperties
    <2> HIDE DEF e
    <2>3. ASSUME NEW i \in 1..Len(history')
          PROVE  /\ Counted(i)' >= history'[i].lines
                 /\ i = Len(history') => Counted(i)' = history'[i].lines
      <3>1. Counted(i)' = history'[i].line_count + 0
        BY <1>0 DEF Counted
      <3>2. CASE i = n + 1
        BY <2>1, <2>2, <3>1, <3>2
      <3>3. CASE i \in 1..n
        <4>1. history'[i] = history[i] /\ i # Len(history')
          BY <2>1, <2>2, <3>3
        <4>2. Counted(i) = history[i].line_count + 0 /\ Counted(i) >= history[i].lines
          BY <1>0, <3>3 DEF Counted, CountInv, n
        <4>. QED  BY <3>1, <4>1, <4>2
      <3>. QED  BY <2>1, <2>2, <3>2, <3>3
    <2>. QED  BY <1>0, <2>3 DEF CountInv
  <1>. QED  BY <1>1, <1>2

\* Writing and counting a batch changes the last entry only.
LEMMA EntryCounts ==
  ASSUME TypeInv, CountInv, WriterWrite \/ WriterAccount
  PROVE  CountInv'
  <1> DEFINE n == Len(history)
             m == Len(batch)
  <1>1. /\ history \in Seq(EntryType) /\ n \in Nat /\ n \in 1..n /\ m \in Nat
        /\ batch' = batch
        /\ writer \in {"write", "account"} /\ writer' \in {"account", "publish"}
    <2>1. history # <<>>
      BY DEF TypeInv, HistoryOK, WriterWrite, WriterAccount
    <2>2. history \in Seq(EntryType) /\ batch \in Seq(Nat)
      BY DEF TypeInv, TypeOK
    <2>3. n \in Nat /\ n \in 1..n /\ m \in Nat
      BY <2>1, <2>2
    <2>4. /\ batch' = batch
          /\ writer \in {"write", "account"} /\ writer' \in {"account", "publish"}
      BY DEF WriterWrite, WriterAccount
    <2>. QED  BY <2>2, <2>3, <2>4
  <1>2. \A i \in 1..n : /\ history[i].lines \in Nat /\ history[i].line_count \in Nat
                        /\ history[i] \in EntryType
    <2>1. \A i \in 1..n : history[i] \in EntryType
      BY <1>1, ElementOfSeq
    <2>. QED  BY <2>1, EntryUpdate
  <1>3. CASE /\ WriterWrite
             /\ history' = [history EXCEPT ![n].lines = history[n].lines + m,
                                           ![n].exists = TRUE]
    <2>0. writer = "write" /\ writer' = "account" /\ file_name_
      BY <1>3 DEF WriterWrite, CountInv
    <2>1. /\ Len(history') = n
          /\ history'[n].lines = history[n].lines + m
          /\ history'[n].line_count = history[n].line_count
          /\ \A i \in 1..n : i # n => history'[i] = history[i]
      BY <1>1, <1>2, <1>3 DEF EntryType
    <2>2. ASSUME NEW i \in 1..n
          PROVE  /\ Counted(i)' >= history'[i].lines
                 /\ i = n => Counted(i)' = history'[i].lines
      <3>1. CASE i = n
        <4>1. Counted(n) = history[n].lines /\ Counted(n) = history[n].line_count + 0
          BY <1>1, <2>0 DEF CountInv, Counted
        <4>2. Counted(i)' = history[n].line_count + m
          BY <1>1, <2>0, <2>1, <3>1 DEF Counted
        <4>3. /\ history[n].lines \in Nat /\ history[n].line_count \in Nat
              /\ history'[n].lines = history[n].lines + m
          BY <1>1, <1>2, <2>1
        <4> HIDE DEF n, m
        <4>4. history[n].line_count = history[n].lines
          BY <4>1, <4>3
        <4>5. Counted(i)' = history'[n].lines /\ history'[n].lines \in Nat
          BY <1>1, <4>2, <4>3, <4>4
        <4>. QED  BY <3>1, <4>5
      <3>2. CASE i # n
        <4>1. Counted(i) >= history[i].lines /\ Counted(i) = history[i].line_count + 0
          BY <2>0 DEF CountInv, Counted
        <4>2. Counted(i)' = history[i].line_count + 0
          BY <2>1, <3>2 DEF Counted
        <4>. QED  BY <2>1, <3>2, <4>1, <4>2
      <3>. QED  BY <3>1, <3>2
    <2>. QED  BY <1>1, <2>0, <2>1, <2>2 DEF CountInv
  <1>4. CASE WriterWrite /\ ~file_name_' /\ UNCHANGED history
    <2>0. writer = "write" /\ writer' = "account"
      BY <1>4 DEF WriterWrite
    <2>1. ASSUME NEW i \in 1..n  PROVE Counted(i)' >= history[i].lines
      <3>1. Counted(i) = history[i].line_count + 0 /\ Counted(i) >= history[i].lines
        BY <2>0 DEF CountInv, Counted
      <3>2. \/ Counted(i)' = history[i].line_count + m
            \/ Counted(i)' = history[i].line_count + 0
        BY <1>1, <1>4 DEF Counted
      <3>. QED  BY <1>1, <1>2, <3>1, <3>2
    <2>. QED  BY <1>4, <2>0, <2>1 DEF CountInv
  <1>5. CASE WriterAccount
    <2>0. /\ writer = "account" /\ writer' = "publish" /\ UNCHANGED file_name_
          /\ history' = [history EXCEPT ![n].line_count = @ + m]
      BY <1>5 DEF WriterAccount
    <2>1. /\ Len(history') = n
          /\ history'[n].lines = history[n].lines
          /\ history'[n].line_count = history[n].line_count + m
          /\ \A i \in 1..n : i # n => history'[i] = history[i]
      BY <1>1, <1>2, <2>0 DEF EntryType
    <2>2. ASSUME NEW i \in 1..n  PROVE Counted(i)' = Counted(i)
      <3>1. CASE i = n
        <4>1. Counted(n) = history[n].line_count + m
          BY <2>0 DEF Counted
        <4>2. Counted(i)' = (history[n].line_count + m) + 0
          BY <2>0, <2>1, <3>1 DEF Counted
        <4>3. history[n].line_count \in Nat
          BY <1>1, <1>2
        <4> HIDE DEF n, m
        <4>4. (history[n].line_count + m) + 0 = history[n].line_count + m
          BY <1>1, <4>3
        <4>. QED  BY <3>1, <4>1, <4>2, <4>4
      <3>2. CASE i # n
        BY <2>0, <2>1, <3>2 DEF Counted
      <3>. QED  BY <3>1, <3>2
    <2>3. \A i \in 1..n : history'[i].lines = history[i].lines
      BY <2>1
    <2>. QED  BY <2>0, <2>1, <2>2, <2>3 DEF CountInv
  <1>. QED  BY <1>3, <1>4, <1>5 DEF WriterWrite

LEMMA NextCounts ==
  ASSUME TypeInv, StartOK, CountInv, [Next]_vars
  PROVE  CountInv'
  <1> USE DEF writerVars, requestVars
  <1>1. CASE UNCHANGED <<writer, batch, history, file_name_>>
    BY <1>1, StillCounted
  <1>2. CASE Startup
    BY <1>1, <1>2, StillCounted DEF Startup, StartOK
  <1>3. ASSUME NEW c \in Callers, Log(c) \/ Fatal(c) \/ FatalStep(c)
        PROVE  CountInv'
    BY <1>1, <1>3 DEF Log, Fatal, FatalStep, FatalSeesEmpty, Stop, Join, Joined, Exit
  <1>4. ASSUME NEW r \in Requests, Request(r) \/ Relay(r)
        PROVE  CountInv'
    BY <1>1, <1>4 DEF Request, Relay, RequestBegin, RequestTotal, RequestNoLine,
                      RequestLock, RequestRead, RequestRegister, RequestCancelled,
                      RequestCancel, RequestFetch, RequestClear
  <1>5. CASE WriterAssign \/ WriterClear \/ WriterDone \/ WriterExit
    BY <1>5, StillCounted DEF WriterAssign, WriterClear, WriterDone, WriterExit
  <1>6. CASE WriterUpdate \/ WriterDangling
    BY <1>1, <1>6 DEF WriterUpdate, WriterDangling
  <1>7. CASE UNCHANGED vars
    BY <1>1, <1>7 DEF vars
  <1>. QED
    BY <1>2, <1>3, <1>4, <1>5, <1>6, <1>7, NameCounts, EntryCounts
    DEF Next, Run, Writer

\* On both platforms, also where lock() is empty and messages get lost, and
\* when files cannot be opened: the files hold no message twice and none
\* before one recorded earlier, and an entry that counts lines its file does
\* not hold is that of a file given up.
THEOREM FilesInOrder == Spec => []WrittenInOrder
  <1>1. Init => OrderInv
    BY EmptyOrder DEF Init, OrderInv, Taken
  <1>2. TypeInv /\ StartOK /\ OrderInv /\ [Next]_vars => OrderInv'
    <2> SUFFICES ASSUME TypeInv, StartOK, OrderInv, [Next]_vars
                 PROVE  OrderInv'
      OBVIOUS
    <2> USE DEF writerVars, requestVars
    <2> DEFINE Still == UNCHANGED <<writer, batch, disk>>
               Recorded == /\ m_messages' = Append(m_messages, pushed + 1)
                           /\ pushed' = pushed + 1
    <2>1. ASSUME Still, Recorded \/ UNCHANGED <<m_messages, pushed>>
          PROVE  OrderInv'
      <3>1. Taken' = Taken
        BY <2>1 DEF Taken
      <3>. QED  BY <2>1, <3>1, PushOrder, StutterOrder
    <2>2. ASSUME NEW c \in Callers, Log(c) \/ Fatal(c) \/ FatalStep(c)
          PROVE  OrderInv'
      <3>1. Still /\ (Recorded \/ UNCHANGED <<m_messages, pushed>>)
        BY <2>2 DEF Log, Fatal, FatalStep, FatalSeesEmpty, Stop, Join, Joined,
                    Exit, Push
      <3>. QED  BY <2>1, <3>1
    <2>3. ASSUME NEW r \in Requests, Request(r) \/ Relay(r)
          PROVE  OrderInv'
      <3>1. Still /\ (Recorded \/ UNCHANGED <<m_messages, pushed>>)
        BY <2>3 DEF Request, Relay, RequestBegin, RequestTotal, RequestNoLine,
                    RequestLock, RequestRead, RequestRegister, RequestCancelled,
                    RequestCancel, RequestFetch, RequestClear, Push
      <3>. QED  BY <2>1, <3>1
    <2>4. CASE UNCHANGED vars
      BY <2>1, <2>4 DEF vars
    <2>. QED  BY <2>2, <2>3, <2>4, StartOrder, WriterOrder DEF Next, Run
  <1>3. TypeInv /\ OrderInv /\ CountInv => WrittenInOrder
    <2> SUFFICES ASSUME TypeInv, OrderInv, CountInv PROVE WrittenInOrder
      OBVIOUS
    <2>1. DOMAIN disk = 1..Len(disk) /\ DOMAIN history = 1..Len(history)
      BY TakenTypes, LenProperties DEF TypeInv, TypeOK
    <2>2. \A i, j \in DOMAIN disk : i < j => disk[i] < disk[j]
      BY <2>1 DEF OrderInv, Increasing
    <2>. QED  BY <2>1, <2>2 DEF CountInv, WrittenInOrder
  <1>4. Spec => []TypeInv
    BY TypeCorrect, PTL DEF TypeInv
  <1>5. Init => CountInv
    <2>1. \A i \in 1..Len(<<>>) : FALSE
      BY EmptySeq
    <2>. QED  BY <2>1 DEF Init, CountInv
  <1>6. TypeInv /\ StartOK /\ CountInv /\ [Next]_vars => CountInv'
    BY NextCounts
  <1>. QED  BY <1>1, <1>2, <1>3, <1>4, <1>5, <1>6, StartCorrect, PTL DEF Spec

-----------------------------------------------------------------------------
(* Fatal's exit where join works.                                          *)

\* A thread reaches exit only through a join that returned, and a thread that
\* has finished does not start again.
JoinedInv ==
  /\ \A c \in Callers : pc[c] = "exit" => writer = "finished"
  /\ process = "exited" => writer = "finished"

\* Where pthread_join waits, the process never ends while the writer holds a
\* batch, for any number of threads that call Fatal, also when the thread or a
\* file could not be created.
THEOREM BatchIsWritten ==
  ASSUME JoinWorks
  PROVE  Spec => []NoBatchCutOff
  <1>1. Init => JoinedInv
    BY LoggerAssumption DEF Init, JoinedInv, LoggerAssumption
  <1>2. TypeInv /\ StartOK /\ JoinedInv /\ [Next]_vars => JoinedInv'
    <2> SUFFICES ASSUME TypeInv, StartOK, JoinedInv, [Next]_vars
                 PROVE  JoinedInv'
      OBVIOUS
    <2> USE DEF writerVars, requestVars, JoinedInv
    <2>0. /\ pc \in [Callers \cup Requests -> CallerPc \cup RequestPc]
          /\ Main \in Callers /\ Callers \cap Requests = {}
      BY LoggerAssumption DEF LoggerAssumption, TypeInv, TypeOK
    <2>1. CASE Startup
      BY <2>0, <2>1 DEF Startup, StartOK, Goto
    <2>2. CASE Writer
      BY <2>2 DEF Writer, WriterAssign, WriterClear, WriterName, WriterWrite,
                  WriterAccount, WriterUpdate, WriterDangling, WriterDone, WriterExit
    <2>3. ASSUME NEW c \in Callers, Log(c) \/ Fatal(c) \/ FatalStep(c)
          PROVE  JoinedInv'
      <3>1. /\ UNCHANGED writer
            /\ process' = "exited" => process = "exited" \/ pc[c] = "exit"
        BY <2>3 DEF Log, Fatal, FatalStep, FatalSeesEmpty, Stop, Join, Joined, Exit
      <3>2. \/ UNCHANGED pc
            \/ \E to \in {"fatalWait", "stop", "join", "joining"} :
                 pc' = [pc EXCEPT ![c] = to]
            \/ pc' = [pc EXCEPT ![c] = "exit"] /\ writer = "finished"
        BY <2>3 DEF Log, Fatal, FatalStep, FatalSeesEmpty, Stop, Join, Joined,
                    Exit, Goto
      <3>3. \A d \in Callers : pc'[d] = "exit" => pc[d] = "exit" \/ writer = "finished"
        BY <2>0, <3>2
      <3>. QED  BY <3>1, <3>3
    <2>4. ASSUME NEW r \in Requests, Request(r) \/ Relay(r)
          PROVE  JoinedInv'
      <3>1. /\ UNCHANGED <<writer, process>>
            /\ UNCHANGED pc \/ \E to : pc' = [pc EXCEPT ![r] = to]
        BY <2>4 DEF Request, Relay, RequestBegin, RequestTotal, RequestNoLine,
                    RequestLock, RequestRead, RequestRegister, RequestCancelled,
                    RequestCancel, RequestFetch, RequestClear, Goto
      <3>2. \A d \in Callers : pc'[d] = pc[d]
        BY <2>0, <3>1
      <3>. QED  BY <3>1, <3>2
    <2>5. CASE UNCHANGED vars
      BY <2>5 DEF vars
    <2>. QED  BY <2>1, <2>2, <2>3, <2>4, <2>5 DEF Next, Run
  <1>3. JoinedInv => NoBatchCutOff
    BY DEF JoinedInv, NoBatchCutOff, Pending
  <1>4. Spec => []TypeInv
    BY TypeCorrect, PTL DEF TypeInv
  <1>. QED  BY <1>1, <1>2, <1>3, <1>4, StartCorrect, PTL DEF Spec

-----------------------------------------------------------------------------
(* What a client gets.                                                     *)

\* The line up to which the first i files go.
End(i) == IF i = 0 THEN 0 ELSE history[i].first + history[i].lines

\* One file begins where the one before it ends, and the last one ends with
\* the log.  The line counts lag behind only while execute is about to add
\* the batch it has written.
Tiled ==
  /\ End(Len(history)) = Len(disk)
  /\ \A i \in 1..Len(history) : history[i].first = End(i - 1)
  /\ \A i, j \in 1..Len(history) : i < j => End(i) <= history[j].first
  /\ \A i \in 1..Len(history) :
       /\ history[i].lines > 0 => history[i].exists
       /\ history[i].lines = history[i].line_count
            + IF writer = "account" /\ i = Len(history) THEN Len(batch) ELSE 0

\* What execute publishes are the last lines of the log, and mutex_logger_request_
\* keeps a handler from reading meanwhile.
Publishing ==
  writer \in {"account", "publish"} =>
    /\ Len(batch) <= Len(disk) /\ CountsFrom(batch, Len(disk) - Len(batch))
    /\ \A r \in Requests : pc[r] # "read"
    /\ writer = "publish" /\ cur # None => \E i \in 1..Len(subscribers) : subscribers[i] = cur

Listed(r) == \E i \in 1..Len(subscribers) : subscribers[i] = r

\* getHistoryLog adds up no more lines than there are.
TotalInv(r) ==
  /\ k[r] <= Len(history)
  /\ pc[r] \in {"idle", "total"} =>
       /\ stream[r] = <<>> /\ inbox[r] = <<>> /\ index[r] = 0
       /\ pc[r] = "idle" => k[r] = 0 /\ total[r] = 0
       /\ total[r] <= End(k[r])
  /\ total[r] <= Len(disk)
  /\ pc[r] = "read" => total[r] > 0 /\ inbox[r] = <<>>
  /\ pc[r] = "clear" => taken[r] = inbox[r]
  /\ Listed(r) => total[r] > 0

\* The files handler r has been through: all their lines, or none until the
\* last file.
ReadInv(r) ==
  LET start == StartLineIndex(r) IN
  pc[r] = "read" /\ InOneFile(r) =>
    /\ start = 0 => CountsFrom(stream[r], 0) /\ Len(stream[r]) = End(k[r])
    /\ start > 0 /\ k[r] < Len(history) => stream[r] = <<>> /\ index[r] = End(k[r])
    /\ start > 0 /\ k[r] = Len(history) =>
         CountsFrom(stream[r], start) /\ Len(stream[r]) = Len(disk) - start

\* The publish loop has yet to reach r.
Behind(r) ==
  \/ writer = "account"
  \/ /\ writer = "publish" /\ cur # None
     /\ \E i, j \in 1..Len(subscribers) :
          subscribers[i] = cur /\ subscribers[j] = r /\ i <= j

\* A registered client has, or is about to get, all lines from where it began
\* up to those being published.
CaughtUp(r) ==
  LET start == StartLineIndex(r) IN
  Listed(r) /\ InOneFile(r) =>
    /\ CountsFrom(Delivered(r), start)
    /\ Len(Delivered(r)) + start + (IF Behind(r) THEN Len(batch) ELSE 0) = Len(disk)

StreamInv ==
  /\ Tiled /\ Publishing
  /\ \A r \in Requests : TotalInv(r) /\ ReadInv(r) /\ CaughtUp(r)

\* The numbers a handler works with.
LEMMA HandlerTypes ==
  ASSUME TypeInv, NEW r \in Requests
  PROVE  /\ count[r] \in Nat /\ total[r] \in Nat /\ index[r] \in Nat /\ k[r] \in Nat
         /\ stream[r] \in Seq(Nat) /\ inbox[r] \in Seq(Nat) /\ taken[r] \in Seq(Nat)
         /\ Len(stream[r]) \in Nat /\ Len(inbox[r]) \in Nat
         /\ Delivered(r) \in Seq(Nat) /\ Len(Delivered(r)) = Len(stream[r]) + Len(inbox[r])
         /\ StartLineIndex(r) \in Nat
         /\ StartLineIndex(r) > 0 => StartLineIndex(r) = total[r] - count[r]
         /\ StartLineIndex(r) = 0 => count[r] = 0 \/ count[r] >= total[r]
         /\ total[r] > 0 => StartLineIndex(r) < total[r]
  <1>1. /\ count[r] \in Nat /\ total[r] \in Nat /\ index[r] \in Nat /\ k[r] \in Nat
        /\ stream[r] \in Seq(Nat) /\ inbox[r] \in Seq(Nat) /\ taken[r] \in Seq(Nat)
    BY LoggerAssumption DEF LoggerAssumption, TypeInv, TypeOK
  <1>2. /\ Len(stream[r]) \in Nat /\ Len(inbox[r]) \in Nat
        /\ Delivered(r) \in Seq(Nat) /\ Len(Delivered(r)) = Len(stream[r]) + Len(inbox[r])
    BY <1>1, LenProperties, ConcatProperties DEF Delivered
  <1>3. /\ StartLineIndex(r) \in Nat
        /\ StartLineIndex(r) > 0 => StartLineIndex(r) = total[r] - count[r]
        /\ StartLineIndex(r) = 0 => count[r] = 0 \/ count[r] >= total[r]
        /\ total[r] > 0 => StartLineIndex(r) < total[r]
    BY <1>1 DEF StartLineIndex
  <1>. QED  BY <1>1, <1>2, <1>3

\* The numbers of the history.
LEMMA FileTypes ==
  ASSUME TypeInv
  PROVE  /\ Len(history) \in Nat /\ Len(disk) \in Nat /\ Len(batch) \in Nat
         /\ DOMAIN history = 1..Len(history)
         /\ \A i \in 1..Len(history) :
              /\ history[i].first \in Nat /\ history[i].lines \in Nat
              /\ history[i].line_count \in Nat
         /\ End(0) = 0
         /\ \A i \in 1..Len(history) : End(i) = history[i].first + history[i].lines
         /\ \A i \in 0..Len(history) : End(i) \in Nat /\ End(i) <= Len(disk)
  <1>1. history \in Seq(EntryType) /\ disk \in Seq(Nat) /\ batch \in Seq(Nat)
    BY DEF TypeInv, TypeOK
  <1>2. /\ Len(history) \in Nat /\ Len(disk) \in Nat /\ Len(batch) \in Nat
        /\ DOMAIN history = 1..Len(history)
        /\ \A i \in 1..Len(history) : history[i] \in EntryType
    BY <1>1, LenProperties, ElementOfSeq
  <1>3. \A i \in 1..Len(history) :
          /\ history[i].first \in Nat /\ history[i].lines \in Nat
          /\ history[i].line_count \in Nat
          /\ history[i].first + history[i].lines <= Len(disk)
    BY <1>2 DEF EntryType, TypeInv, HistoryOK
  <1>4. End(0) = 0
    BY DEF End
  <1>5. \A i \in 1..Len(history) : End(i) = history[i].first + history[i].lines
    BY <1>2 DEF End
  <1>6. \A i \in 0..Len(history) : i = 0 \/ i \in 1..Len(history)
    BY <1>2
  <1>7. \A i \in 0..Len(history) : End(i) \in Nat /\ End(i) <= Len(disk)
    BY <1>2, <1>3, <1>4, <1>5, <1>6
  <1>. QED  BY <1>2, <1>3, <1>4, <1>5, <1>7

\* A handler that a step leaves alone.
LEMMA HandlerStays ==
  ASSUME TypeInv, StreamInv, NEW s \in Requests,
         UNCHANGED <<history, disk, writer, batch, cur, count>>,
         pc'[s] = pc[s] \/ (pc[s] = "stream" /\ pc'[s] = "cancel"),
         k'[s] = k[s], total'[s] = total[s], index'[s] = index[s], inbox'[s] = inbox[s],
         taken'[s] = taken[s], stream'[s] = stream[s],
         \/ UNCHANGED subscribers
         \/ writer \notin {"account", "publish"} /\ (Listed(s)' => Listed(s))
  PROVE  TotalInv(s)' /\ ReadInv(s)' /\ CaughtUp(s)'
  <1>1. TotalInv(s) /\ ReadInv(s) /\ CaughtUp(s)
    BY DEF StreamInv
  <1>2. /\ StartLineIndex(s)' = StartLineIndex(s) /\ InOneFile(s)' = InOneFile(s)
        /\ Delivered(s)' = Delivered(s) /\ \A i : End(i)' = End(i)
    BY DEF StartLineIndex, InOneFile, Delivered, End
  <1>3. Listed(s)' => Listed(s)
    BY DEF Listed
  <1>4. Behind(s)' <=> Behind(s)
    BY DEF Behind
  <1>5. End(k[s])' = End(k[s])
    BY DEF End
  <1>6. TotalInv(s)'
    BY <1>1, <1>3, <1>5 DEF TotalInv
  <1>7. ReadInv(s)'
    BY <1>1, <1>2, <1>5 DEF ReadInv, CountsFrom
  <1>8. CaughtUp(s)'
    BY <1>1, <1>2, <1>3, <1>4 DEF CaughtUp, CountsFrom
  <1>. QED  BY <1>6, <1>7, <1>8

\* The files are tiled as long as neither they nor the batch change.
LEMMA TilesStay ==
  ASSUME Tiled, UNCHANGED <<history, disk>>,
         UNCHANGED <<writer, batch>> \/ (writer # "account" /\ writer' # "account")
  PROVE  Tiled'
  <1>1. \A i : End(i)' = End(i)
    BY DEF End
  <1>2. End(Len(history))' = End(Len(history))
    BY DEF End
  <1>. QED  BY <1>1, <1>2 DEF Tiled

\* The lines of a file, but for the first ones, count up like the log.
LEMMA PartCounts ==
  ASSUME NEW d \in Seq(Nat), CountsFrom(d, 0),
         NEW first \in Nat, NEW lines \in Nat, NEW past \in Nat, first + lines <= Len(d),
         NEW t, t = SubSeq(d, first + past + 1, first + lines)
  PROVE  /\ t \in Seq(Nat)
         /\ Len(t) = IF past < lines THEN lines - past ELSE 0
         /\ CountsFrom(t, first + past)
  <1> DEFINE a == first + past + 1
             b == first + lines
  <1>1. DOMAIN d = 1..Len(d) /\ Len(d) \in Nat
    BY LenProperties
  <1>2. \A i \in 1..Len(d) : d[i] = 0 + i
    BY <1>1 DEF CountsFrom
  <1>3. /\ a \in Nat /\ b \in Nat /\ a >= 1 /\ b <= Len(d)
        /\ a = (first + past) + 1 /\ first + past \in Nat
        /\ b - a + 1 = lines - past /\ (a <= b <=> past < lines)
    OBVIOUS
  <1>0. t = SubSeq(d, a, b)
    OBVIOUS
  <1> HIDE DEF a, b
  <1>4. \A i \in a..b : i \in 1..Len(d)
    BY <1>1, <1>3
  <1>5. \A i \in a..b : d[i] = i /\ d[i] \in Nat
    BY <1>1, <1>2, <1>3, <1>4
  <1>6. /\ t \in Seq(Nat) /\ Len(t) = IF a <= b THEN b - a + 1 ELSE 0
        /\ \A i \in 1..(b - a + 1) : t[i] = d[a + i - 1]
    BY <1>0, <1>3, <1>5, SubSeqProperties
  <1>7. DOMAIN t = 1..Len(t)
    BY <1>6, LenProperties
  <1>8. ASSUME NEW i \in 1..Len(t)
        PROVE  t[i] = (first + past) + i
    <2>0. Len(t) = (IF a <= b THEN b - a + 1 ELSE 0) /\ a \in Nat /\ b \in Nat
      BY <1>3, <1>6
    <2>1. i \in 1..(b - a + 1)
      <3>1. a <= b
        BY <2>0
      <3>. QED  BY <2>0, <3>1
    <2>2. a + i - 1 \in a..b /\ a + i - 1 = (first + past) + i
      BY <1>3, <2>1
    <2>. QED  BY <1>5, <1>6, <2>1, <2>2
  <1>9. Len(t) = IF past < lines THEN lines - past ELSE 0
    BY <1>3, <1>6
  <1>10. CountsFrom(t, first + past)
    BY <1>7, <1>8 DEF CountsFrom
  <1>. QED  BY <1>6, <1>9, <1>10

\* A handler reads one file.
LEMMA ReadStep ==
  ASSUME TypeInv, TypeInv', StreamInv, Lossless, MutexWorks, NEW r \in Requests,
         UNCHANGED count, RequestRead(r)
  PROVE  ReadInv(r)' /\ TotalInv(r)'
  <1> DEFINE start == StartLineIndex(r)
             n == k[r] + 1
             e == history[n]
             skip == IF start - index[r] <= 0 THEN 0 ELSE start - index[r]
  <1>1. /\ pc[r] = "read" /\ k[r] < Len(history) /\ k' = [k EXCEPT ![r] = @ + 1]
        /\ UNCHANGED <<history, disk, writer, batch, cur, pc, subscribers, total, inbox, taken>>
    BY DEF RequestRead, writerVars
  <1>2. /\ k[r] \in Nat /\ index[r] \in Nat /\ start \in Nat /\ total[r] \in Nat
        /\ stream[r] \in Seq(Nat)
        /\ total[r] > 0 => start < total[r]
    BY HandlerTypes
  <1>3. /\ Len(history) \in Nat /\ Len(disk) \in Nat /\ n \in 1..Len(history)
        /\ e.first \in Nat /\ e.lines \in Nat /\ e.line_count \in Nat
        /\ End(n) = e.first + e.lines /\ End(n) <= Len(disk) /\ End(n) \in Nat
        /\ End(k[r]) \in Nat
    <2>1. n \in 1..Len(history) /\ n \in 0..Len(history) /\ k[r] \in 0..Len(history)
      BY <1>1, <1>2, FileTypes
    <2>. QED  BY <2>1, FileTypes
  <1>4. k'[r] = n /\ total'[r] = total[r] /\ inbox'[r] = inbox[r] /\ taken'[r] = taken[r]
    BY <1>1, <1>2 DEF TypeInv, TypeOK
  <1>5. e.first = End(k[r]) /\ (e.lines > 0 => e.exists) /\ e.lines = e.line_count
    <2>1. writer # "account"
      BY <1>1 DEF StreamInv, Publishing
    <2>2. Tiled
      BY DEF StreamInv
    <2>3. e.first = End(n - 1) /\ (e.lines > 0 => e.exists)
      BY <1>3, <2>2 DEF Tiled
    <2>4. e.lines = e.line_count + 0
      BY <1>3, <2>1, <2>2 DEF Tiled
    <2>5. n - 1 = k[r]
      BY <1>2
    <2>. QED  BY <1>3, <2>3, <2>4, <2>5
  <1>6. TotalInv(r)
    BY DEF StreamInv
  <1>7. TotalInv(r)'
    <2>1. k'[r] <= Len(history')
      BY <1>1, <1>3, <1>4
    <2>2. pc'[r] = "read" /\ Listed(r)' = Listed(r)
      BY <1>1 DEF Listed
    <2>. QED  BY <1>1, <1>4, <1>6, <2>1, <2>2 DEF TotalInv
  <1>8. /\ Entry(r) = e /\ (Skipped(r) <=> index[r] + e.line_count < start)
        /\ LinesRead(r) = SubSeq(disk, e.first + skip + 1, e.first + e.lines)
    BY DEF Entry, Skipped, LinesRead, ReadFile
  <1>9. skip \in Nat
    BY <1>2
  <1>10. /\ LinesRead(r) \in Seq(Nat)
         /\ Len(LinesRead(r)) = IF skip < e.lines THEN e.lines - skip ELSE 0
         /\ CountsFrom(LinesRead(r), e.first + skip)
    <2>1. disk \in Seq(Nat) /\ CountsFrom(disk, 0)
      BY DEF TypeInv, TypeOK, Lossless
    <2>2. e.first \in Nat /\ e.lines \in Nat /\ e.first + e.lines <= Len(disk)
      BY <1>3
    <2> HIDE DEF e, skip
    <2>. QED  BY <1>8, <1>9, <2>1, <2>2, PartCounts, Zenon
  <1>11. StartLineIndex(r)' = start /\ (InOneFile(r)' <=> InOneFile(r))
    BY <1>1 DEF StartLineIndex, InOneFile
  <1>12. End(k[r])' = End(n)
    BY <1>1, <1>3, <1>4 DEF End
  <1>13. /\ index'[r] = index[r] + e.line_count /\ stream'[r] = stream[r] /\ Skipped(r)
         \/ /\ index'[r] = index[r] + Len(LinesRead(r)) /\ stream'[r] = stream[r] \o LinesRead(r)
            /\ ~Skipped(r) /\ LinesRead(r) # <<>>
         \/ /\ ~Skipped(r) /\ (e.exists => LinesRead(r) = <<>>) /\ stream'[r] = stream[r]
    BY <1>8 DEF RequestRead, TypeInv, TypeOK
  <1>14. \A q : q = <<>> => Len(q) = 0
    OBVIOUS
  <1> HIDE DEF start, n, e, skip
  <1>15. ReadInv(r)'
    <2> SUFFICES ASSUME InOneFile(r)
                 PROVE  /\ start = 0 => CountsFrom(stream'[r], 0) /\ Len(stream'[r]) = End(n)
                        /\ start > 0 /\ n < Len(history) =>
                             stream'[r] = <<>> /\ index'[r] = End(n)
                        /\ start > 0 /\ n = Len(history) =>
                             CountsFrom(stream'[r], start) /\ Len(stream'[r]) = Len(disk) - start
      BY <1>1, <1>4, <1>11, <1>12 DEF ReadInv
    <2>1. ReadInv(r)
      BY DEF StreamInv
    <2>2. ASSUME start = 0
          PROVE  CountsFrom(stream'[r], 0) /\ Len(stream'[r]) = End(n)
      <3>1. CountsFrom(stream[r], 0) /\ Len(stream[r]) = End(k[r])
        BY <1>1, <2>1, <2>2 DEF ReadInv, start
      <3>2. ~Skipped(r) /\ skip = 0
        BY <1>2, <1>3, <1>8, <2>2 DEF skip
      <3>3. Len(LinesRead(r)) = e.lines
        BY <1>3, <1>10, <3>2
      <3>4. CountsFrom(LinesRead(r), 0 + Len(stream[r]))
        BY <1>3, <1>5, <1>10, <3>1, <3>2
      <3>5. CASE stream'[r] = stream[r] \o LinesRead(r)
        <4>1. /\ CountsFrom(stream[r] \o LinesRead(r), 0)
              /\ Len(stream[r] \o LinesRead(r)) = Len(stream[r]) + Len(LinesRead(r))
          BY <1>2, <1>10, <3>1, <3>4, ConcatCounts
        <4>. QED  BY <1>3, <1>5, <3>1, <3>3, <3>5, <4>1
      <3>6. CASE (e.exists => LinesRead(r) = <<>>) /\ stream'[r] = stream[r]
        <4>1. e.lines = 0
          BY <1>3, <1>5, <1>14, <3>3, <3>6
        <4>. QED  BY <1>3, <1>5, <3>1, <3>6, <4>1
      <3>. QED  BY <1>13, <3>2, <3>5, <3>6
    <2>3. ASSUME start > 0
          PROVE  /\ n < Len(history) => stream'[r] = <<>> /\ index'[r] = End(n)
                 /\ n = Len(history) =>
                      CountsFrom(stream'[r], start) /\ Len(stream'[r]) = Len(disk) - start
      <3>1. stream[r] = <<>> /\ index[r] = End(k[r])
        BY <1>1, <1>2, <2>1, <2>3 DEF ReadInv, start
      <3>2. start > history[Len(history)].first
        BY <1>2, <2>3 DEF InOneFile, start, Last
      <3>3. index[r] = e.first
        BY <1>5, <3>1
      <3>4. CASE n < Len(history)
        <4>1. End(n) <= history[Len(history)].first /\ history[Len(history)].first \in Nat
          <5>1. Len(history) \in 1..Len(history)
            BY <1>3
          <5>. QED  BY <1>3, <3>4, <5>1, FileTypes DEF StreamInv, Tiled
        <4>2. Skipped(r)
          BY <1>2, <1>3, <1>5, <1>8, <3>2, <3>3, <4>1
        <4>3. index'[r] = index[r] + e.line_count /\ stream'[r] = stream[r]
          BY <1>13, <4>2
        <4>. QED  BY <1>3, <1>5, <3>1, <3>3, <3>4, <4>3
      <3>5. CASE n = Len(history)
        <4>1. End(n) = Len(disk)
          BY <3>5 DEF StreamInv, Tiled
        <4>2. start < Len(disk)
          BY <1>1, <1>2, <1>3, <1>6 DEF TotalInv
        <4>3. ~Skipped(r)
          BY <1>2, <1>3, <1>5, <1>8, <3>3, <4>1, <4>2
        <4>4. start > e.first
          BY <3>2, <3>5 DEF e
        <4>5. skip = start - e.first /\ skip < e.lines /\ e.first + skip = start
          BY <1>2, <1>3, <3>3, <4>1, <4>2, <4>4 DEF skip
        <4>6. CountsFrom(LinesRead(r), start) /\ Len(LinesRead(r)) = Len(disk) - start
          <5>1. CountsFrom(LinesRead(r), start)
            BY <1>10, <4>5
          <5>2. Len(LinesRead(r)) = e.lines - skip
            BY <1>10, <4>5
          <5>3. e.lines - skip = Len(disk) - start
            <6>1. /\ e.first \in Nat /\ e.lines \in Nat /\ skip \in Nat /\ start \in Nat
                  /\ Len(disk) \in Nat
              BY <1>2, <1>3, <1>9
            <6>2. e.first + e.lines = Len(disk) /\ e.first + skip = start
              BY <1>3, <4>1, <4>5
            <6>. QED  BY <6>1, <6>2
          <5>. QED  BY <5>1, <5>2, <5>3
        <4>7. LinesRead(r) # <<>> /\ e.exists
          <5>1. Len(LinesRead(r)) # 0
            BY <1>2, <1>3, <4>2, <4>6
          <5>2. e.lines > 0
            BY <1>2, <1>3, <4>1, <4>2, <4>4
          <5>. QED  BY <1>5, <1>14, <5>1, <5>2
        <4>8. stream'[r] = <<>> \o LinesRead(r)
          BY <1>13, <3>1, <4>3, <4>7
        <4>9. stream'[r] = LinesRead(r)
          BY <1>10, <4>8, ConcatEmptySeq
        <4>. QED  BY <1>3, <3>5, <4>6, <4>9
      <3>. QED  BY <1>3, <3>4, <3>5
    <2>. QED  BY <2>2, <2>3
  <1>. QED  BY <1>7, <1>15

\* A handler that is not polling is not registered.
LEMMA Unlisted ==
  ASSUME SubscriberInv, NEW r, pc[r] \notin Listening
  PROVE  ~Listed(r)
  BY DEF SubscriberInv, ListedInv, Listed

\* A handler begins, adds the line counts up, and takes the lock.
LEMMA CountingStep ==
  ASSUME TypeInv, TypeInv', StreamInv, SubscriberInv, SubscriberInv', NEW r \in Requests,
         UNCHANGED count,
         RequestBegin(r) \/ RequestTotal(r) \/ RequestNoLine(r) \/ RequestLock(r)
  PROVE  TotalInv(r)' /\ ReadInv(r)' /\ CaughtUp(r)'
  <1> USE DEF writerVars, requestVars, Goto
  <1>1. /\ UNCHANGED <<history, disk, writer, batch, cur, subscribers>>
        /\ UNCHANGED <<index, inbox, taken, stream>>
    BY DEF RequestBegin, RequestTotal, RequestNoLine, RequestLock
  <1>2. /\ TotalInv(r) /\ Tiled
        /\ pc \in [Callers \cup Requests -> CallerPc \cup RequestPc]
        /\ k \in [Requests -> Nat] /\ total \in [Requests -> Nat]
    BY DEF StreamInv, TypeInv, TypeOK
  <1>3. /\ k[r] \in Nat /\ total[r] \in Nat /\ Len(history) \in Nat /\ Len(disk) \in Nat
        /\ k[r] <= Len(history) /\ k[r] \in 0..Len(history)
        /\ pc[r] \in {"idle", "total"}
        /\ stream[r] = <<>> /\ inbox[r] = <<>> /\ index[r] = 0
        /\ total[r] <= End(k[r]) /\ total[r] <= Len(disk)
        /\ pc[r] = "idle" => k[r] = 0 /\ total[r] = 0
    <2>1. pc[r] \in {"idle", "total"}
      BY DEF RequestBegin, RequestTotal, RequestNoLine, RequestLock
    <2>. QED  BY <1>2, <2>1, HandlerTypes, FileTypes DEF TotalInv
  <1>4. End(k[r]) \in Nat /\ End(0) = 0
    BY <1>3, FileTypes
  <1>5. ~Listed(r)' /\ CaughtUp(r)'
    <2>1. ~Listed(r)
      BY <1>3, Unlisted DEF Listening
    <2>2. ~Listed(r)'
      BY <1>1, <2>1 DEF Listed
    <2>. QED  BY <2>2 DEF CaughtUp
  <1>6. CASE RequestBegin(r)
    <2>1. pc'[r] = "total" /\ UNCHANGED <<k, total>> /\ pc[r] = "idle"
      BY <1>2, <1>6 DEF RequestBegin
    <2>2. End(k[r])' = End(k[r])
      BY <1>1, <2>1 DEF End
    <2>3. TotalInv(r)'
      BY <1>1, <1>3, <1>4, <1>5, <2>1, <2>2 DEF TotalInv
    <2>. QED  BY <1>5, <2>1, <2>3 DEF ReadInv
  <1>7. CASE RequestTotal(r)
    <2> DEFINE n == k[r] + 1
    <2>1. /\ pc'[r] = "total" /\ k'[r] = n /\ total'[r] = total[r] + history[n].line_count
          /\ k[r] < Len(history)
      BY <1>2, <1>7 DEF RequestTotal, Entry
    <2>2. n \in 1..Len(history) /\ n - 1 = k[r] /\ n <= Len(history) /\ n \in 0..Len(history)
      BY <1>3, <2>1
    <2>3. /\ history[n].first \in Nat /\ history[n].lines \in Nat
          /\ history[n].line_count \in Nat /\ Len(batch) \in Nat
          /\ End(n) = history[n].first + history[n].lines /\ End(n) <= Len(disk)
      BY <2>2, FileTypes
    <2>4. history[n].first = End(k[r])
      BY <1>2, <2>2 DEF Tiled
    <2>5. history[n].line_count <= history[n].lines
      <3>1. history[n].lines = history[n].line_count
              + IF writer = "account" /\ n = Len(history) THEN Len(batch) ELSE 0
        BY <1>2, <2>2 DEF Tiled
      <3>. QED  BY <2>3, <3>1
    <2>6. total[r] + history[n].line_count <= End(n)
             /\ total[r] + history[n].line_count <= Len(disk)
      <3> HIDE DEF n
      <3>1. total[r] + history[n].line_count <= history[n].first + history[n].lines
        BY <1>3, <1>4, <2>3, <2>4, <2>5
      <3>. QED  BY <1>3, <2>3, <3>1
    <2>7. End(k[r])' = End(n)
      BY <1>1, <2>1 DEF End
    <2> HIDE DEF n
    <2>8. TotalInv(r)'
      BY <1>1, <1>3, <1>5, <2>1, <2>2, <2>6, <2>7 DEF TotalInv
    <2>. QED  BY <1>5, <2>1, <2>8 DEF ReadInv
  <1>8. CASE RequestNoLine(r)
    <2>1. pc'[r] = "stream" /\ UNCHANGED <<k, total>>
      BY <1>2, <1>8 DEF RequestNoLine
    <2>2. TotalInv(r)'
      BY <1>1, <1>3, <1>5, <2>1 DEF TotalInv
    <2>. QED  BY <1>5, <2>1, <2>2 DEF ReadInv
  <1>9. CASE RequestLock(r)
    <2>1. pc'[r] = "read" /\ k'[r] = 0 /\ UNCHANGED total /\ total[r] > 0
      BY <1>2, <1>9 DEF RequestLock
    <2>2. TotalInv(r)'
      BY <1>1, <1>3, <1>5, <2>1 DEF TotalInv
    <2>3. Len(history) # 0
      BY <1>2, <1>3, <1>4, <2>1 DEF Tiled
    <2>4. End(k[r])' = 0
      BY <2>1 DEF End
    <2>5. stream'[r] = <<>> /\ index'[r] = 0 /\ Len(stream'[r]) = 0 /\ CountsFrom(stream'[r], 0)
      BY <1>1, <1>3 DEF CountsFrom
    <2>6. ReadInv(r)'
      BY <1>1, <1>3, <2>1, <2>3, <2>4, <2>5 DEF ReadInv
    <2>. QED  BY <1>5, <2>2, <2>6
  <1>. QED  BY <1>6, <1>7, <1>8, <1>9

\* A handler registers, and relays what it is handed.
LEMMA RelayStep ==
  ASSUME TypeInv, TypeInv', StreamInv, SubscriberInv, SubscriberInv', MutexWorks,
         NEW r \in Requests, UNCHANGED count,
         RequestRegister(r) \/ RequestFetch(r) \/ RequestClear(r) \/ RequestCancel(r)
  PROVE  TotalInv(r)' /\ ReadInv(r)' /\ CaughtUp(r)'
  <1> USE DEF writerVars, requestVars, Goto
  <1>1. UNCHANGED <<history, disk, writer, batch, cur, k, total, index>>
    BY DEF RequestRegister, RequestFetch, RequestClear, RequestCancel
  <1>2. /\ TotalInv(r) /\ ReadInv(r) /\ CaughtUp(r) /\ Tiled /\ Publishing
        /\ pc \in [Callers \cup Requests -> CallerPc \cup RequestPc]
        /\ inbox \in [Requests -> Seq(Nat)] /\ taken \in [Requests -> Seq(Nat)]
        /\ stream \in [Requests -> Seq(Nat)]
    BY DEF StreamInv, TypeInv, TypeOK
  <1>3. /\ k[r] \in Nat /\ total[r] \in Nat /\ Len(history) \in Nat /\ Len(disk) \in Nat
        /\ StartLineIndex(r) \in Nat
        /\ stream[r] \in Seq(Nat) /\ inbox[r] \in Seq(Nat) /\ Len(stream[r]) \in Nat
        /\ k[r] <= Len(history) /\ total[r] <= Len(disk)
    BY <1>2, HandlerTypes, FileTypes DEF TotalInv
  <1>4. /\ StartLineIndex(r)' = StartLineIndex(r) /\ (InOneFile(r)' <=> InOneFile(r))
        /\ (Delivered(r) = stream[r] \o inbox[r])
    BY <1>1 DEF StartLineIndex, InOneFile, Delivered
  <1>5. pc'[r] \in {"stream", "clear", "done"} /\ ReadInv(r)'
    <2>1. pc'[r] \in {"stream", "clear", "done"}
      BY <1>2 DEF RequestRegister, RequestFetch, RequestClear, RequestCancel
    <2>. QED  BY <2>1 DEF ReadInv
  <1>6. CASE RequestRegister(r)
    <2>1. /\ pc[r] = "read" /\ pc'[r] = "stream" /\ k[r] >= Len(history)
          /\ UNCHANGED <<inbox, stream>>
      BY <1>2, <1>6 DEF RequestRegister
    <2>2. total[r] > 0 /\ inbox[r] = <<>> /\ k[r] = Len(history)
      BY <1>2, <1>3, <2>1 DEF TotalInv
    <2>3. TotalInv(r)'
      BY <1>1, <1>3, <2>1, <2>2 DEF TotalInv
    <2>4. writer \notin {"account", "publish"}
      BY <1>2, <2>1 DEF Publishing
    <2>5. ~Behind(r)'
      BY <1>1, <2>4 DEF Behind
    <2>6. Delivered(r)' = stream[r]
      <3>1. stream[r] \o <<>> = stream[r]
        BY <1>3, ConcatEmptySeq
      <3>. QED  BY <2>1, <2>2, <3>1 DEF Delivered
    <2>7. ASSUME InOneFile(r)
          PROVE  /\ CountsFrom(stream[r], StartLineIndex(r))
                 /\ Len(stream[r]) + StartLineIndex(r) + 0 = Len(disk)
      <3>1. End(k[r]) = Len(disk)
        BY <1>2, <2>2 DEF Tiled
      <3>2. CASE StartLineIndex(r) = 0
        BY <1>2, <1>3, <2>1, <2>7, <3>1, <3>2 DEF ReadInv
      <3>3. CASE StartLineIndex(r) > 0
        BY <1>2, <1>3, <2>1, <2>2, <2>7, <3>3 DEF ReadInv
      <3>. QED  BY <1>3, <3>2, <3>3
    <2>8. CaughtUp(r)'
      BY <1>1, <1>4, <2>5, <2>6, <2>7 DEF CaughtUp
    <2>. QED  BY <1>5, <2>3, <2>8
  <1>7. CASE RequestFetch(r) \/ RequestClear(r)
    <2>1. /\ UNCHANGED subscribers /\ pc[r] \in {"stream", "clear"}
          /\ pc'[r] = "clear" => taken'[r] = inbox'[r]
      BY <1>2, <1>7 DEF RequestFetch, RequestClear
    <2>2. (Listed(r)' <=> Listed(r)) /\ (Behind(r)' <=> Behind(r))
      BY <1>1, <2>1 DEF Listed, Behind
    <2>3. TotalInv(r)'
      BY <1>1, <1>2, <1>3, <1>5, <2>1, <2>2 DEF TotalInv
    <2>4. Delivered(r)' = Delivered(r)
      <3>1. CASE RequestFetch(r)
        BY <3>1 DEF RequestFetch, Delivered
      <3>2. CASE RequestClear(r)
        <4>1. taken[r] = inbox[r]
          BY <1>2, <3>2 DEF RequestClear, TotalInv
        <4>2. inbox'[r] = <<>> /\ stream'[r] = stream[r] \o inbox[r]
          BY <1>2, <3>2, <4>1 DEF RequestClear
        <4>3. (stream[r] \o inbox[r]) \o <<>> = stream[r] \o inbox[r]
          BY <1>3, ConcatProperties, ConcatEmptySeq
        <4>. QED  BY <4>2, <4>3 DEF Delivered
      <3>. QED  BY <1>7, <3>1, <3>2
    <2>5. CaughtUp(r)'
      BY <1>1, <1>2, <1>4, <2>2, <2>4 DEF CaughtUp, CountsFrom
    <2>. QED  BY <1>5, <2>3, <2>5
  <1>8. CASE RequestCancel(r)
    <2>1. pc'[r] = "done"
      BY <1>2, <1>8 DEF RequestCancel
    <2>2. ~Listed(r)'
      BY <2>1 DEF SubscriberInv, ListedInv, Listed, Listening
    <2>3. TotalInv(r)'
      BY <1>1, <1>3, <2>1, <2>2 DEF TotalInv
    <2>. QED  BY <1>5, <2>2, <2>3 DEF CaughtUp
  <1>. QED  BY <1>6, <1>7, <1>8

\* A step of one handler keeps what every client gets exact.
LEMMA RequestStreams ==
  ASSUME TypeInv, TypeInv', StreamInv, Lossless, SubscriberInv, SubscriberInv', MutexWorks,
         NEW r \in Requests, UNCHANGED count, Request(r) \/ Relay(r)
  PROVE  StreamInv'
  <1> USE DEF writerVars, requestVars, Goto
  <1>1. UNCHANGED <<history, disk, writer, batch, cur>>
    BY DEF Request, Relay, RequestBegin, RequestTotal, RequestNoLine, RequestLock,
           RequestRead, RequestRegister, RequestCancelled, RequestCancel, RequestFetch,
           RequestClear
  <1>2. ASSUME NEW s \in Requests, s # r
        PROVE  /\ pc'[s] = pc[s] /\ k'[s] = k[s] /\ total'[s] = total[s]
               /\ index'[s] = index[s] /\ inbox'[s] = inbox[s] /\ taken'[s] = taken[s]
               /\ stream'[s] = stream[s]
    BY <1>2 DEF Request, Relay, RequestBegin, RequestTotal, RequestNoLine, RequestLock,
                RequestRead, RequestRegister, RequestCancelled, RequestCancel, RequestFetch,
                RequestClear, TypeInv, TypeOK
  <1>3. /\ subscribers \in Seq(Requests) /\ Len(subscribers) \in Nat
        /\ DOMAIN subscribers = 1..Len(subscribers)
        /\ Tiled /\ Publishing
    BY LenProperties DEF TypeInv, TypeOK, StreamInv
  <1>4. \/ UNCHANGED subscribers
        \/ /\ writer \notin {"account", "publish"}
           /\ \A s \in Requests : s # r /\ Listed(s)' => Listed(s)
    <2>1. CASE RequestRegister(r)
      <3>1. pc[r] = "read" /\ subscribers' = Append(subscribers, r)
        BY <2>1 DEF RequestRegister
      <3>2. /\ Len(subscribers') = Len(subscribers) + 1
            /\ \A i \in 1..Len(subscribers) : subscribers'[i] = subscribers[i]
            /\ subscribers'[Len(subscribers) + 1] = r
        BY <1>3, <3>1, AppendProperties
      <3>3. \A i \in 1..Len(subscribers') :
              i \in 1..Len(subscribers) \/ i = Len(subscribers) + 1
        BY <1>3, <3>2
      <3>4. \A s \in Requests : s # r /\ Listed(s)' => Listed(s)
        BY <3>2, <3>3 DEF Listed
      <3>. QED  BY <1>3, <3>1, <3>4 DEF Publishing
    <2>2. CASE RequestCancel(r)
      <3>1. writer \notin {"account", "publish"}
        BY <2>2 DEF RequestCancel, RequestUnlocked
      <3>2. ASSUME NEW i \in 1..Len(subscribers), subscribers' = RemoveAt(subscribers, i)
            PROVE  \A s \in Requests : Listed(s)' => Listed(s)
        <4>1. /\ Len(subscribers') = Len(subscribers) - 1
              /\ \A j \in 1..(Len(subscribers) - 1) :
                   subscribers'[j] = IF j < i THEN subscribers[j] ELSE subscribers[j + 1]
          BY <1>3, <3>2, RemovedElements
        <4>2. \A j \in 1..Len(subscribers') :
                j \in 1..Len(subscribers) /\ j + 1 \in 1..Len(subscribers)
          BY <1>3, <4>1
        <4>3. \A j \in 1..Len(subscribers') :
                subscribers'[j] = subscribers[j] \/ subscribers'[j] = subscribers[j + 1]
          BY <1>3, <4>1
        <4>. QED  BY <4>2, <4>3 DEF Listed
      <3>. QED  BY <1>3, <2>2, <3>1, <3>2 DEF RequestCancel
    <2>3. CASE ~RequestRegister(r) /\ ~RequestCancel(r)
      BY <2>3 DEF Request, Relay, RequestBegin, RequestTotal, RequestNoLine, RequestLock,
                  RequestRead, RequestCancelled, RequestFetch, RequestClear
    <2>. QED  BY <2>1, <2>2, <2>3
  <1>5. ASSUME NEW s \in Requests, s # r
        PROVE  TotalInv(s)' /\ ReadInv(s)' /\ CaughtUp(s)'
    BY <1>1, <1>2, <1>4, <1>5, HandlerStays
  <1>6. Tiled'
    BY <1>1, <1>3, TilesStay
  <1>7. Publishing'
    <2>1. ASSUME writer \in {"account", "publish"}
          PROVE  Publishing'
      <3>1. UNCHANGED subscribers
        BY <1>4, <2>1
      <3>2. pc'[r] # "read"
        <4>1. ~RequestLock(r) /\ ~RequestRead(r)
          BY <1>3, <2>1 DEF RequestLock, RequestRead, RequestUnlocked, Publishing
        <4>2. pc \in [Callers \cup Requests -> CallerPc \cup RequestPc] /\ pc[r] # "read"
          BY <1>3, <2>1 DEF TypeInv, TypeOK, Publishing
        <4>. QED  BY <4>1, <4>2 DEF Request, Relay, RequestBegin, RequestTotal, RequestNoLine,
                      RequestRegister, RequestCancelled, RequestCancel, RequestFetch,
                      RequestClear
      <3>3. \A s \in Requests : pc'[s] # "read"
        BY <1>2, <1>3, <2>1, <3>2 DEF Publishing
      <3>. QED  BY <1>1, <1>3, <2>1, <3>1, <3>3 DEF Publishing, CountsFrom
    <2>. QED  BY <1>1, <2>1 DEF Publishing
  <1>8. TotalInv(r)' /\ ReadInv(r)' /\ CaughtUp(r)'
    <2>1. CASE RequestRead(r)
      <3>1. pc'[r] = "read"
        BY <2>1 DEF RequestRead
      <3>2. ~Listed(r)'
        BY <3>1 DEF SubscriberInv, ListedInv, Listed, Listening
      <3>. QED  BY <2>1, <3>2, ReadStep DEF CaughtUp
    <2>2. CASE RequestCancelled(r)
      <3>1. /\ pc[r] = "stream" /\ pc'[r] = "cancel" /\ UNCHANGED requestVars
        BY <2>2 DEF RequestCancelled, TypeInv, TypeOK
      <3>. QED  BY <1>1, <3>1, HandlerStays
    <2>. QED  BY <2>1, <2>2, CountingStep, RelayStep DEF Request, Relay
  <1>. QED  BY <1>5, <1>6, <1>7, <1>8 DEF StreamInv

\* A step of the writer, or the start of its thread, away from the files and
\* the publish loop.
LEMMA QuietStep ==
  ASSUME TypeInv, StreamInv,
         UNCHANGED <<history, disk, count, requestVars>>,
         \A s \in Requests : pc'[s] = pc[s],
         writer # "account", writer = "publish" => cur = None,
         writer' \notin {"account", "publish"}
  PROVE  StreamInv'
  <1> USE DEF requestVars
  <1>1. Tiled'
    BY TilesStay DEF StreamInv
  <1>2. Publishing'
    BY DEF Publishing
  <1>3. ASSUME NEW s \in Requests
        PROVE  TotalInv(s)' /\ ReadInv(s)' /\ CaughtUp(s)'
    <2>1. TotalInv(s) /\ ReadInv(s) /\ CaughtUp(s) /\ pc'[s] = pc[s]
      BY DEF StreamInv
    <2>2. /\ StartLineIndex(s)' = StartLineIndex(s) /\ (InOneFile(s)' <=> InOneFile(s))
          /\ Delivered(s)' = Delivered(s) /\ (Listed(s)' <=> Listed(s))
          /\ End(k[s])' = End(k[s])
      BY DEF StartLineIndex, InOneFile, Delivered, End, Listed
    <2>3. ~Behind(s) /\ ~Behind(s)'
      BY DEF Behind
    <2>4. TotalInv(s)'
      BY <2>1, <2>2 DEF TotalInv
    <2>5. ReadInv(s)'
      BY <2>1, <2>2 DEF ReadInv, CountsFrom
    <2>6. CaughtUp(s)'
      BY <2>1, <2>2, <2>3 DEF CaughtUp, CountsFrom
    <2>. QED  BY <2>4, <2>5, <2>6
  <1>. QED  BY <1>1, <1>2, <1>3 DEF StreamInv

\* A new file: it is empty and begins where the log ends, so a handler is
\* still inside one file only if it reads everything.
LEMMA NameStep ==
  ASSUME TypeInv, StreamInv, UNCHANGED count, WriterName, ~file_name_
  PROVE  StreamInv'
  <1> USE DEF requestVars
  <1> DEFINE n == Len(history)
             e == [first |-> Len(disk), lines |-> 0, line_count |-> 0, exists |-> FALSE]
  <1>1. /\ writer = "name" /\ writer' = "write" /\ history' = Append(history, e)
        /\ UNCHANGED <<batch, cur, disk, pc, requestVars>>
    BY DEF WriterName
  <1>2. /\ history \in Seq(EntryType) /\ n \in Nat /\ Len(disk) \in Nat /\ e \in EntryType
        /\ e.first = Len(disk) /\ e.lines = 0 /\ e.line_count = 0
    BY FileTypes DEF TypeInv, TypeOK, EntryType
  <1>3. /\ Len(history') = n + 1 /\ history'[n + 1] = e
        /\ \A i \in 1..n : history'[i] = history[i]
    BY <1>1, <1>2, AppendProperties
  <1>4. \A i \in 1..(n + 1) : i \in 1..n \/ i = n + 1
    BY <1>2
  <1> HIDE DEF n, e
  <1> DEFINE newEnd(i) == IF i = 0 THEN 0 ELSE history'[i].first + history'[i].lines
  <1>5. \A i \in 0..n : newEnd(i) = End(i)
    <2>1. \A i \in 0..n : i = 0 \/ i \in 1..n
      BY <1>2
    <2>. QED  BY <1>3, <2>1 DEF End
  <1>6. newEnd(n + 1) = Len(disk)
    <2>1. n + 1 # 0 /\ Len(disk) + 0 = Len(disk)
      BY <1>2
    <2>. QED  BY <1>2, <1>3, <2>1
  <1>7. End(n) = Len(disk) /\ Tiled /\ \A i \in 0..n : End(i) \in Nat /\ End(i) <= Len(disk)
    BY FileTypes DEF StreamInv, Tiled, n
  <1>8. Tiled'
    <2>1. newEnd(Len(history')) = Len(disk)
      BY <1>3, <1>6
    <2>2. ASSUME NEW i \in 1..(n + 1)
          PROVE  history'[i].first = newEnd(i - 1)
      <3>1. CASE i \in 1..n
        <4>1. i - 1 \in 0..n
          BY <1>2, <3>1
        <4>2. history[i].first = End(i - 1)
          BY <1>7, <3>1 DEF Tiled, n
        <4>. QED  BY <1>3, <1>5, <3>1, <4>1, <4>2
      <3>2. CASE i = n + 1
        <4>1. i - 1 = n /\ n \in 0..n
          BY <1>2, <3>2
        <4>. QED  BY <1>2, <1>3, <1>5, <1>7, <3>2, <4>1
      <3>. QED  BY <1>4, <3>1, <3>2
    <2>3. ASSUME NEW i \in 1..(n + 1), NEW j \in 1..(n + 1), i < j
          PROVE  newEnd(i) <= history'[j].first
      <3>1. i \in 1..n /\ i \in 0..n
        BY <1>2, <2>3
      <3>2. CASE j \in 1..n
        <4>1. End(i) <= history[j].first
          BY <1>7, <2>3, <3>1, <3>2 DEF Tiled, n
        <4>. QED  BY <1>3, <1>5, <3>1, <3>2, <4>1
      <3>3. CASE j = n + 1
        BY <1>2, <1>3, <1>5, <1>7, <3>1, <3>3
      <3>. QED  BY <1>4, <3>2, <3>3
    <2>4. ASSUME NEW i \in 1..(n + 1)
          PROVE  /\ history'[i].lines > 0 => history'[i].exists
                 /\ history'[i].lines = history'[i].line_count + 0
      <3>1. CASE i \in 1..n
        <4>1. history[i].lines > 0 => history[i].exists
          BY <1>7, <3>1 DEF Tiled, n
        <4>2. history[i].lines = history[i].line_count + 0
          BY <1>1, <1>7, <3>1 DEF Tiled, n
        <4>. QED  BY <1>3, <3>1, <4>1, <4>2
      <3>2. CASE i = n + 1
        BY <1>2, <1>3, <3>2
      <3>. QED  BY <1>4, <3>1, <3>2
    <2>5. \A i \in 1..(n + 1) : history'[i].lines = history'[i].line_count
            + IF writer' = "account" /\ i = Len(history') THEN Len(batch') ELSE 0
      BY <1>1, <2>4
    <2>. QED  BY <1>1, <1>3, <2>1, <2>2, <2>3, <2>4, <2>5 DEF Tiled, End
  <1>9. Publishing'
    BY <1>1 DEF Publishing
  <1>10. ASSUME NEW s \in Requests
         PROVE  TotalInv(s)' /\ ReadInv(s)' /\ CaughtUp(s)'
    <2>1. TotalInv(s) /\ ReadInv(s) /\ CaughtUp(s)
      BY DEF StreamInv
    <2>2. k[s] \in Nat /\ total[s] \in Nat /\ StartLineIndex(s) \in Nat
            /\ (total[s] > 0 => StartLineIndex(s) < total[s])
      BY HandlerTypes
    <2>3. k[s] \in 0..n /\ k[s] <= n /\ total[s] <= Len(disk)
      BY <1>2, <2>1, <2>2 DEF TotalInv, n
    <2>4. End(k[s])' = End(k[s])
      BY <1>1, <1>5, <2>3 DEF End
    <2>5. /\ StartLineIndex(s)' = StartLineIndex(s)
          /\ Delivered(s)' = Delivered(s) /\ (Listed(s)' <=> Listed(s))
      BY <1>1 DEF StartLineIndex, Delivered, Listed
    <2>6. ~Behind(s) /\ ~Behind(s)'
      BY <1>1 DEF Behind
    <2>7. TotalInv(s)'
      <3>1. k'[s] <= Len(history')
        BY <1>1, <1>2, <1>3, <2>2, <2>3
      <3>. QED  BY <1>1, <2>1, <2>4, <2>5, <3>1 DEF TotalInv
    <2>8. ASSUME InOneFile(s)', total[s] > 0
          PROVE  StartLineIndex(s) = 0 /\ InOneFile(s)
      <3>1. Last(history)' = e
        BY <1>3 DEF Last
      <3>2. StartLineIndex(s) = 0 \/ StartLineIndex(s) > Len(disk)
        BY <1>2, <2>5, <2>8, <3>1 DEF InOneFile
      <3>3. StartLineIndex(s) = 0
        BY <1>2, <2>2, <2>3, <2>8, <3>2
      <3>. QED  BY <3>3 DEF InOneFile
    <2>9. ReadInv(s)'
      <3> SUFFICES ASSUME pc[s] = "read", InOneFile(s)'
                   PROVE  /\ CountsFrom(stream[s], 0) /\ Len(stream[s]) = End(k[s])
                          /\ StartLineIndex(s) = 0
        BY <1>1, <2>4, <2>5 DEF ReadInv, CountsFrom
      <3>1. total[s] > 0
        BY <2>1 DEF TotalInv
      <3>. QED  BY <2>1, <2>8, <3>1 DEF ReadInv
    <2>10. CaughtUp(s)'
      <3> SUFFICES ASSUME Listed(s), InOneFile(s)'
                   PROVE  /\ CountsFrom(Delivered(s), StartLineIndex(s))
                          /\ Len(Delivered(s)) + StartLineIndex(s) + 0 = Len(disk)
        BY <1>1, <2>5, <2>6 DEF CaughtUp, CountsFrom
      <3>1. total[s] > 0
        BY <2>1 DEF TotalInv
      <3>. QED  BY <2>1, <2>6, <2>8, <3>1 DEF CaughtUp
    <2>. QED  BY <2>7, <2>9, <2>10
  <1>. QED  BY <1>8, <1>9, <1>10 DEF StreamInv

\* The fields of the history before and after an update of its last entry.
LEMMA LastFields ==
  ASSUME TypeInv, history # <<>>, NEW x \in Nat
  PROVE  LET n == Len(history)
             w == [history EXCEPT ![n].lines = x, ![n].exists = TRUE]
             a == [history EXCEPT ![n].line_count = x]
         IN  /\ n \in 1..n /\ Len(w) = n /\ Len(a) = n
             /\ \A i \in 1..n : /\ w[i].first = history[i].first
                                 /\ w[i].line_count = history[i].line_count
                                 /\ a[i].first = history[i].first
                                 /\ a[i].lines = history[i].lines
             /\ \A i \in 1..n : i # n => /\ w[i].lines = history[i].lines
                                          /\ a[i].line_count = history[i].line_count
             /\ w[n].lines = x /\ a[n].line_count = x
             /\ \A i \in 1..n : (history[i].exists \/ i = n => w[i].exists)
                                /\ (history[i].exists => a[i].exists)
  <1> DEFINE n == Len(history)
  <1>1. /\ history \in Seq(EntryType) /\ n \in Nat /\ n \in 1..n
        /\ DOMAIN history = 1..n /\ history[n] \in EntryType
    BY LastEntry, FileTypes DEF TypeInv, TypeOK
  <1> DEFINE we == [history[n] EXCEPT !.lines = x, !.exists = TRUE]
             ae == [history[n] EXCEPT !.line_count = x]
             w == [history EXCEPT ![n].lines = x, ![n].exists = TRUE]
             a == [history EXCEPT ![n].line_count = x]
  <1>2. /\ we \in EntryType /\ ae \in EntryType
        /\ we.first = history[n].first /\ we.line_count = history[n].line_count
        /\ we.lines = x /\ we.exists = TRUE
        /\ ae.first = history[n].first /\ ae.lines = history[n].lines
        /\ ae.exists = history[n].exists /\ ae.line_count = x
    BY <1>1 DEF EntryType
  <1>3. w = [history EXCEPT ![n] = we] /\ a = [history EXCEPT ![n] = ae]
    BY <1>1
  <1> HIDE DEF we, ae, w, a
  <1>4. Len(w) = n /\ Len(a) = n
    BY <1>1, <1>2, <1>3, LastEntry
  <1>5. \A i \in 1..n : /\ w[i] = IF i = n THEN we ELSE history[i]
                        /\ a[i] = IF i = n THEN ae ELSE history[i]
    BY <1>1, <1>3
  <1>6. /\ \A i \in 1..n : /\ w[i].first = history[i].first
                            /\ w[i].line_count = history[i].line_count
                            /\ a[i].first = history[i].first
                            /\ a[i].lines = history[i].lines
        /\ \A i \in 1..n : i # n => /\ w[i].lines = history[i].lines
                                     /\ a[i].line_count = history[i].line_count
        /\ w[n].lines = x /\ a[n].line_count = x
    BY <1>1, <1>2, <1>5
  <1>7. \A i \in 1..n : (history[i].exists \/ i = n => w[i].exists)
                        /\ (history[i].exists => a[i].exists)
    BY <1>1, <1>2, <1>5
  <1>. QED  BY <1>1, <1>4, <1>6, <1>7 DEF w, a

\* The batch goes to the last file: registered clients fall behind by it.
LEMMA WriteStep ==
  ASSUME TypeInv, StreamInv, Lossless, MutexWorks, ~OpenMayFail, UNCHANGED count, WriterWrite
  PROVE  StreamInv'
  <1> USE DEF requestVars
  <1> DEFINE n == Len(history)
             size == history[n].lines + Len(batch)
  <1>1. /\ writer = "write" /\ writer' = "account"
        /\ disk' = disk \o batch
        /\ history' = [history EXCEPT ![n].lines = size, ![n].exists = TRUE]
        /\ UNCHANGED <<batch, cur, pc, requestVars>>
        /\ \A s \in Requests : pc[s] # "read"
    BY DEF WriterWrite, RequestUnlocked
  <1>2. /\ n \in Nat /\ Len(disk) \in Nat /\ Len(batch) \in Nat /\ history # <<>>
        /\ disk \in Seq(Nat) /\ batch \in Seq(Nat) /\ n \in 1..n
        /\ history[n].first \in Nat /\ history[n].lines \in Nat /\ size \in Nat
    <2>1. n \in Nat /\ Len(disk) \in Nat /\ Len(batch) \in Nat /\ history # <<>>
          /\ disk \in Seq(Nat) /\ batch \in Seq(Nat)
      BY <1>1, FileTypes DEF TypeInv, TypeOK, HistoryOK
    <2>2. n \in 1..n
      BY <2>1, LastEntry, FileTypes
    <2>3. history[n].first \in Nat /\ history[n].lines \in Nat
      BY <2>2, FileTypes
    <2>. QED  BY <2>1, <2>2, <2>3
  <1> HIDE DEF size
  <1>3. /\ Len(history') = n /\ history'[n].lines = size
        /\ \A i \in 1..n : /\ history'[i].first = history[i].first
                            /\ history'[i].line_count = history[i].line_count
        /\ \A i \in 1..n : i # n => history'[i].lines = history[i].lines
    BY <1>1, <1>2, LastFields
  <1>0. \A i \in 1..n : history[i].exists \/ i = n => history'[i].exists
    BY <1>1, <1>2, LastFields
  <1> HIDE DEF n
  <1>4. Len(disk') = Len(disk) + Len(batch)
    BY <1>1, <1>2, ConcatProperties
  <1> DEFINE newEnd(i) == IF i = 0 THEN 0 ELSE history'[i].first + history'[i].lines
  <1>5. /\ Tiled /\ End(n) = Len(disk) /\ End(n) = history[n].first + history[n].lines
        /\ \A i \in 0..n : End(i) \in Nat /\ End(i) <= Len(disk)
        /\ \A i \in 1..n : history[i].first \in Nat /\ history[i].line_count \in Nat
                            /\ history[i].lines \in Nat
    BY <1>2, FileTypes DEF StreamInv, Tiled, n
  <1>6. \A i \in 0..n : i # n => newEnd(i) = End(i)
    <2>1. \A i \in 0..n : i = 0 \/ i \in 1..n
      BY <1>2
    <2>. QED  BY <1>3, <2>1 DEF End
  <1>7. newEnd(n) = Len(disk')
    <2>1. n # 0 /\ newEnd(n) = history[n].first + size
      BY <1>2, <1>3
    <2>2. history[n].first + size = (history[n].first + history[n].lines) + Len(batch)
      BY <1>2 DEF size
    <2>. QED  BY <1>4, <1>5, <2>1, <2>2
  <1>8. Tiled'
    <2>1. ASSUME NEW i \in 1..n
          PROVE  history'[i].first = newEnd(i - 1)
      <3>1. i - 1 \in 0..n /\ i - 1 # n
        BY <1>2
      <3>2. history[i].first = End(i - 1)
        BY <1>5 DEF Tiled, n
      <3>. QED  BY <1>3, <1>6, <3>1, <3>2
    <2>2. ASSUME NEW i \in 1..n, NEW j \in 1..n, i < j
          PROVE  newEnd(i) <= history'[j].first
      <3>1. i # n /\ i \in 0..n
        BY <1>2, <2>2
      <3>2. End(i) <= history[j].first
        BY <1>5, <2>2 DEF Tiled, n
      <3>. QED  BY <1>3, <1>6, <3>1, <3>2
    <2>3. ASSUME NEW i \in 1..n
          PROVE  history'[i].lines > 0 => history'[i].exists
      <3>1. history[i].lines > 0 => history[i].exists
        BY <1>5 DEF Tiled, n
      <3>2. i # n => history'[i].lines = history[i].lines
        BY <1>3
      <3>. QED  BY <1>0, <3>1, <3>2
    <2>4. ASSUME NEW i \in 1..n
          PROVE  history'[i].lines = history'[i].line_count
                   + IF i = n THEN Len(batch) ELSE 0
      <3>1. history[i].lines = history[i].line_count + 0
        BY <1>1, <1>5 DEF Tiled, n
      <3>2. history[i].lines = history[i].line_count
        BY <1>5, <3>1
      <3>3. CASE i = n
        BY <1>2, <1>3, <1>5, <3>2, <3>3 DEF size
      <3>4. CASE i # n
        BY <1>3, <3>1, <3>4
      <3>. QED  BY <3>3, <3>4
    <2>. QED  BY <1>1, <1>3, <1>7, <2>1, <2>2, <2>3, <2>4 DEF Tiled, End
  <1>9. Publishing'
    <2>1. CountsFrom(batch, Len(disk))
      BY <1>1 DEF Lossless, Pending
    <2>2. Len(batch) <= Len(disk') /\ Len(disk') - Len(batch) = Len(disk)
      BY <1>2, <1>4
    <2>3. CountsFrom(batch, Len(disk') - Len(batch))
      BY <2>1, <2>2
    <2>. QED  BY <1>1, <2>2, <2>3 DEF Publishing, CountsFrom
  <1>10. ASSUME NEW s \in Requests
         PROVE  TotalInv(s)' /\ ReadInv(s)' /\ CaughtUp(s)'
    <2>1. TotalInv(s) /\ ReadInv(s) /\ CaughtUp(s) /\ pc[s] # "read"
      BY <1>1 DEF StreamInv
    <2>2. /\ k[s] \in Nat /\ total[s] \in Nat /\ StartLineIndex(s) \in Nat
          /\ Len(Delivered(s)) \in Nat
      BY HandlerTypes, LenProperties
    <2>3. k[s] \in 0..n /\ k[s] <= n /\ total[s] <= Len(disk)
      BY <1>2, <2>1, <2>2 DEF TotalInv, n
    <2>4. End(k[s])' = newEnd(k[s])
      BY <1>1 DEF End
    <2>5. End(k[s]) <= newEnd(k[s]) /\ newEnd(k[s]) \in Nat
      <3>1. CASE k[s] = n
        BY <1>2, <1>4, <1>5, <1>7, <3>1
      <3>2. CASE k[s] # n
        BY <1>5, <1>6, <2>3, <3>2
      <3>. QED  BY <3>1, <3>2
    <2>6. /\ StartLineIndex(s)' = StartLineIndex(s) /\ Delivered(s)' = Delivered(s)
          /\ (Listed(s)' <=> Listed(s))
      BY <1>1 DEF StartLineIndex, Delivered, Listed
    <2>7. InOneFile(s)' <=> InOneFile(s)
      <3>1. Last(history)'.first = Last(history).first
        BY <1>2, <1>3 DEF Last, n
      <3>. QED  BY <2>6, <3>1 DEF InOneFile
    <2>8. ~Behind(s) /\ Behind(s)'
      BY <1>1 DEF Behind
    <2> HIDE DEF newEnd
    <2>9. TotalInv(s)'
      <3>1. total[s] <= Len(disk')
        BY <1>2, <1>4, <2>2, <2>3
      <3>2. total[s] <= End(k[s]) => total[s] <= newEnd(k[s])
        BY <1>5, <2>2, <2>3, <2>5
      <3>. QED  BY <1>1, <1>3, <2>1, <2>3, <2>4, <2>6, <3>1, <3>2 DEF TotalInv, n
    <2>10. ReadInv(s)'
      BY <1>1 DEF ReadInv
    <2>11. CaughtUp(s)'
      <3>1. ASSUME Len(Delivered(s)) + StartLineIndex(s) + 0 = Len(disk)
            PROVE  Len(Delivered(s)) + StartLineIndex(s) + Len(batch) = Len(disk')
        BY <1>2, <1>4, <2>2, <3>1
      <3>. QED  BY <1>1, <2>1, <2>6, <2>7, <2>8, <3>1 DEF CaughtUp, CountsFrom
    <2>. QED  BY <2>9, <2>10, <2>11
  <1>. QED  BY <1>8, <1>9, <1>10 DEF StreamInv

\* The line count catches up, and the publish loop begins at the first
\* subscriber: every registered client is ahead of it.
LEMMA AccountStep ==
  ASSUME TypeInv, StreamInv, UNCHANGED count, WriterAccount
  PROVE  StreamInv'
  <1> USE DEF requestVars
  <1> DEFINE n == Len(history)
             size == history[n].line_count + Len(batch)
  <1>1. /\ writer = "account" /\ writer' = "publish"
        /\ history' = [history EXCEPT ![n].line_count = @ + Len(batch)]
        /\ cur' = IF subscribers = <<>> THEN None ELSE Head(subscribers)
        /\ UNCHANGED <<batch, disk, pc, requestVars>>
    BY DEF WriterAccount
  <1>2. /\ n \in Nat /\ Len(disk) \in Nat /\ Len(batch) \in Nat /\ history # <<>>
        /\ n \in 1..n /\ history[n].line_count \in Nat /\ size \in Nat
        /\ history \in Seq(EntryType)
    <2>1. n \in Nat /\ Len(disk) \in Nat /\ Len(batch) \in Nat /\ history # <<>>
          /\ history \in Seq(EntryType)
      BY <1>1, FileTypes DEF TypeInv, TypeOK, HistoryOK
    <2>2. n \in 1..n
      BY <2>1, LastEntry, FileTypes
    <2>3. history[n].line_count \in Nat
      BY <2>2, FileTypes
    <2>. QED  BY <2>1, <2>2, <2>3
  <1>3. history' = [history EXCEPT ![n].line_count = size]
    BY <1>1
  <1> HIDE DEF size
  <1>4. /\ Len(history') = n /\ history'[n].line_count = size
        /\ \A i \in 1..n : /\ history'[i].first = history[i].first
                            /\ history'[i].lines = history[i].lines
        /\ \A i \in 1..n : i # n => history'[i].line_count = history[i].line_count
    BY <1>2, <1>3, LastFields
  <1>0. \A i \in 1..n : history[i].exists => history'[i].exists
    BY <1>2, <1>3, LastFields
  <1> HIDE DEF n
  <1> DEFINE newEnd(i) == IF i = 0 THEN 0 ELSE history'[i].first + history'[i].lines
  <1>5. Tiled /\ Publishing /\ \A i \in 1..n : history[i].line_count \in Nat
    BY FileTypes DEF StreamInv, n
  <1>6. \A i \in 0..n : newEnd(i) = End(i)
    <2>1. \A i \in 0..n : i = 0 \/ i \in 1..n
      BY <1>2
    <2>. QED  BY <1>4, <2>1 DEF End
  <1>7. Tiled'
    <2>1. newEnd(n) = Len(disk)
      <3>1. n \in 0..n
        BY <1>2
      <3>. QED  BY <1>5, <1>6, <3>1 DEF Tiled, n
    <2>2. ASSUME NEW i \in 1..n
          PROVE  history'[i].first = newEnd(i - 1)
      <3>1. i - 1 \in 0..n
        BY <1>2
      <3>2. history[i].first = End(i - 1)
        BY <1>5 DEF Tiled, n
      <3>. QED  BY <1>4, <1>6, <3>1, <3>2
    <2>3. ASSUME NEW i \in 1..n, NEW j \in 1..n, i < j
          PROVE  newEnd(i) <= history'[j].first
      <3>1. i \in 0..n
        BY <1>2
      <3>2. End(i) <= history[j].first
        BY <1>5, <2>3 DEF Tiled, n
      <3>. QED  BY <1>4, <1>6, <3>1, <3>2
    <2>4. ASSUME NEW i \in 1..n
          PROVE  history'[i].lines > 0 => history'[i].exists
      <3>1. history[i].lines > 0 => history[i].exists
        BY <1>5 DEF Tiled, n
      <3>2. history'[i].lines = history[i].lines
        BY <1>4
      <3>. QED  BY <1>0, <3>1, <3>2
    <2>5. ASSUME NEW i \in 1..n
          PROVE  history'[i].lines = history'[i].line_count + 0
      <3>1. history[i].lines = history[i].line_count + IF i = n THEN Len(batch) ELSE 0
        BY <1>1, <1>5 DEF Tiled, n
      <3>2. CASE i = n
        <4>1. history[i].lines = size /\ size + 0 = size
          BY <1>2, <3>1, <3>2 DEF size
        <4>. QED  BY <1>4, <3>2, <4>1
      <3>3. CASE i # n
        BY <1>4, <3>1, <3>3
      <3>. QED  BY <3>2, <3>3
    <2>. QED  BY <1>1, <1>4, <2>1, <2>2, <2>3, <2>4, <2>5 DEF Tiled, End
  <1>8. /\ subscribers \in Seq(Requests) /\ Len(subscribers) \in Nat
        /\ \A i \in 1..Len(subscribers) : subscribers[i] \in Requests
    BY LenProperties, ElementOfSeq DEF TypeInv, TypeOK
  <1>9. subscribers # <<>> => /\ cur' = subscribers[1] /\ 1 \in 1..Len(subscribers)
                              /\ cur' # None
    <2>1. ASSUME subscribers # <<>>
          PROVE  cur' = subscribers[1] /\ 1 \in 1..Len(subscribers)
      BY <1>1, <1>8, <2>1, EmptySeq
    <2>. QED  BY <1>8, <2>1, LoggerAssumption DEF LoggerAssumption
  <1>10. Publishing'
    BY <1>1, <1>5, <1>9 DEF Publishing, CountsFrom
  <1>11. ASSUME NEW s \in Requests
         PROVE  TotalInv(s)' /\ ReadInv(s)' /\ CaughtUp(s)'
    <2>1. TotalInv(s) /\ ReadInv(s) /\ CaughtUp(s) /\ pc[s] # "read"
      BY <1>1, <1>5 DEF StreamInv, Publishing
    <2>2. k[s] \in 0..n
      <3>1. k[s] \in Nat /\ k[s] <= n
        BY <2>1, HandlerTypes DEF TotalInv, n
      <3>. QED  BY <1>2, <3>1
    <2>3. End(k[s])' = End(k[s])
      BY <1>1, <1>6, <2>2 DEF End
    <2>4. /\ StartLineIndex(s)' = StartLineIndex(s) /\ Delivered(s)' = Delivered(s)
          /\ (Listed(s)' <=> Listed(s))
      BY <1>1 DEF StartLineIndex, Delivered, Listed
    <2>5. InOneFile(s)' <=> InOneFile(s)
      <3>1. Last(history)'.first = Last(history).first
        BY <1>2, <1>4 DEF Last, n
      <3>. QED  BY <2>4, <3>1 DEF InOneFile
    <2>6. Listed(s) => Behind(s) /\ Behind(s)'
      <3> SUFFICES ASSUME NEW j \in 1..Len(subscribers), subscribers[j] = s
                   PROVE  Behind(s) /\ Behind(s)'
        BY DEF Listed
      <3>1. subscribers # <<>>
        BY <1>8
      <3>2. 1 <= j
        BY <1>8
      <3>. QED  BY <1>1, <1>9, <3>1, <3>2 DEF Behind
    <2>7. TotalInv(s)'
      BY <1>1, <1>4, <2>1, <2>3, <2>4 DEF TotalInv, n
    <2>8. ReadInv(s)'
      BY <1>1, <2>1 DEF ReadInv
    <2>9. CaughtUp(s)'
      BY <1>1, <2>1, <2>4, <2>5, <2>6 DEF CaughtUp, CountsFrom
    <2>. QED  BY <2>7, <2>8, <2>9
  <1>. QED  BY <1>7, <1>10, <1>11 DEF StreamInv

\* Three pieces of a stream, joined in either order.
LEMMA ConcatThree ==
  ASSUME NEW a \in Seq(Nat), NEW b \in Seq(Nat), NEW c \in Seq(Nat)
  PROVE  (a \o b) \o c = a \o (b \o c)
  <1>1. /\ a \o b \in Seq(Nat) /\ b \o c \in Seq(Nat)
        /\ (a \o b) \o c \in Seq(Nat) /\ a \o (b \o c) \in Seq(Nat)
    BY ConcatProperties
  <1>. QED  BY <1>1, ConcatAssociative, SMT

\* The publish loop hands the batch to the subscriber it has reached.
LEMMA UpdateStep ==
  ASSUME TypeInv, StreamInv, SubscriberInv, MutexWorks, UNCHANGED count, WriterUpdate
  PROVE  StreamInv'
  <1> DEFINE i == CHOOSE j \in DOMAIN subscribers : subscribers[j] = cur
  <1>1. /\ writer = "publish" /\ cur # None /\ InboxUnlocked(cur)
        /\ \E j \in DOMAIN subscribers : subscribers[j] = cur
        /\ inbox' = [inbox EXCEPT ![cur] = @ \o batch]
        /\ cur' = NextSubscriber(cur)
        /\ UNCHANGED <<writer, batch, history, disk, pc, subscribers, k, total, index,
                       taken, stream>>
    BY DEF WriterUpdate
  <1>2. i \in DOMAIN subscribers /\ subscribers[i] = cur
    BY <1>1, Zenon
  <1>3. cur' = IF i = Len(subscribers) THEN None ELSE subscribers[i + 1]
    BY <1>1 DEF NextSubscriber
  <1> HIDE DEF i
  <1>4. /\ subscribers \in Seq(Requests) /\ Len(subscribers) \in Nat
        /\ DOMAIN subscribers = 1..Len(subscribers) /\ i \in 1..Len(subscribers)
        /\ \A j \in 1..Len(subscribers) : subscribers[j] \in Requests
        /\ \A j, m \in 1..Len(subscribers) : subscribers[j] = subscribers[m] => j = m
        /\ cur \in Requests /\ pc[cur] \in Listening /\ inbox \in [Requests -> Seq(Nat)]
        /\ batch \in Seq(Nat) /\ Len(batch) \in Nat /\ Len(disk) \in Nat
    <2>1. /\ subscribers \in Seq(Requests) /\ Len(subscribers) \in Nat
          /\ DOMAIN subscribers = 1..Len(subscribers)
          /\ \A j \in 1..Len(subscribers) : subscribers[j] \in Requests
      BY LenProperties, ElementOfSeq DEF TypeInv, TypeOK
    <2>2. /\ \A j, m \in 1..Len(subscribers) : subscribers[j] = subscribers[m] => j = m
          /\ \A j \in 1..Len(subscribers) : pc[subscribers[j]] \in Listening
      BY DEF SubscriberInv, ListedInv
    <2>. QED  BY <1>2, <2>1, <2>2, FileTypes DEF TypeInv, TypeOK
  <1>5. i \in 1..Len(subscribers) /\ Len(subscribers) \in Nat /\ i \in Nat
    BY <1>4
  <1>6. Len(batch) \in Nat /\ Len(disk) \in Nat /\ batch \in Seq(Nat)
    BY <1>4
  <1>7. /\ inbox'[cur] = inbox[cur] \o batch
        /\ \A s \in Requests : s # cur => inbox'[s] = inbox[s]
    BY <1>1, <1>4
  <1>8. /\ i = Len(subscribers) => cur' = None
        /\ i # Len(subscribers) => /\ i + 1 \in 1..Len(subscribers)
                                   /\ cur' = subscribers[i + 1] /\ cur' # None
    <2>1. i # Len(subscribers) => i + 1 \in 1..Len(subscribers)
      BY <1>5
    <2>. QED  BY <1>3, <1>4, <2>1, LoggerAssumption DEF LoggerAssumption
  <1>9. Tiled /\ Publishing /\ Tiled'
    BY <1>1, TilesStay DEF StreamInv
  <1>10. Publishing'
    BY <1>1, <1>8, <1>9 DEF Publishing, CountsFrom
  <1>11. ASSUME NEW s \in Requests
        PROVE  TotalInv(s)' /\ ReadInv(s)' /\ CaughtUp(s)'
    <2>1. TotalInv(s) /\ CaughtUp(s) /\ pc[s] # "read"
      BY <1>1, <1>9 DEF StreamInv, Publishing
    <2>2. /\ StartLineIndex(s)' = StartLineIndex(s) /\ (InOneFile(s)' <=> InOneFile(s))
          /\ (Listed(s)' <=> Listed(s)) /\ End(k[s])' = End(k[s])
      BY <1>1 DEF StartLineIndex, InOneFile, Listed, End
    <2>3. ReadInv(s)'
      BY <1>1, <2>1 DEF ReadInv
    <2>4. CASE s # cur
      <3>1. inbox'[s] = inbox[s] /\ Delivered(s)' = Delivered(s)
        BY <1>1, <1>7, <2>4 DEF Delivered
      <3>2. TotalInv(s)'
        BY <1>1, <2>1, <2>2, <3>1 DEF TotalInv
      <3>3. Listed(s) => (Behind(s)' <=> Behind(s))
        <4> SUFFICES ASSUME NEW j \in 1..Len(subscribers), subscribers[j] = s
                     PROVE  Behind(s)' <=> Behind(s)
          BY DEF Listed
        <4>1. i # j
          BY <1>2, <2>4
        <4>2. Behind(s) <=> i <= j
          BY <1>1, <1>2, <1>4 DEF Behind
        <4>3. CASE i = Len(subscribers)
          <5>1. ~Behind(s)'
            BY <1>1, <1>8, <4>3 DEF Behind
          <5>2. ~(i <= j)
            BY <1>5, <4>1, <4>3
          <5>. QED  BY <4>2, <5>1, <5>2
        <4>4. CASE i # Len(subscribers)
          <5>1. Behind(s)' <=> i + 1 <= j
            BY <1>1, <1>4, <1>8, <4>4 DEF Behind
          <5>2. i + 1 <= j <=> i <= j
            BY <1>5, <4>1
          <5>. QED  BY <4>2, <5>1, <5>2
        <4>. QED  BY <4>3, <4>4
      <3>4. CaughtUp(s)'
        BY <1>1, <2>1, <2>2, <3>1, <3>3 DEF CaughtUp, CountsFrom
      <3>. QED  BY <2>3, <3>2, <3>4
    <2>5. CASE s = cur
      <3>1. pc[s] \in Listening /\ pc[s] # "clear"
        BY <1>1, <1>4, <2>5 DEF InboxUnlocked
      <3>2. TotalInv(s)'
        BY <1>1, <2>1, <2>2, <3>1 DEF TotalInv, Listening
      <3>3. Behind(s)
        BY <1>1, <1>2, <1>4, <2>5 DEF Behind
      <3>4. ~Behind(s)'
        <4>1. CASE i = Len(subscribers)
          BY <1>1, <1>8, <4>1 DEF Behind
        <4>2. CASE i # Len(subscribers)
          <5>1. \A j \in 1..Len(subscribers) : subscribers[j] = s => j = i
            BY <1>2, <1>4, <2>5
          <5>2. \A j \in 1..Len(subscribers) : subscribers[j] = cur' => j = i + 1
            BY <1>4, <1>8, <4>2
          <5>3. ~(i + 1 <= i)
            BY <1>5
          <5>. QED  BY <1>1, <5>1, <5>2, <5>3 DEF Behind
        <4>. QED  BY <4>1, <4>2
      <3>5. /\ stream[s] \in Seq(Nat) /\ inbox[s] \in Seq(Nat) /\ Delivered(s) \in Seq(Nat)
            /\ StartLineIndex(s) \in Nat /\ Len(Delivered(s)) \in Nat
        BY HandlerTypes, LenProperties
      <3>6. Delivered(s)' = Delivered(s) \o batch
        <4>1. stream[s] \o (inbox[s] \o batch) = (stream[s] \o inbox[s]) \o batch
          BY <1>6, <3>5, ConcatThree, Zenon
        <4>. QED  BY <1>1, <1>7, <2>5, <4>1 DEF Delivered
      <3>7. Len(batch) <= Len(disk) /\ CountsFrom(batch, Len(disk) - Len(batch))
        BY <1>1, <1>9 DEF Publishing
      <3>8. ASSUME Listed(s), InOneFile(s)
            PROVE  /\ CountsFrom(Delivered(s) \o batch, StartLineIndex(s))
                   /\ Len(Delivered(s) \o batch) + StartLineIndex(s) + 0 = Len(disk)
        <4>1. /\ CountsFrom(Delivered(s), StartLineIndex(s))
              /\ Len(Delivered(s)) + StartLineIndex(s) + Len(batch) = Len(disk)
          BY <2>1, <3>3, <3>8 DEF CaughtUp
        <4>2. Len(disk) - Len(batch) = StartLineIndex(s) + Len(Delivered(s))
          <5>1. \A x, y, z, d \in Nat : x + y + z = d => d - z = y + x
            OBVIOUS
          <5>. QED  BY <1>6, <3>5, <4>1, <5>1, Zenon
        <4>3. /\ CountsFrom(Delivered(s) \o batch, StartLineIndex(s))
              /\ Len(Delivered(s) \o batch) = Len(Delivered(s)) + Len(batch)
          BY <1>6, <3>5, <3>7, <4>1, <4>2, ConcatCounts
        <4>. QED  BY <1>6, <3>5, <4>1, <4>3
      <3>9. CaughtUp(s)'
        BY <1>1, <2>2, <3>4, <3>6, <3>8 DEF CaughtUp
      <3>. QED  BY <2>3, <3>2, <3>9
    <2>. QED  BY <2>4, <2>5
  <1>. QED  BY <1>9, <1>10, <1>11 DEF StreamInv

\* The steps of the writer together.
LEMMA WriterStreams ==
  ASSUME TypeInv, StreamInv, Lossless, SubscriberInv, MutexWorks, ~OpenMayFail,
         UNCHANGED count, Writer
  PROVE  StreamInv'
  <1> USE DEF requestVars
  <1>1. CASE WriterAssign \/ WriterClear \/ WriterDone \/ WriterExit
    <2>1. /\ UNCHANGED <<history, disk, count, requestVars, pc>>
          /\ writer # "account" /\ (writer = "publish" => cur = None)
          /\ writer' \notin {"account", "publish"}
      BY <1>1 DEF WriterAssign, WriterClear, WriterDone, WriterExit
    <2>. QED  BY <2>1, QuietStep
  <1>2. CASE WriterName
    <2>1. CASE file_name_
      <3>1. /\ UNCHANGED <<history, disk, count, requestVars, pc>>
            /\ writer = "name" /\ writer' = "write"
        BY <1>2, <2>1 DEF WriterName
      <3>. QED  BY <3>1, QuietStep
    <2>2. CASE ~file_name_
      BY <1>2, <2>2, NameStep
    <2>. QED  BY <2>1, <2>2
  <1>3. CASE WriterDangling
    <2>1. FALSE
      <3>1. DOMAIN subscribers = 1..Len(subscribers)
        BY LenProperties DEF TypeInv, TypeOK
      <3>. QED  BY <1>3, <3>1 DEF WriterDangling, StreamInv, Publishing
    <2>. QED  BY <2>1
  <1>. QED  BY <1>1, <1>2, <1>3, WriteStep, AccountStep, UpdateStep DEF Writer

\* The steps of the threads that log.
LEMMA CallerStreams ==
  ASSUME TypeInv, StreamInv, NEW c \in Callers, UNCHANGED count,
         Log(c) \/ Fatal(c) \/ FatalStep(c)
  PROVE  StreamInv'
  <1>1. /\ UNCHANGED <<history, disk, writer, batch, cur, requestVars>>
        /\ UNCHANGED pc \/ \E to : pc' = [pc EXCEPT ![c] = to]
    BY DEF Log, Fatal, FatalStep, FatalSeesEmpty, Stop, Join, Joined, Exit, Goto, writerVars
  <1>2. \A s \in Requests : pc'[s] = pc[s]
    BY <1>1, LoggerAssumption DEF LoggerAssumption, TypeInv, TypeOK
  <1>3. Tiled'
    BY <1>1, TilesStay DEF StreamInv
  <1>4. Publishing'
    BY <1>1, <1>2 DEF StreamInv, Publishing, CountsFrom, requestVars
  <1>5. ASSUME NEW s \in Requests
        PROVE  TotalInv(s)' /\ ReadInv(s)' /\ CaughtUp(s)'
    BY <1>1, <1>2, HandlerStays DEF requestVars
  <1>. QED  BY <1>3, <1>4, <1>5 DEF StreamInv

\* Every step of the program.
LEMMA StepStreams ==
  ASSUME TypeInv, TypeInv', StartOK, Lossless, SubscriberInv, SubscriberInv', StreamInv,
         MutexWorks, ~OpenMayFail, [Next]_vars
  PROVE  StreamInv'
  <1>1. CASE Run(Startup)
    <2>1. /\ UNCHANGED <<history, disk, count, requestVars>>
          /\ writer = "none" /\ writer' \in {"none", "loop"}
          /\ \E to : pc' = [pc EXCEPT ![Main] = to]
      BY <1>1 DEF Run, Startup, Goto, StartOK
    <2>2. \A s \in Requests : pc'[s] = pc[s]
      BY <2>1, LoggerAssumption DEF LoggerAssumption, TypeInv, TypeOK
    <2>. QED  BY <2>1, <2>2, QuietStep
  <1>2. CASE UNCHANGED vars
    <2>1. UNCHANGED <<history, disk, writer, batch, cur, count, pc, requestVars>>
      BY <1>2 DEF vars, writerVars
    <2>2. Tiled'
      BY <2>1, TilesStay DEF StreamInv
    <2>3. Publishing'
      BY <2>1 DEF StreamInv, Publishing, CountsFrom, requestVars
    <2>4. ASSUME NEW s \in Requests
          PROVE  TotalInv(s)' /\ ReadInv(s)' /\ CaughtUp(s)'
      BY <2>1, HandlerStays DEF requestVars
    <2>. QED  BY <2>2, <2>3, <2>4 DEF StreamInv
  <1>3. ASSUME NEW c \in Callers, Run(Log(c) \/ Fatal(c) \/ FatalStep(c))
        PROVE  StreamInv'
    BY <1>3, CallerStreams DEF Run
  <1>4. CASE Run(Writer)
    BY <1>4, WriterStreams DEF Run
  <1>5. ASSUME NEW r \in Requests, Run(Request(r) \/ Relay(r))
        PROVE  StreamInv'
    BY <1>5, RequestStreams DEF Run
  <1>. QED  BY <1>1, <1>2, <1>3, <1>4, <1>5 DEF Next

LEMMA InitStreams ==
  ASSUME Init
  PROVE  StreamInv
  <1> USE DEF Init
  <1>1. Len(history) = 0 /\ Len(disk) = 0 /\ Len(subscribers) = 0
    BY EmptySeq
  <1>2. Tiled
    BY <1>1 DEF Tiled, End
  <1>3. Publishing
    BY DEF Publishing
  <1>4. ASSUME NEW r \in Requests
        PROVE  TotalInv(r) /\ ReadInv(r) /\ CaughtUp(r)
    <2>1. ~Listed(r) /\ pc[r] = "idle"
      BY <1>1, LoggerAssumption DEF LoggerAssumption, Listed
    <2>2. TotalInv(r)
      BY <1>1, <2>1 DEF TotalInv, End
    <2>. QED  BY <2>1, <2>2 DEF ReadInv, CaughtUp
  <1>. QED  BY <1>2, <1>3, <1>4 DEF StreamInv

LEMMA StreamsStay ==
  ASSUME MutexWorks, ~OpenMayFail
  PROVE  Spec => [](TypeInv /\ Lossless /\ StreamInv)
  <1>1. Spec => []TypeInv
    BY TypeCorrect, PTL DEF TypeInv
  <1>2. Init => Lossless
    BY EmptySeq DEF Init, Lossless, Pending, CountsFrom
  <1>3. TypeInv /\ StartOK /\ Lossless /\ [Next]_vars => Lossless'
    BY StepLossless
  <1>4. Init => StreamInv
    BY InitStreams
  <1>5. /\ TypeInv /\ TypeInv' /\ StartOK /\ Lossless /\ SubscriberInv /\ SubscriberInv'
        /\ StreamInv /\ [Next]_vars
        => StreamInv'
    BY StepStreams
  <1>. QED  BY <1>1, <1>2, <1>3, <1>4, <1>5, StartCorrect, SubscribersStay, PTL DEF Spec

\* On a build whose mutex locks, and while the log files can be opened, every
\* registered client that InOneFile describes has received, or is about to, a
\* gap-free and duplicate-free run of lines that ends with the last one
\* written: for any number of clients, whenever each of them connects.
THEOREM ClientsSeeEveryLine ==
  ASSUME MutexWorks, ~OpenMayFail
  PROVE  Spec => []StreamExact
  <1>1. TypeInv /\ Lossless /\ StreamInv => StreamExact
    <2> SUFFICES ASSUME TypeInv, Lossless, StreamInv, NEW r \in Requests, Listed(r),
                        writer \notin {"account", "publish"}, InOneFile(r)
                 PROVE  /\ Delivered(r) # <<>>
                        /\ CountsFrom(Delivered(r), Head(Delivered(r)) - 1)
                        /\ Last(Delivered(r)) = Last(disk)
      <3>1. DOMAIN subscribers = 1..Len(subscribers)
        BY LenProperties DEF TypeInv, TypeOK
      <3>. QED  BY <3>1 DEF StreamExact, Listed
    <2> DEFINE d == Delivered(r)
               start == StartLineIndex(r)
    <2>1. /\ d \in Seq(Nat) /\ Len(d) \in Nat /\ DOMAIN d = 1..Len(d)
          /\ start \in Nat /\ total[r] \in Nat /\ (total[r] > 0 => start < total[r])
          /\ Len(disk) \in Nat /\ disk \in Seq(Nat) /\ DOMAIN disk = 1..Len(disk)
      BY HandlerTypes, FileTypes, LenProperties DEF TypeInv, TypeOK
    <2>2. total[r] > 0 /\ total[r] <= Len(disk)
      BY DEF StreamInv, TotalInv
    <2>3. CountsFrom(d, start) /\ Len(d) + start + 0 = Len(disk)
      <3>1. ~Behind(r)
        BY DEF Behind
      <3>. QED  BY <3>1 DEF StreamInv, CaughtUp
    <2> HIDE DEF d, start
    <2>4. Len(d) > 0 /\ Len(disk) > 0 /\ start + Len(d) = Len(disk)
      <3>1. start < Len(disk)
        BY <2>1, <2>2
      <3>2. Len(d) + start + 0 = Len(disk)
        BY <2>3
      <3>3. start \in Nat /\ Len(d) \in Nat /\ Len(disk) \in Nat
        BY <2>1
      <3>. QED  BY <3>1, <3>2, <3>3
    <2>5. 1 \in 1..Len(d) /\ Len(d) \in 1..Len(d) /\ Len(disk) \in 1..Len(disk)
      BY <2>1, <2>4
    <2>6. d # <<>>
      BY <2>4
    <2>7. Head(d) - 1 = start
      <3>1. Head(d) = d[1]
        BY <2>1, <2>6
      <3>2. d[1] = start + 1
        BY <2>1, <2>3, <2>5 DEF CountsFrom
      <3>. QED  BY <2>1, <3>1, <3>2
    <2>8. Last(d) = Last(disk)
      <3>1. d[Len(d)] = start + Len(d)
        BY <2>1, <2>3, <2>5 DEF CountsFrom
      <3>2. disk[Len(disk)] = 0 + Len(disk)
        BY <2>1, <2>5 DEF Lossless, CountsFrom
      <3>3. 0 + Len(disk) = Len(disk)
        BY <2>1
      <3>. QED  BY <2>4, <3>1, <3>2, <3>3 DEF Last
    <2>. QED  BY <2>3, <2>6, <2>7, <2>8 DEF d
  <1>. QED  BY <1>1, StreamsStay, PTL

\* On the same conditions a client that InOneFile describes gets at least the
\* lines it asked for, although getHistoryLog computed where to start from
\* counts it read before it took the lock, while execute went on writing.
THEOREM ClientsGetTheirHistory ==
  ASSUME MutexWorks, ~OpenMayFail
  PROVE  Spec => []HistoryCovers
  <1>1. TypeInv /\ StreamInv => HistoryCovers
    <2> SUFFICES ASSUME TypeInv, StreamInv, NEW r \in Requests, pc[r] = "read",
                        k[r] >= Len(history), InOneFile(r)
                 PROVE  Len(stream[r]) >= IF count[r] = 0 \/ count[r] > total[r]
                                          THEN total[r] ELSE count[r]
      BY DEF HistoryCovers
    <2> DEFINE start == StartLineIndex(r)
               len == Len(stream[r])
    <2>1. /\ count[r] \in Nat /\ total[r] \in Nat /\ start \in Nat /\ k[r] \in Nat
          /\ len \in Nat /\ Len(disk) \in Nat /\ Len(history) \in Nat
          /\ start > 0 => start = total[r] - count[r]
          /\ start = 0 => count[r] = 0 \/ count[r] >= total[r]
      BY HandlerTypes, FileTypes
    <2>2. total[r] <= Len(disk) /\ k[r] = Len(history) /\ End(Len(history)) = Len(disk)
      BY <2>1 DEF StreamInv, TotalInv, Tiled
    <2>3. /\ start = 0 => len = Len(disk)
          /\ start > 0 => len = Len(disk) - start
      BY <2>2 DEF StreamInv, ReadInv
    <2> HIDE DEF start, len
    <2>4. len >= IF count[r] = 0 \/ count[r] > total[r] THEN total[r] ELSE count[r]
      <3>1. CASE start = 0
        BY <2>1, <2>2, <2>3, <3>1
      <3>2. CASE start > 0
        <4>1. count[r] > 0 /\ count[r] < total[r]
          BY <3>2 DEF start, StartLineIndex
        <4>2. len >= count[r]
          BY <2>1, <2>2, <2>3, <3>2
        <4>. QED  BY <2>1, <4>1, <4>2
      <3>. QED  BY <2>1, <3>1, <3>2
    <2>. QED  BY <2>4 DEF len
  <1>. QED  BY <1>1, StreamsStay, PTL
=============================================================================
