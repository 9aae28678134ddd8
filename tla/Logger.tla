------------------------------- MODULE Logger -------------------------------
(***************************************************************************)
(* The asynchronous logger (logger.cc) with its writer thread (thread.cc), *)
(* the IMutex it locks (mutex.cc) and the RequestLogger streams that read  *)
(* the log over gRPC (grpc_remote_service.cc).                             *)
(*                                                                         *)
(* Threads call Debug/Info/.../Fatal, which append to m_messages.  The     *)
(* writer thread takes the whole list, appends it to the current log file, *)
(* and hands it to the registered subscribers.  A RequestLogger handler    *)
(* reads the history from the files, registers itself as a subscriber and  *)
(* relays what it is handed until its client cancels.                      *)
(*                                                                         *)
(* Messages are numbered in the order they are appended to m_messages; one *)
(* message is one line.  `disk` holds the lines of all log files one after *)
(* the other, `history` the entries of logger_history_list_.               *)
(*                                                                         *)
(* The two builds differ in what the primitives do.  On Windows IMutex is  *)
(* a real lock and IThread::join does nothing; on Linux lock() and         *)
(* unlock() have empty bodies and join is pthread_join.                    *)
(***************************************************************************)
EXTENDS Integers, Sequences, SequencesExt

CONSTANTS
  Callers,      \* threads that log
  Main,         \* the thread that runs IApplication::run
  Requests,     \* RequestLogger handlers, each serving one client
  Counts,       \* the numbers of lines clients ask for (0: everything)
  Platform,     \* "windows" or "linux"
  RollLines,    \* lines at which a file reaches its size limit
  StartMayFail, \* TRUE: pthread_create may fail
  OpenMayFail,  \* TRUE: opening the log file may fail
  MaxMessages,  \* bound: messages appended by Debug/Info/... of the callers
  None          \* no thread

ASSUME LoggerAssumption ==
  /\ Main \in Callers
  /\ Callers \cap Requests = {}
  /\ None \notin Callers \cup Requests
  /\ Counts \subseteq Nat
  /\ Platform \in {"windows", "linux"}
  /\ RollLines \in Nat \ {0}
  /\ StartMayFail \in BOOLEAN /\ OpenMayFail \in BOOLEAN
  /\ MaxMessages \in Nat

MutexWorks == Platform = "windows"
JoinWorks  == Platform = "linux"

VARIABLES
  m_messages,    \* Logger::m_messages
  pushed,        \* how many messages were ever appended to it
  exit_flag_,    \* IThread::exit_flag_ of the writer thread
  writer,        \* where the writer thread is in Logger::execute
  batch,         \* its logger_message_list
  cur,           \* the subscriber its publish loop has reached
  file_name_,    \* TRUE iff Logger::file_name_ is not empty
  history,       \* logger_history_list_, with the lines each file holds
  disk,          \* the lines of all files, in file order
  subscribers,   \* logger_subscriber_list_
  pc,            \* where each caller and each request handler is
  joiner,        \* the thread that has joined or is joining the writer
  count,         \* a request's count parameter; it never changes
  k,             \* how many entries a handler's loop over the history is past
  total,         \* a handler's total_line_count
  index,         \* a handler's total_line_index
  inbox,         \* a handler's subscriber.logger_message_list_
  taken,         \* the handler's local copy of it
  stream,        \* the lines a handler wrote to its client
  process        \* "running", "exited" or "crashed"

writerVars  == <<writer, batch, cur, file_name_, history, disk>>
requestVars == <<subscribers, k, total, index, inbox, taken, stream>>
vars == <<m_messages, pushed, exit_flag_, writerVars, pc, joiner, count,
          requestVars, process>>

-----------------------------------------------------------------------------
(* Locks.  A lock that is held across steps is held at a known place, so   *)
(* its state is read off the program counters.                             *)

\* Mutant: the writer's copy and clear are not one critical section.
MessagesUnlockedMutant == TRUE

\* m_mutex: only the writer keeps it over two of its steps.
MessagesUnlocked == MutexWorks => writer # "clear"

\* mutex_logger_request_: the writer's file block, a handler's getHistoryLog.
RequestUnlocked ==
  MutexWorks => /\ writer \notin {"account", "publish"}
                /\ \A r \in Requests : pc[r] # "read"

\* Mutant: getLoggerMessage copies and clears without the lock.
InboxUnlockedMutant(r) == TRUE

\* GrpcLoggerSubscriber::mutex_ of handler r.
InboxUnlocked(r) == MutexWorks => pc[r] # "clear"

\* Append a message to m_messages: the record part of Debug ... Fatal.
Push ==
  /\ MessagesUnlocked
  /\ m_messages' = Append(m_messages, pushed + 1)
  /\ pushed' = pushed + 1

Goto(t, to) == pc' = [pc EXCEPT ![t] = to]

-----------------------------------------------------------------------------
(* getHistoryLog.                                                          *)

\* File::readFile: the lines of a file from line `start` (0-based) on.
ReadFile(entry, start) ==
  LET skip == IF start <= 0 THEN 0 ELSE start
  IN  SubSeq(disk, entry.first + skip + 1, entry.first + entry.lines)

\* Mutant: one line too few.
StartLineIndexMutant(r) ==
  IF count[r] > 0 /\ count[r] < total[r] THEN total[r] - count[r] + 1 ELSE 0

StartLineIndex(r) ==
  IF count[r] > 0 /\ count[r] < total[r] THEN total[r] - count[r] ELSE 0

\* The entry the loop of handler r is at, whether the loop skips it, and the
\* lines it reads from it.
Entry(r)     == history[k[r] + 1]
Skipped(r)   == index[r] + Entry(r).line_count < StartLineIndex(r)
LinesRead(r) == ReadFile(Entry(r), StartLineIndex(r) - index[r])

-----------------------------------------------------------------------------
Init ==
  /\ m_messages = <<>> /\ pushed = 0 /\ exit_flag_ = FALSE
  /\ writer = "none" /\ batch = <<>> /\ cur = None
  /\ file_name_ = FALSE /\ history = <<>> /\ disk = <<>>
  /\ subscribers = <<>>
  /\ pc = [t \in Callers \cup Requests |->
             IF t = Main THEN "startup" ELSE "idle"]
  /\ joiner = None
  /\ count \in [Requests -> Counts]
  /\ k = [r \in Requests |-> 0]
  /\ total = [r \in Requests |-> 0] /\ index = [r \in Requests |-> 0]
  /\ inbox = [r \in Requests |-> <<>>] /\ taken = [r \in Requests |-> <<>>]
  /\ stream = [r \in Requests |-> <<>>]
  /\ process = "running"

\* The application starts its other threads after Logger::startup.
Started == pc[Main] # "startup"

-----------------------------------------------------------------------------
(* The threads that log.                                                   *)

\* Logger::startup: Debug, then IThread::start.  When the thread cannot be
\* created start() sets exit_flag_ and calls Fatal, which logs and waits.
Startup ==
  /\ pc[Main] = "startup"
  /\ \/ /\ Push
        /\ exit_flag_' = FALSE
        /\ writer' = "loop"
        /\ Goto(Main, "idle")
     \/ /\ StartMayFail /\ JoinWorks
        /\ m_messages' = m_messages \o <<pushed + 1, pushed + 2>>
        /\ pushed' = pushed + 2
        /\ exit_flag_' = TRUE
        /\ Goto(Main, "fatalWait")
        /\ UNCHANGED writer
  /\ UNCHANGED <<batch, cur, file_name_, history, disk, joiner, requestVars,
                 process>>

\* Log, Debug, Info, Warn and Error of a message that is to be recorded.
\* (Printing changes no state, and an empty message returns at once.)
Log(c) ==
  /\ Started /\ pc[c] = "idle"
  /\ pushed < MaxMessages
  /\ Push
  /\ UNCHANGED <<exit_flag_, writerVars, pc, joiner, requestVars, process>>

\* Fatal, first part: the message is recorded unless its type is Print.
Fatal(c) ==
  /\ Started /\ pc[c] = "idle"
  /\ Push \/ UNCHANGED <<m_messages, pushed>>
  /\ Goto(c, "fatalWait")
  /\ UNCHANGED <<exit_flag_, writerVars, joiner, requestVars, process>>

\* Fatal, "wait messages empty": the poll that finds m_messages empty.
FatalSeesEmpty(c) ==
  /\ pc[c] = "fatalWait"
  /\ MessagesUnlocked
  /\ m_messages = <<>>
  /\ Goto(c, "stop")
  /\ UNCHANGED <<m_messages, pushed, exit_flag_, writerVars, joiner,
                 requestVars, process>>

\* Mutant: stop() joins without setting the flag.
StopMutant(c) ==
  /\ pc[c] = "stop"
  /\ Goto(c, "join")
  /\ UNCHANGED <<m_messages, pushed, exit_flag_, writerVars, joiner,
                 requestVars, process>>

\* IThread::stop: set the flag ...
Stop(c) ==
  /\ pc[c] = "stop"
  /\ exit_flag_' = TRUE
  /\ Goto(c, "join")
  /\ UNCHANGED <<m_messages, pushed, writerVars, joiner, requestVars, process>>

\* Mutant: join returns at once on every build.
JoinMutant(c) ==
  /\ pc[c] = "join"
  /\ Goto(c, "exit")
  /\ UNCHANGED <<m_messages, pushed, joiner, exit_flag_, writerVars,
                 requestVars, process>>

\* ... and join.  On Windows join returns at once.  pthread_join fails for a
\* thread that does not exist or has another joiner, and a failed join calls
\* Fatal again.
Join(c) ==
  /\ pc[c] = "join"
  /\ \/ /\ ~JoinWorks
        /\ Goto(c, "exit")
        /\ UNCHANGED <<m_messages, pushed, joiner>>
     \/ /\ JoinWorks /\ writer # "none" /\ joiner = None
        /\ joiner' = c
        /\ Goto(c, "joining")
        /\ UNCHANGED <<m_messages, pushed>>
     \/ /\ JoinWorks /\ (writer = "none" \/ joiner # None)
        /\ Push
        /\ Goto(c, "fatalWait")
        /\ UNCHANGED joiner
  /\ UNCHANGED <<exit_flag_, writerVars, requestVars, process>>

Joined(c) ==
  /\ pc[c] = "joining"
  /\ writer = "finished"
  /\ Goto(c, "exit")
  /\ UNCHANGED <<m_messages, pushed, exit_flag_, writerVars, joiner,
                 requestVars, process>>

\* ::exit(-1) ends the process and every thread in it.
Exit(c) ==
  /\ pc[c] = "exit"
  /\ process' = "exited"
  /\ UNCHANGED <<m_messages, pushed, exit_flag_, writerVars, pc, joiner,
                 requestVars>>

-----------------------------------------------------------------------------
(* The writer thread: Logger::execute.                                     *)

\* while (!exit_flag_): lock, copy m_messages ...
WriterAssign ==
  /\ writer = "loop" /\ ~exit_flag_
  /\ batch' = m_messages
  /\ writer' = "clear"
  /\ UNCHANGED <<m_messages, pushed, exit_flag_, cur, file_name_, history,
                 disk, pc, joiner, requestVars, process>>

\* Mutant: the list is not cleared when a new message came in meanwhile.
WriterClearMutant ==
  /\ writer = "clear"
  /\ m_messages' = IF m_messages = batch THEN <<>> ELSE m_messages
  /\ writer' = IF batch = <<>> THEN "loop" ELSE "name"
  /\ UNCHANGED <<pushed, exit_flag_, batch, cur, file_name_, history, disk,
                 pc, joiner, requestVars, process>>

\* ... clear it, unlock; sleep and start over if there was nothing.
WriterClear ==
  /\ writer = "clear"
  /\ m_messages' = <<>>
  /\ writer' = IF batch = <<>> THEN "loop" ELSE "name"
  /\ UNCHANGED <<pushed, exit_flag_, batch, cur, file_name_, history, disk,
                 pc, joiner, requestVars, process>>

\* A new file gets a name and an entry in the history.
WriterName ==
  /\ writer = "name"
  /\ file_name_' = TRUE
  /\ history' = IF file_name_ THEN history
                ELSE Append(history,
                            [first |-> Len(disk), lines |-> 0,
                             line_count |-> 0, exists |-> FALSE])
  /\ writer' = "write"
  /\ UNCHANGED <<m_messages, pushed, exit_flag_, batch, cur, disk, pc, joiner,
                 requestVars, process>>

\* Mutant: the first message of a batch is dropped in a file that has lines.
WriterWriteMutant ==
  /\ writer = "write"
  /\ RequestUnlocked
  /\ LET n == Len(history)
         size == history[n].lines + Len(batch)
     IN  /\ disk' = disk \o (IF size > 1 THEN Tail(batch) ELSE batch)
         /\ history' = [history EXCEPT ![n].lines = Len(disk') - history[n].first,
                                       ![n].exists = TRUE]
         /\ file_name_' = (size < RollLines)
  /\ writer' = "account"
  /\ UNCHANGED <<m_messages, pushed, exit_flag_, batch, cur, pc, joiner,
                 requestVars, process>>

\* Mutant: a file that cannot be opened keeps its name.
WriterOpenMutant ==
  /\ writer = "write"
  /\ RequestUnlocked
  /\ LET n == Len(history) IN
     \/ LET size == history[n].lines + Len(batch) IN
        /\ disk' = disk \o batch
        /\ history' = [history EXCEPT ![n].lines = size, ![n].exists = TRUE]
        /\ file_name_' = (size < RollLines)
     \/ OpenMayFail /\ UNCHANGED <<file_name_, disk, history>>
  /\ writer' = "account"
  /\ UNCHANGED <<m_messages, pushed, exit_flag_, batch, cur, pc, joiner,
                 requestVars, process>>

\* Lock mutex_logger_request_, open and write the file, start a new one when
\* it is full.  A file that cannot be opened takes no line; its tellp() is -1,
\* which as a size_t is over the limit too.
WriterWrite ==
  /\ writer = "write"
  /\ RequestUnlocked
  /\ LET n == Len(history) IN
     \/ LET size == history[n].lines + Len(batch) IN
        /\ disk' = disk \o batch
        /\ history' = [history EXCEPT ![n].lines = size, ![n].exists = TRUE]
        /\ file_name_' = (size < RollLines)
     \/ /\ OpenMayFail
        /\ file_name_' = FALSE
        /\ UNCHANGED <<disk, history>>
  /\ writer' = "account"
  /\ UNCHANGED <<m_messages, pushed, exit_flag_, batch, cur, pc, joiner,
                 requestVars, process>>

\* Mutant: the lines are subtracted.
WriterAccountMutant ==
  /\ writer = "account"
  /\ history' = [history EXCEPT ![Len(history)].line_count = @ - Len(batch)]
  /\ cur' = IF subscribers = <<>> THEN None ELSE Head(subscribers)
  /\ writer' = "publish"
  /\ UNCHANGED <<m_messages, pushed, exit_flag_, batch, file_name_, disk, pc,
                 joiner, requestVars, process>>

\* Count the lines in the last history entry; begin the loop over the
\* subscribers.
WriterAccount ==
  /\ writer = "account"
  /\ history' = [history EXCEPT ![Len(history)].line_count = @ + Len(batch)]
  /\ cur' = IF subscribers = <<>> THEN None ELSE Head(subscribers)
  /\ writer' = "publish"
  /\ UNCHANGED <<m_messages, pushed, exit_flag_, batch, file_name_, disk, pc,
                 joiner, requestVars, process>>

\* The subscriber after s in the list.
NextSubscriber(s) ==
  LET i == CHOOSE j \in DOMAIN subscribers : subscribers[j] = s
  IN  IF i = Len(subscribers) THEN None ELSE subscribers[i + 1]

\* subscriber->update(batch) for the subscriber the loop has reached.
WriterUpdate ==
  /\ writer = "publish" /\ cur # None
  /\ \E i \in DOMAIN subscribers : subscribers[i] = cur
  /\ InboxUnlocked(cur)
  /\ inbox' = [inbox EXCEPT ![cur] = @ \o batch]
  /\ cur' = NextSubscriber(cur)
  /\ UNCHANGED <<m_messages, pushed, exit_flag_, writer, batch, file_name_,
                 history, disk, pc, joiner, subscribers, k, total, index,
                 taken, stream, process>>

\* The list node the loop stands on was erased: reading it is undefined; the
\* process crashes or the loop happens to end.
WriterDangling ==
  /\ writer = "publish" /\ cur # None
  /\ ~ \E i \in DOMAIN subscribers : subscribers[i] = cur
  /\ \/ process' = "crashed" /\ UNCHANGED cur
     \/ cur' = None /\ UNCHANGED process
  /\ UNCHANGED <<m_messages, pushed, exit_flag_, writer, batch, file_name_,
                 history, disk, pc, joiner, requestVars>>

\* Mutant: the thread returns after its first file write.
WriterDoneMutant ==
  /\ writer = "publish" /\ cur = None
  /\ batch' = <<>>
  /\ writer' = "finished"
  /\ UNCHANGED <<m_messages, pushed, exit_flag_, cur, file_name_, history,
                 disk, pc, joiner, requestVars, process>>

\* Clear the batch, close the file, unlock, sleep.
WriterDone ==
  /\ writer = "publish" /\ cur = None
  /\ batch' = <<>>
  /\ writer' = "loop"
  /\ UNCHANGED <<m_messages, pushed, exit_flag_, cur, file_name_, history,
                 disk, pc, joiner, requestVars, process>>

WriterExit ==
  /\ writer = "loop" /\ exit_flag_
  /\ writer' = "finished"
  /\ UNCHANGED <<m_messages, pushed, exit_flag_, batch, cur, file_name_,
                 history, disk, pc, joiner, requestVars, process>>

-----------------------------------------------------------------------------
(* A RequestLogger handler.                                                *)

\* Log that a request was received.
RequestBegin(r) ==
  /\ Started /\ pc[r] = "idle"
  /\ Push
  /\ Goto(r, "total")
  /\ UNCHANGED <<exit_flag_, writerVars, joiner, requestVars, process>>

\* getHistoryLog adds the line counts up, without a lock ...
RequestTotal(r) ==
  /\ pc[r] = "total" /\ k[r] < Len(history)
  /\ total' = [total EXCEPT ![r] = @ + Entry(r).line_count]
  /\ k' = [k EXCEPT ![r] = @ + 1]
  /\ UNCHANGED <<m_messages, pushed, exit_flag_, writerVars, pc, joiner,
                 subscribers, index, inbox, taken, stream, process>>

\* ... and when there is no line yet it logs an error and returns: the
\* handler goes on to poll a subscriber that was never registered.
RequestNoLine(r) ==
  /\ pc[r] = "total" /\ k[r] >= Len(history) /\ total[r] = 0
  /\ Push
  /\ Goto(r, "stream")
  /\ UNCHANGED <<exit_flag_, writerVars, joiner, requestVars, process>>

\* Otherwise it locks mutex_logger_request_.
RequestLock(r) ==
  /\ pc[r] = "total" /\ k[r] >= Len(history) /\ total[r] > 0
  /\ RequestUnlocked
  /\ k' = [k EXCEPT ![r] = 0]
  /\ Goto(r, "read")
  /\ UNCHANGED <<m_messages, pushed, exit_flag_, writerVars, joiner,
                 subscribers, total, index, inbox, taken, stream, process>>

\* One file of the loop: skip it, read it, or log that it cannot be read or
\* has nothing to read.  (RequestLogger writes the lines to the client once
\* getHistoryLog has returned, before it polls its subscriber.)
RequestRead(r) ==
  /\ pc[r] = "read" /\ k[r] < Len(history)
  /\ k' = [k EXCEPT ![r] = @ + 1]
  /\ \/ /\ Skipped(r)
        /\ index' = [index EXCEPT ![r] = @ + Entry(r).line_count]
        /\ UNCHANGED <<m_messages, pushed, stream>>
     \/ /\ ~Skipped(r) /\ Entry(r).exists /\ LinesRead(r) # <<>>
        /\ index' = [index EXCEPT ![r] = @ + Len(LinesRead(r))]
        /\ stream' = [stream EXCEPT ![r] = @ \o LinesRead(r)]
        /\ UNCHANGED <<m_messages, pushed>>
     \/ /\ ~Skipped(r) /\ (Entry(r).exists => LinesRead(r) = <<>>)
        /\ Push
        /\ UNCHANGED <<index, stream>>
  /\ UNCHANGED <<exit_flag_, writerVars, pc, joiner, subscribers, total, inbox,
                 taken, process>>

\* Register the subscriber and unlock.
RequestRegister(r) ==
  /\ pc[r] = "read" /\ k[r] >= Len(history)
  /\ subscribers' = Append(subscribers, r)
  /\ Goto(r, "stream")
  /\ UNCHANGED <<m_messages, pushed, exit_flag_, writerVars, joiner, k, total,
                 index, inbox, taken, stream, process>>

\* getLoggerMessage: lock mutex_, copy the subscriber's list ...
RequestFetch(r) ==
  /\ pc[r] = "stream" /\ inbox[r] # <<>>
  /\ taken' = [taken EXCEPT ![r] = inbox[r]]
  /\ Goto(r, "clear")
  /\ UNCHANGED <<m_messages, pushed, exit_flag_, writerVars, joiner,
                 subscribers, k, total, index, inbox, stream, process>>

\* ... clear it, unlock, and write the copy to the client.
RequestClear(r) ==
  /\ pc[r] = "clear"
  /\ inbox' = [inbox EXCEPT ![r] = <<>>]
  /\ stream' = [stream EXCEPT ![r] = @ \o taken[r]]
  /\ taken' = [taken EXCEPT ![r] = <<>>]
  /\ Goto(r, "stream")
  /\ UNCHANGED <<m_messages, pushed, exit_flag_, writerVars, joiner,
                 subscribers, k, total, index, process>>

\* The handler sees that its client has cancelled, and logs it.
RequestCancelled(r) ==
  /\ pc[r] = "stream"
  /\ Push
  /\ Goto(r, "cancel")
  /\ UNCHANGED <<exit_flag_, writerVars, joiner, requestVars, process>>

\* Mutant: the subscriber is taken off the list without the lock.
RequestCancelMutant(r) ==
  /\ pc[r] = "cancel"
  /\ subscribers' = SelectSeq(subscribers, LAMBDA s : s # r)
  /\ Goto(r, "done")
  /\ UNCHANGED <<m_messages, pushed, exit_flag_, writerVars, joiner, k, total,
                 index, inbox, taken, stream, process>>

\* cancelLoggerSubscriber, and return: the subscriber, a local of the
\* handler, is destroyed.
RequestCancel(r) ==
  /\ pc[r] = "cancel"
  /\ RequestUnlocked
  /\ \/ \E i \in DOMAIN subscribers :
          /\ subscribers[i] = r
          /\ \A j \in 1..(i - 1) : subscribers[j] # r
          /\ subscribers' = RemoveAt(subscribers, i)
     \/ /\ \A i \in DOMAIN subscribers : subscribers[i] # r
        /\ UNCHANGED subscribers
  /\ Goto(r, "done")
  /\ UNCHANGED <<m_messages, pushed, exit_flag_, writerVars, joiner, k, total,
                 index, inbox, taken, stream, process>>

-----------------------------------------------------------------------------
Writer ==
  \/ WriterAssign \/ WriterClear \/ WriterName \/ WriterWrite
  \/ WriterAccount \/ WriterUpdate \/ WriterDangling \/ WriterDone
  \/ WriterExit

FatalStep(c) ==
  FatalSeesEmpty(c) \/ Stop(c) \/ Join(c) \/ Joined(c) \/ Exit(c)

Relay(r) == RequestFetch(r) \/ RequestClear(r)

Request(r) ==
  \/ RequestBegin(r) \/ RequestTotal(r) \/ RequestNoLine(r)
  \/ RequestLock(r) \/ RequestRead(r) \/ RequestRegister(r)
  \/ RequestCancelled(r) \/ RequestCancel(r)

\* Steps are taken while the process is there.
Run(A) == process = "running" /\ UNCHANGED count /\ A

Next ==
  \/ Run(Startup)
  \/ \E c \in Callers : Run(Log(c) \/ Fatal(c) \/ FatalStep(c))
  \/ Run(Writer)
  \/ \E r \in Requests : Run(Request(r) \/ Relay(r))

Spec == Init /\ [][Next]_vars

-----------------------------------------------------------------------------
(* Properties.                                                             *)

EntryType == [first : Nat, lines : Nat, line_count : Nat, exists : BOOLEAN]

CallerPc  == {"startup", "idle", "fatalWait", "stop", "join", "joining", "exit"}
RequestPc == {"idle", "total", "read", "stream", "clear", "cancel",
              "done"}
WriterPc  == {"none", "loop", "clear", "name", "write", "account", "publish",
              "finished"}

\* Every variable has its type: the declarations of logger.h and the program
\* points of the threads.
TypeOK ==
  /\ m_messages \in Seq(Nat) /\ batch \in Seq(Nat) /\ disk \in Seq(Nat)
  /\ pushed \in Nat
  /\ exit_flag_ \in BOOLEAN /\ file_name_ \in BOOLEAN
  /\ writer \in WriterPc
  /\ cur \in Requests \cup {None}
  /\ history \in Seq(EntryType)
  /\ subscribers \in Seq(Requests)
  /\ pc \in [Callers \cup Requests -> CallerPc \cup RequestPc]
  /\ joiner \in Callers \cup {None}
  /\ count \in [Requests -> Counts]
  /\ k \in [Requests -> Nat] /\ index \in [Requests -> Nat]
  /\ total \in [Requests -> Nat]
  /\ inbox \in [Requests -> Seq(Nat)] /\ taken \in [Requests -> Seq(Nat)]
  /\ stream \in [Requests -> Seq(Nat)]
  /\ process \in {"running", "exited", "crashed"}

\* The messages the writer has taken and not yet written.
Pending == IF writer \in {"name", "write"} THEN batch ELSE <<>>

\* A sequence that counts up by one from n + 1.
CountsFrom(s, n) == \A i \in DOMAIN s : s[i] = n + i

\* With a mutex that locks, no message recorded by Debug ... Fatal is lost,
\* repeated or reordered on its way through m_messages and the writer's batch
\* to the files: the three hold, one after the other, every message so far.
NothingLost ==
  (MutexWorks /\ ~OpenMayFail) =>
    /\ CountsFrom(disk, 0)
    /\ CountsFrom(Pending, Len(disk))
    /\ CountsFrom(m_messages, Len(disk) + Len(Pending))
    /\ pushed = Len(disk) + Len(Pending) + Len(m_messages)

\* The logger provides LogService: `pushed` messages accepted, `disk` the log.
\* (On a build whose mutex locks, while the log files can be opened.)
Service == INSTANCE LogService WITH accepted <- pushed, log <- disk

\* Every behaviour of Debug ... Fatal and execute is one of the service: no
\* step writes a message twice, out of order, or before it was accepted.
ImplementsService == Service!Spec

\* The lines an entry of the history counts or is about to: execute counts a
\* batch after it has written it, and also when the file could not be opened.
Counted(i) ==
  history[i].line_count
    + IF writer = "account" /\ i = Len(history) THEN Len(batch) ELSE 0

\* Whatever the platform, and although files may not open, a message is
\* written at most once and never before one recorded earlier: execute appends
\* its batches in the order it took them.  No file holds more lines than its
\* entry counts, and one that holds fewer, for a batch was lost, has been
\* given up: the file the next batch goes to is counted exactly, so the error
\* of an entry never grows.
WrittenInOrder ==
  /\ \A i, j \in DOMAIN disk : i < j => disk[i] < disk[j]
  /\ \A i \in DOMAIN history :
       /\ Counted(i) >= history[i].lines
       /\ i = Len(history) /\ file_name_ => Counted(i) = history[i].lines

\* Fatal's exit: on return from the wait (write_done) and from stop(), every
\* message recorded so far by any thread has been written to a file.
WriteDone ==
  process = "exited" => \A m \in 1..pushed : \E i \in DOMAIN disk : disk[i] = m

\* The process never ends while the writer holds a batch it has yet to write:
\* Fatal's stop() joins the writer before ::exit.
NoBatchCutOff == process = "exited" => Pending = <<>>

\* What the client of r has received or is about to.
Delivered(r) == stream[r] \o inbox[r]

\* What handler r asks for begins at the very first line, or past the first
\* line of the newest file.  (Otherwise getHistoryLog, which advances
\* total_line_index by the lines it read of a file and not by the lines the
\* file has, misses lines of later files and reports an unknown error for a
\* file it takes none from.)
InOneFile(r) ==
  LET start == StartLineIndex(r)
  IN  start = 0 \/ start > Last(history).first

\* While a handler is registered and the writer is not publishing, its
\* client's stream ends with the last line written, and is gap-free and
\* duplicate-free from the first line of the history it got: getHistoryLog
\* reads and registers under one lock, execute writes and publishes under it.
\* (For requests that InOneFile describes.)
StreamExact ==
  \A r \in Requests :
    (/\ \E i \in DOMAIN subscribers : subscribers[i] = r
     /\ writer \notin {"account", "publish"}
     /\ pc[r] = "stream" /\ InOneFile(r)) =>
       /\ Delivered(r) # <<>>
       /\ CountsFrom(Delivered(r), Head(Delivered(r)) - 1)
       /\ Last(Delivered(r)) = Last(disk)

\* getHistoryLog returns at least the lines it was asked for, although it
\* computed where to start from counts read before it took the lock.  (For
\* requests that InOneFile describes.)
HistoryCovers ==
  \A r \in Requests :
    pc[r] = "read" /\ k[r] >= Len(history) /\ InOneFile(r) =>
      Len(stream[r]) >= IF count[r] = 0 \/ count[r] > total[r]
                        THEN total[r] ELSE count[r]

\* The publish loop of execute never stands on a subscriber whose handler has
\* returned: cancelLoggerSubscriber waits for the loop.
NoDanglingSubscriber ==
  (writer = "publish" /\ cur # None) => pc[cur] # "done"

-----------------------------------------------------------------------------
(* Liveness.                                                               *)

\* The scheduler runs every thread: the writer, the main thread's startup, a
\* thread in Fatal's loop, a handler's polling loop.  Fatal's poll needs
\* m_mutex, which the writer releases for 100 ms in each of its rounds: a
\* thread that keeps asking for it gets it (strong fairness).
FairSpec ==
  /\ Spec
  /\ WF_vars(Run(Startup))
  /\ WF_vars(Run(Writer))
  /\ \A c \in Callers : SF_vars(Run(FatalStep(c)))
  /\ \A r \in Requests : WF_vars(Run(Relay(r)))

\* A thread that calls Fatal ends the process: its wait for m_messages to
\* empty and its stop() are not blocked for ever.  (When the writer thread
\* could not be created, Fatal does wait for ever.)
FatalExits ==
  \A c \in Callers :
    pc[c] = "fatalWait" /\ writer # "none" ~> process # "running"

\* Every recorded message reaches a file unless the process ends first.
EventuallyWritten ==
  \A m \in 1..MaxMessages :
    pushed >= m ~> \/ \E i \in DOMAIN disk : disk[i] = m
                   \/ process = "exited"
=============================================================================
