# A TLA+ verification of ick

ick is "a class library for industrial data acquisition and automatic control"
(`README.md`): an application registers control objects and data channels,
drivers bring the channels' values from devices, a poll thread hands changes to
subscribers, and sockets, gRPC and HTTP carry data, services and the log to
other processes.  The library's own code is `src/src/`; `common/third_party` is
vendored and `common/audio` is a helper around an encoder.  Paths below are
relative to `src/`, so `src/logger.cc` is the logger.

This directory holds specifications of the library's parts, the TLC runs that
check them on small instances and the TLAPS proofs of what all but the text
functions and those that use them establish for every instance.

## Inventory

| component | state | operations | talks to | module |
|---|---|---|---|---|
| Logger (`logger.cc`) | message list, writer thread, log files and their history, subscribers | Log ... Error, Fatal, execute, getHistoryLog, cancelLoggerSubscriber | every component logs; gRPC streams subscribe | `Logger` |
| IThread, IMutex (`thread.cc`, `mutex.cc`) | exit flag, OS handle | start, stop, join; lock, unlock | everything; the two builds differ (below) | in all that use them |
| gRPC log stream (`grpc_remote_service.cc`) | one inbox per handler | RequestLogger, update, getLoggerMessage | Logger | `Logger` |
| Data channels (`untyped_data.cc`, `read_only_*.cc`, `read_write_*.cc`) | value, old value, changed flag, subscribers | getValue, setValue, setSimulatedValue, subscribe, unsubscribe, update | drivers, subscribers | `DataChannel` |
| Poll thread (`object_manager.cc`, `execute`) | - | getValue, isChanged, update of every channel, for ever | data channels | `DataChannel`, `Application` |
| Object registry (`object_manager.cc`) | objects, data, aliases, progress callbacks | registerObject, createAlias, getObject, startNamespace, shutdownNamespace | all objects | `Application` |
| Application and XML configuration (`application.cc`, `xml_parser.cc`) | the sockets, what was loaded | run, the two loads, destroy | registry, sockets | `Application` |
| Control objects (`control_object.cc`, `service*.cc`) | services, their parameters | call, start, the declarations | service sockets | `Service`, `Declarations` |
| Method maps (`cmd_target.cc`) | static tables | dispatchMsg | XML configuration | `Dispatch` |
| Sockets (`socket.cc`) | connection, client map, reconnection | connect, send, receive, execute | storm sockets | `Socket` |
| Storm publish/subscribe (`ick_storm_subscriber_socket.cc`) | channels to subscribe to, clients per channel, send list | subscribe, addSendData, update, the client's and the server's handler | sockets, channels, managers | `Storm`, `Stream` |
| Service requests (`ick_storm_service_socket.cc`) | requests to send | addService, the two handlers | sockets, control objects | `Service` |
| Storm managers, .NET (`ick_storm_subscriber_manager.cc`, `ick_storm_manager.cc`, `dot_net_interface.cc`) | callbacks and subscriber objects per channel | subscriber, getSubscriberCallBackList, runService | storm sockets | `StormManager` |
| Connection pool (`connection_pool*.cc`, `data_base.cc`, `mysql_connection.cc`) | free and active connections, count | make, getConnection, releaseConnection, executeQuery | MySQL | `ConnectionPool` |
| HTTP (`http_*.cc`) | callbacks, a thread per evhttp | Start, Stop, SetCallback, FetchUrl | libevent, curl | `Http` |
| Timer (`timer.cc`) | state, exit flag, thread | start, stop, exit | applications | `Timer` |
| Text functions (`converter.cc`, the encode and decode functions) | - | split, trim, encodeData, UTF-8, URLs | sockets, method maps | `Codec` |
| Audio (`common/audio`) | thread slots | Encode, encode, decode | LAME | `Audio` |

What is hard here: the components share lists between threads; the mutex is a
lock on Windows only (`mutex.cc:58-64` are empty on Linux) and `join` waits on
Linux only (`thread.cc:65-74`); values are read from a driver, compared and
stored in separate steps; connections break between a send and its answer and
recv cuts messages; a failed send or a refused call returns with a mutex
locked; a process may be ended by any thread that logs a fatal message.
`PROJECT.json` lists each such place under "hazards" with the property that
watches it.

What makes each component correct:

* Logger: a recorded message reaches the files once and in order; Fatal ends
  the process and not before what was logged is written; a log stream shows
  history and live lines without gap or repeat.
* Data channels: a subscriber is told the value it finds and every change
  after; the value follows the device; the notifications end when nothing
  changes.
* Storm: what the client is told is true at the server; a request is repeated
  until it is confirmed and kept until it is sent; a client that stays
  connected ends with the device's value; messages are recognised however the
  stream is cut; the subscribers of an update are called once each.
* Services: a request is run at most once, with its own parameters, and
  answered calls are run.
* Registry and application: every object goes through the phases in order and
  once; an object is deleted once and under no thread that uses it; a client
  finds the channels that exist.
* Pool: at most the allowed number of connections, each at one user, and
  every client is served.
* HTTP: a request is answered by the callback set for it; every fetch ends.
* Timer, audio: what is started ends; text functions: decoding undoes encoding.

Several of these hold under a condition only.  A property then names the
circumstance that spoils it, so that it says both what the code gives and
where that ends.

## Modules

| module | role |
|---|---|
| `Logger` | the logger, its writer thread, Fatal, and the RequestLogger handlers |
| `LogService` | what a log promises: accepted messages are appended once, in order |
| `DataChannel` | one channel of any of the six classes, the poll thread, other threads |
| `Socket` | connections, their threads and faults; extended by the next two |
| `Storm` | the subscriber socket at client and server, over `Socket` |
| `Service` | service requests over `Socket`, and ControlObject::call |
| `StormManager` | the two storm managers and the .NET functions |
| `Http` | server, server threads and client |
| `ConnectionPool` | pool, pool manager, connection, database object |
| `Application` | start-up, XML configuration, registry, shutdown |
| `Codec` | the text functions |
| `Stream` | the receive loops of the handlers, over `Codec` |
| `Declarations` | the services of a class and their parameters |
| `Dispatch` | method maps, over `Codec`; extends `Declarations` |
| `Timer`, `Audio` | the timer; the two encoder helpers |
| `LoggerProofs`, `DataChannelProofs`, `SocketProofs`, `StormProofs`, `ServiceProofs`, `ConnectionPoolProofs`, `ApplicationProofs` | theorems about the module of that name |
| `SupportProofs` | theorems about `StormManager`, `Http`, `Declarations`, `Timer` and `Audio` |
| `MCLogger`, `MCDataChannel`, `MCStorm`, `MCService`, `MCConnectionPool`, `MCApplication` | the module of that name for TLC, with its sets of configurations |
| `MCRemote` | `StormManager` or `Http`, one at a time |
| `MCUtil` | `Codec`, `Stream`, `Dispatch`, `Timer` or `Audio`, one at a time |

Operators whose name ends in `Mutant` are deliberately wrong versions of the
definition below them.  They are used nowhere; putting one in place of the
original is how we make sure that each property can fail.

### Logger

A message is a number, its position in the order of appending; a line of a file
is a message.  `disk` is all files in a row and `history` is
`logger_history_list_`, with where each file begins.  `count` is the parameter
of each client's request.  One action is one piece
of code between two points where another thread can get in:

* callers: `Startup` (Logger::startup and IThread::start), `Log` (Log, Debug,
  Info, Warn, Error), `Fatal`, `FatalSeesEmpty`, `Stop`, `Join`, `Joined`,
  `Exit`;
* writer (`Logger::execute`): `WriterAssign`, `WriterClear`, `WriterName`,
  `WriterWrite`, `WriterAccount`, `WriterUpdate`, `WriterDone`, `WriterExit`;
  `WriterDangling` is the undefined read of an erased list node;
* handler (`RequestLogger`, `getHistoryLog`): `RequestBegin`, `RequestTotal`,
  `RequestNoLine`, `RequestLock`, `RequestRead`, `RequestRegister`,
  `RequestFetch`, `RequestClear`, `RequestCancelled`, `RequestCancel`.

`Platform` selects what the primitives do: `MutexWorks` on "windows",
`JoinWorks` on "linux".  A lock held across steps is read off the program
counters (`MessagesUnlocked`, `RequestUnlocked`, `InboxUnlocked`).  The gRPC
service as it stands includes `unistd.h`; its handlers in the "windows" runs
stand for any subscriber that follows the same protocol with a mutex that
locks.  `StartMayFail` lets `pthread_create` fail and `OpenMayFail` lets the
file not open.  Left out: texts, levels, printing, file names.

### DataChannel

`channel` is one of `Channels`, chosen at the start and kept: `Kind` is the
class, `Driven` says whether `IDriver::registChannels` registered the driver's
functions, `Simulated` is `setSimulated(true)`.  The operators
`Compare`, `Replace`, `StoreRead`, `StoreWritten` and `SetPlain` are what the
classes assign in getValue and setValue; they differ from class to class and
the model keeps those differences.  The driver call and the assignments after
it are two steps.  The poll thread is `PollRead` or `PollReadFails` or
`PollPlain`, `PollStore`, `PollCheck`, `PollNotify` for every subscriber,
`PollReset`; other threads do `GetValue`/`GetStore`, `SetValue`/`SetStore`,
`SetSimulatedValue`, `Subscribe`/`SubscribePush`, `Unsubscribe`.  A subscriber
reads `m_value` in its update, as `IckStormSubscriberSocket` and
`IckStormPublisher` do.  Doubles are counted in steps of which `Accuracy` make
`m_accuracy`.  Left out: the validity flags, which no modelled code reads.

### Socket

Connections are numbered in the order the client makes them.  Per connection
the model has its state, the messages under way in each direction, the server's
`isAlive`, its place in `m_clientSocketMap` and the server's thread.  `Connect`
and `Reconnect` are initialize and the end of the client's thread, which tries
to connect once more and not again (`socket.cc:528`); `Accept` is the server's
execute.  Two faults: `Break` ends a connection, with what is under way lost or
not, and `CutMessage` loses a message, which is what becomes of one that recv
cuts in a way the handlers do not put together again (`Stream` shows which).
A send on a broken connection may still succeed.  Only the Windows build
creates these threads.

### Storm

One channel.  Client: `SubscribeChannel` and `SetCallback` (the two halves of
the manager's subscriber), `GetNodeInfoList` (a request put into
`m_dataSendList`), and the steps of socketConnectHandler: `HandlerSend` to the
end of the list, `HandlerClear`, then `ReceiveUpdate`, `ReceiveSuccess`,
`ReceiveNothing`, `ReceiveFails`, and `RequestDue` after five seconds.  An
update goes to the mirror object (`Mirror`, which makes it when the name is
not registered) and to the callback.  Server: `WorkerSubscribe`, `WorkerReply`
(subscribe to the channel, answer "Success"), `WorkerIgnore`, `WorkerClosed`,
`WorkerExit`, and `PollUpdate`, the poll thread's call of update.  `stuck` is
`m_mutex` after a failed send: locked until the thread has ended.  `late` counts
the requests put in between the sending and the clearing, all of which the
clearing loses and which `RequestsKept` accounts for one by one.  `missed` is
the value of the last update that came before the callback was set: `Follows`
excuses the client only for as long as the device still has that value.

### Service

Client: `RunService` (addService), `HandlerLock`, `HandlerSend` for each
request, `HandlerUnlock`.  Server: `WorkerTake` answers "Success", and then
calls the service or finds the wrong number of parameters.  Call: `SetParam`
twice, outside the lock, `Lock`, `Execute` (reads the parameters one by one),
`Executed`.  A local thread calls the same service.  `raced` has, per caller,
the parameters that another caller set after this one and before its execution
read them (`Exposed`); `OwnParams` says that an execution has the values of
another request for exactly those parameters.

### StormManager

Two application threads make the registering calls of both managers: by
callback, by object, through the .NET functions.  A call is `Lock`, `Refused`
(no socket, NULL: returns with the mutex locked in some branches, `kept`),
`Requests` (the socket's part), `Identity`, `Store`.  The socket's thread does
`HandleUpdate` and `HandleObjects`, without the lock; meeting a `Store` may
crash it.  A mutex of an ended thread is free (`ThreadEnds`).

### Http

The application's calls run over the server's threads one by one
(`HttpThreadStep`); each thread has its own tables.  `TakeRequest` dispatches
as libevent does and then as callbackHandler does, against `callbacks`, which
is changed without lock: `Inserted` is the end of such a change, and a request
meeting it may crash.  A callback may forget to answer.  `FetchFails` is curl's
error or timeout, which is in whole seconds (`Expires`).

### ConnectionPool

`Make`, then per client `Request` (executeQuery looks the pool up once and keeps
it in `connection_pool_`, executeCommand uses that as it is; a null pointer
crashes either), `Take` (getConnection to the listing),
`Wait` (at the limit: unlock, sleep, call itself), `Count`, `Recount` (what
each level of the recursion does once more), `Execute`, `Release`, `Decrement`.
releaseConnection takes no lock and gives back the first of the active list:
`Collide` is the crash of two unprotected list operations.  `blame` records
what has happened: a lost update ("race"), giving back another's connection
("order"), a wait at the limit, a connection the server closed.  `PoolBounded`
compares `countActive` with the connections in use: it is never too small
without a lost update or a closed connection, and too large only after a wait,
whose recursion counts a connection once per level.

### Application

`document` is the contents of the two configuration files as a sequence of
elements, correct or faulty in one of five ways.  `StartSockets`,
`LoadConfigFile`, `LoadXmlFile`, then the phases of startNamespace, one `Visit`
per name in the order of the map, then the poll thread.  An object's make may
register an alias, an alias of a channel, or another object, while the loop
runs over the map.  `Lookup` is a socket thread serving a subscription at any
time; `Destroy`, `ShutdownVisit` delete the objects under whatever still runs.

### Stream, Codec, Dispatch, Declarations, Timer, Audio

`Stream` sends three messages of one to three characters and cuts them in all
ways into reads of at most `Capacity`; client and server loop differ in when
they keep `strTmp`.  `Codec` and `Dispatch` choose an input and the property
compares what the functions make of it with a reference definition.
`Declarations` takes one macro of a class at a time and keeps the two objects
these change, the parameters of each service and the list of services.  `Timer`
is the timer of a build that defines `_WINDOWS`, which the repository's own
build does not; there start only locks.  exit called from onTimer would wait
for its own thread; no code of the repository does so.  `Audio` has the loop of
LameHelper::Encode with the widths of its integers, and the slots, threads and
reports of lameHelper, which is for Windows and in no build target.  A file
that gives samples before any header makes decode divide by zero (`DecodeEnd`).
`EncodeEnds` excuses data that is longer than a buffer and not a multiple of
four bytes, for which the loop goes back for good, and `ExitReturns` a timer
whose state is RUNNING although its thread has ended (`RunningForGood`).

## Runs

Passing:

* `logger_windows`: two callers, up to three messages of theirs and those the
  code logs itself, one client asking for two lines or for everything, files
  that roll after two lines.  Enough for a push in every gap of the writer, a
  Fatal against a Log, a request before, between and after batches, a request
  over several files and a roll between the counting and the reading.
* `logger_fatal`: the build without lock, without clients; the thread or the
  file may fail to be created and two threads call Fatal.  Order survives,
  although messages may be lost.  A lost batch stays in the history's count of
  its file: `WrittenInOrder` says that a count never runs short and that it is
  exact for the file that the next batch goes to.
* `logger_live`: `EventuallyWritten` with a working mutex.
* `channel_readonly`: the three read-only classes and ReadWriteInt behind a
  driver, two subscribers, one thread that subscribes and unsubscribes while
  update is in its loop.  No change of a read-only channel is missed; of a
  ReadWriteInt one is, when getValue reads the value that `m_oldValue` still has
  (`GoneBack`), and no other.
* `channel_all`: all classes and configurations with a reader and a writer
  beside the poll thread, without lock: what holds for each of them.
* `pool`: two clients, limits of one and two, five requests, four connections:
  a client at the limit, both releasing at once, connections closed by the
  server, an unknown database or pool name, a pool set on the database object
  or looked up.
* `storm`: two connections (the first and the one reconnection the code tries),
  one fault at any place, two values of the device, a channel that is read-only
  or not, and one that does not exist with a further request in the list.
* `service`: two connections, one fault, three requests, one of them malformed,
  a local caller; two answers fit into the client's buffer.
* `application`: all documents of two elements and of a channel with two control
  objects over three names, faulty ones and every kind of make included.
* `remote`: two threads make two registrations over four names, with and
  without "/" (`StormManager`); or one client fetches from a server with two
  threads that is started twice (`Http`), with a timeout below and one above a
  second.
* `util`: texts of up to four characters, code points around every border of
  UTF-8, three messages in all cuts, all method types, up to four declarations,
  six calls of the timer, lengths of audio data up to two buffers and the
  remainder around each, three jobs for two slots.

Violated, a finding in `PROJECT.json` with the line it contradicts:

* `logger_exit`: Fatal's "wait messages empty" does not wait for the messages
  to be written.  (`WriteDone` fails on Linux too, where a message appended
  between the writer's copy and its clear is dropped: set `Platform`.)

All runs but `channel_readonly` leave deadlock unchecked: there the process
ends, by Fatal, by a crash or by its destruction, or its callers have done
what the bounds allow and everything rests.

What the restricted properties leave out:

* getHistoryLog advances `total_line_index` by the lines read and compares with
  `<`, so it leaves out lines and reports an "unknown error" for a log that is
  fine.  `StreamExact` and `HistoryCovers` are stated for the requests that
  `InOneFile` describes.
* `ChangeNotified` fails for all simulated channels, for the read-write ones but
  the driven int, and with a second reader, whose flag update lowers: with
  `Channels` set to the class,
  TLC shows an undriven read-write int set twice to one value between two polls
  (`read_write_int.cc:83`), a driven read-write string, which never raises the
  flag when it reads (`read_write_string.cc:25`), a simulated double
  (`read_only_double.cc:50`) and a simulated int set and set back around an
  update (`read_only_int.cc:34`).
* `Mirror` leaves out the read-write double, whose getValue never calls the
  registered read function (`read_write_double.cc:33`), although
  `untyped_data.h:175` says it is executed "when you setValue or getValue".

Four facts that no property states, because there is nothing good to say of
them: Fatal waits for ever when the writer thread could not be created
(`thread.cc:24`), and `FatalExits` leaves that case out; a log request that comes
before the first counted line registers nothing (`logger.cc:267`); a client does
not subscribe again after a reconnection (`ick_storm_subscriber_socket.cc:441`),
which is why `Confirmed`, `Confirmation` and `Follows` speak of one connection;
and a reconnection is tried once (`socket.cc:528`).

Bounds.  `MaxMessages` bounds the callers' messages and not the ones the code
logs itself; `MaxOps` bounds device changes, writes and subscriptions together,
`MaxValue` the values; the others are named where they are declared.  The
violations we met need at most three operations and two values; the passing runs
allow as many, and the safety results of logger, channel, storm, storm managers,
service, pool, HTTP, application, declarations, timer and audio are proved without
bounds.  `ChangeNotified`, `Mirror` and `Quiesces` are stated
as "from some time on", which with bounded changes is "once the changes are
over".  The pool's recursion is bounded by `MaxDepth`: a client that has slept
as often waits.

Fairness.  Threads the operating system runs keep running: weak fairness of the
logger's writer, the poll thread, the connection threads of both sides, the
server threads, the main thread during start-up, and of a call that is under
way; the five seconds until a request is repeated and a timeout of a second or
more do pass; a subscriber call that has reached the socket goes on to set the
callback; execute of a service returns.  Two assumptions are strong: a thread
that polls `m_mutex` in Fatal gets it some time (the writer leaves it free for
100 ms in every round), and a driver that is asked for ever answers some time.
Callers, the device and the network are not assumed to do anything.

## Proofs

`LoggerProofs`:

* `TypeCorrect`.  `TypeOK` alone is not inductive, because the writer updates
  the last history entry and handlers read lines by position; `HistoryOK` says
  that the entry is there and the lines exist.
* `NoMessageLost`: `NothingLost`, for any number of threads and messages.  The
  inductive invariant adds that while the writer is between copy and clear its
  batch is `m_messages`, which the lock guarantees.
* `LoggerImplementsService`: assuming the mutex works and files open, every
  step is a step of `LogService` or leaves its variables alone.
* `FilesInOrder`: `WrittenInOrder`, on both platforms and whatever fails to
  open.  `OrderInv` says that files, batch and list each count up and follow
  one another; between copy and clear the batch and the list overlap, and
  nothing is said of the two.  `CountInv` is the part about the history's
  counts: between writing and counting the batch belongs to the last entry.
* `LoopStaysValid`: `NoDanglingSubscriber`, assuming the mutex works.  Needed
  besides is that a listed handler is still polling and that it is listed once,
  because cancelling erases one entry (`ListedInv`).
* `BatchIsWritten`: `NoBatchCutOff`, assuming that join waits: a thread reaches
  exit only behind a join that returned (`JoinedInv`).
* `ClientsSeeEveryLine`, `ClientsGetTheirHistory`: `StreamExact` and
  `HistoryCovers`, assuming the mutex works and files open, for any number of
  clients, files and batches.  Neither is inductive.  `StreamInv` has five
  parts: the files follow one another without gap, and a line count lags behind
  its file only by the batch just written (`Tiled`); what is published is the
  end of the log, and nobody reads meanwhile (`Publishing`); the lines a handler
  has counted exist (`TotalInv`); a handler under the lock has all lines of the
  files it is past, or, if it starts in the newest file, none before that one
  (`ReadInv`); a registered client has everything up to the end of the log but
  for the batch, when the loop has yet to reach it (`CaughtUp`).  The last part
  needs that a handler is listed once, so it builds on `ListedInv`, and that a
  batch continues the log, which `Lossless` says.  `WriterName` is the step the
  restriction to `InOneFile` is for: it moves the newest file past the start of
  every request but those for everything.

`DataChannelProofs`:

* `ChannelTypeCorrect`, for all classes and platforms.
* `IteratorStaysValid`, `SubscriberIsTold`: assuming the mutex works, for all
  classes, readers and writers.  `MutexInv` says what holds while the mutex is
  held: the flag stays up and the list is not changed under the loop;
  `NoticeInv` adds that the loop has told every subscriber it is past, which is
  why lowering the flag is right.
* `NoChangeMissed`: for a driven channel of a read-only class or ReadWriteInt,
  without other readers and without writers.  `ChangeInv` is `NoticeInv` with "was handed the present value"; it is kept
  because the value changes in the poll thread's `PollStore` only.  Each
  assumption is needed: with a second reader, or for another class, TLC finds
  the property violated.

`SocketProofs` has the lemmas about `Socket` that the next two share: what a
send and a receive make of a queue, the type of `Made`, and that each socket
action keeps the types.

`StormProofs`, for any number of connections, faults, values and requests:

* `StormTypeCorrect`; the type includes that a channel is entered for
  connections in the map only, which the order of removal in WorkerExit gives.
* `RequestsAreKept`.  `RequestsInv` adds what is true between sending and
  clearing: every request was handed over, but for those that came late.
* `MapHoldsNoStaleClient`: no connection whose thread has ended is in the
  server's map.
* `SuccessIsTrue`: `Confirmed`.  The argument is one of order: the channel is
  entered before the answer is sent, and the number of a connection is used
  once, so an answer, under way or received, speaks of the entry of its own
  connection, which stays until that connection's thread ends.  `ConnInv` says
  this of every connection and its queue to the client, `InOrder` that numbers
  are given out in order.

`ServiceProofs`, for any number of callers, connections and requests:

* `ServiceTypeCorrect`.
* `ExecutesOwnParams`: `CallInv` says for every position in call which
  parameters are the caller's own, namely those that are not marked as raced.
* `RunsAtMostOnce`: `PlacesInv` says that a request is in one place only, once:
  in the list, under way on one connection, with one caller, or executed; and
  that a malformed one never gets to a caller.  A failed send keeps the request
  in the list, which is right because nothing was sent.

`ConnectionPoolProofs`, for any configuration and any number of clients and
connections:

* `PoolTypeCorrect`: lists and clients hold connections that were opened.
* `UseIsExclusive`: `Exclusive`.  `HeldApart`, which is true until a client
  gives back another's connection ("order"), says that held connections differ,
  that none of them is free and that none is free twice.  Lost updates of
  `countActive` do not matter to it.
* `PoolStaysBounded`: `PoolBounded`.  `Bookkept` counts: every connection opened
  is free, active or on its way, and those active or about to be counted down
  are no more than `countActive`, so that a new one is opened under the limit
  only.  It is true until an update is lost or the server closes a connection;
  a wrong release and a recursion that counts twice keep it, because they only
  make `countActive` too large.  Until somebody has waited at the limit it is
  exact, because no connection is then in two places (`OnePlace`).

`ApplicationProofs`, for every document in which the channels come before the
control objects, as the two files are loaded:

* `ApplicationTypeCorrect`: channels are in `m_datas` and control objects in
  `m_entites`, whatever a make registers.
* `CrashesAreExplained`: `CrashFree`.  `FreedInv` says that a deleted object was
  reached under one of its names, at or before the loop's position: a second
  deletion then needs a second name.
* `LateRequestsFind`: `FoundUnlessEarly`; from the end of the start-up on the
  maps do not change (`FoundInv`).
* `PhasesAreOrdered`: `PhasesInOrder`.  The loop runs over a map that make
  extends, so `LoopInv` says that a loop has called only objects it has reached
  (`Reached`) and nothing of a later phase (`NotAhead`), that a configured
  object is done with the phases before the present one (`ConfiguredDone`) and
  every object with those after make (`AllDone`), and that a second call needs
  a second name (`NotTwice`).

`SupportProofs`.  Of `Http`, for any number of threads, paths, clients, starts and
stops:

* `TablesAgree`: a call of the application goes through the threads one by one
  while they serve.  `CallInv` says what the threads it has reached have, for
  each kind of call; `TableInv` relates the tables of all threads to what has
  been set.
* `HttpTypeCorrect`, and `RequestsAnsweredRight`: `AnsweredRight`, which follows
  from `TableInv` at the step that takes the request.

Of `StormManager`, for any number of threads, managers, names and registrations:

* `ManagersTypeCorrect`: calls, maps and mutexes.  `MutexInv`, that who is in a call
  holds the mutex and a mutex held longer is one that a call kept, is needed for
  the unlocking.
* `RegisteredAreCalled`: `Heard`.  `ListInv` says that the lists of the manager
  that delivers are, path by path, the registrations for that path in their
  order; `UpdateInv` says what an update has called, in terms of the
  registrations there were when it looked, which later ones do not change.  A
  `Store` adds one registration to one list of one map.  That the code's lookup
  of a node, the name up to its last "/", finds the callbacks `IsNode` means
  (`NodePath`) is an induction over the name, carried out with the least
  number of a set (`Least`).
* `MapsChangeInTurn`: from `MutexInv`, one thread at a time is in the locked part of
  a call.

Of `Declarations`, for any number of services, parameters and declarations:

* `ValuesReachTheirParams`: `ParamsExact`, the part of `DispatchExact` that is
  about services.  `InfoInv` says that a service has the parameters declared for
  it, each with the number of the names before its last declaration, so that one
  declared again counts itself; `ServicesInv` says that a service is in the list once, with the parameters its
  own object has, which is why it does not matter where it was declared.

Of `Timer`, for any number of callers:

* `ExitCanReturn`: the thread that exit waits for lives, knows that it is to end
  and is not suspended.  `SuspendInv` and `ThreadInv` say when a thread is
  suspended and when it lives, from the state and the position of the one caller
  that is in a call.  Left out is a timer that a start after an exit has put into
  the state RUNNING when its thread had ended, since the exit flag is never reset.
* `TimerHasOneThread`, an action property.

Of `Audio`:

* `BuffersEncodedOnce`: `EncodedOnce`, for any size of the buffer and widths of
  the integers.  `ReadCases` computes what the code's unsigned arithmetic makes of
  `read`: the full buffer, 0 exactly at the end of the data, and minus the frames
  that are missing otherwise.  The loop of whole frames therefore goes forward
  buffer by buffer (`Forward`) and back once (`Back`); for other data the count
  is never 0 once it has gone back, so the loop does not end.
* `ThreadsReportRight`, `ThreadsKeepTheirSlots`: `ReportsRight` and `JobsKept`.
  `SlotInv` says what a thread that runs has reported so far; `CountInv` counts
  the slots whose thread runs.

These theorems are of the specification of each part (`HttpSpec`, `ManagerSpec`,
`DeclarationsSpec`, `TimerSpec`, `EncoderSpec`, `HelperSpec`); the runs `remote` and
`util` take the same steps in the states in which they have chosen the part.

The proofs use the named assumptions on the constants (`LoggerAssumption`,
`ChannelAssumption`, `SocketAssumption`, `StormAssumption`,
`ServiceAssumption`, `PoolAssumption`, `HttpAssumption`,
`ApplicationAssumption`, `StormManagerAssumption`, `AudioAssumption`,
`WidthAssumption`), which TLC evaluates in every run of the module.
`WidthAssumption` has, besides that a buffer is shorter than an int can tell
(16384 bytes on the platforms), the relations of the powers of two involved,
because the provers have no arithmetic of powers.

Only model-checked:

* the liveness properties (`FatalExits`, `EventuallyWritten`, `ChangeNotified`,
  `Mirror`, `Quiesces`, the two `Served`, `MutexFreed`, `Confirmation`,
  `Follows`, `Started`, `ExitReturns`, `EncodeEnds`, `CallsReturn`,
  `FetchReturns`), which are out of TLAPS's reach;
* `TextExact`, `HandledExactly`, and of `DispatchExact` what it says of method
  calls: `Codec`, and with it `Stream` and `Dispatch`, uses recursive operators,
  for which no theorem can be proved here.

Of `EncodeEnds` the liveness is model-checked and the safety (`EncodedOnce`,
`ReportsRight`, `JobsKept`) is proved as well; `ExitCanReturn` is what can be
proved of `ExitReturns`.

## Not modelled

* The forwarders: not part of the build (`src/BUILD`), and written against
  headers that no longer exist.
* Publisher, subscriber, topics and data of the former Ice transport
  (`ick_storm_publisher.cc` and others, `ick_data_manager.cc`): nothing creates
  these objects.  `configure.cc` likewise has no user.
* The debugger socket: its handlers keep no state.
* Of `socket.cc`: UDP, and socketRecvProc, socketSendProc and dataProcessProc,
  which are never started.
* Of the storm sockets: the requests no client sends (Unsubscribe, RunService on
  the subscriber socket), a ChannelList with three fields, subscriptions to a
  whole node; of IckStormManager: its copies of the lookups, which have no
  caller.
* The gRPC client and the service implementation forward one call each; serial
  port and protocol have no operations.
* Conversions of numbers and times, message texts, SQL, the samples of audio
  data, and what MySQL, libevent, curl, LAME, gRPC and the XML library do beyond
  the outcomes the code tells apart.
