--------------------------------- MODULE Http --------------------------------
(***************************************************************************)
(* HttpServer with its HttpServerThreads, and HttpClient.  The application *)
(* sets callbacks, starts, stops and deletes the server in one thread; the *)
(* event loop of each server thread takes requests meanwhile, from the     *)
(* tables of its own evhttp, and the server's map of callbacks is read and *)
(* written without a lock.  Clients fetch with a timeout.                  *)
(*                                                                         *)
(* libevent and curl are external.  Who answered stands for the answer: a  *)
(* path for its callback, "generic", "default" for defaultGenericCallback, *)
(* "404" for libevent.                                                     *)
(***************************************************************************)
EXTENDS Integers

CONSTANTS
  Paths,
  ThreadNum,     \* threadNum
  Clients,
  Timeouts,      \* the fetch timeouts considered, in milliseconds
  MaxFetches,    \* bound: requests of a client,
  MaxStarts      \* bound: and starts of the server

ASSUME HttpAssumption ==
  /\ ThreadNum \in Nat \ {0} /\ MaxFetches \in Nat /\ MaxStarts \in Nat
  /\ Timeouts \subseteq Nat

VARIABLES
  callbacks, genericCallback, isRunning,
  listening,     \* the socket is bound
  httpCall,      \* the application's call: what, and for which threads still
  tables,        \* per thread: cbs and gencb of its evhttp, and its loop
  serving,       \* per thread: the client and who answers it
  fetch,         \* per client: its object and its call
  starts,
  set,           \* the paths whose SetCallback has returned
  lastGeneric    \* SetGenericCallback returned: "never", "before" the last
                 \* Start began, or "after" it

tableVars == <<callbacks, genericCallback>>
runVars == <<isRunning, listening, starts>>
setVars == <<set, lastGeneric>>
httpVars == <<tableVars, runVars, setVars, httpCall, tables, serving, fetch>>

HttpThreads == 1 .. ThreadNum
NoCall == [op |-> "none"]
Nobody == [client |-> "none"]

HttpInit ==
  /\ callbacks = {} /\ genericCallback = FALSE /\ isRunning = FALSE
  /\ listening = FALSE /\ httpCall = NoCall /\ starts = 0
  /\ tables = [i \in HttpThreads |-> [cbs |-> {}, gencb |-> "none",
                                      loop |-> FALSE]]
  /\ serving = [i \in HttpThreads |-> Nobody]
  /\ fetch \in [Clients -> [at : {"idle"}, timeout : Timeouts, n : {0},
                            path : {""}, ok : {FALSE}]]
  /\ set = {} /\ lastGeneric = "never"

-----------------------------------------------------------------------------
(* The application's thread.                                               *)

BeginHttp(op, path) == httpCall' = [op |-> op, path |-> path, i |-> 1]

\* SetCallback of a new path; one that is there stays.
SetCallback(p) ==
  /\ httpCall = NoCall /\ p \notin callbacks
  /\ BeginHttp("insert", p)
  /\ UNCHANGED <<tableVars, runVars, setVars, tables, serving, fetch>>

\* The map has the path.
Inserted ==
  /\ httpCall.op = "insert"
  /\ callbacks' = callbacks \union {httpCall.path}
  /\ BeginHttp("callback", httpCall.path)
  /\ UNCHANGED <<runVars, setVars, genericCallback, tables, serving, fetch>>

\* SetGenericCallback; a second one is ignored.
SetGenericCallback ==
  /\ httpCall = NoCall /\ ~genericCallback
  /\ genericCallback' = TRUE
  /\ BeginHttp("generic", "")
  /\ UNCHANGED <<runVars, setVars, callbacks, tables, serving, fetch>>

\* Start: the socket may not be had.
HttpStart ==
  /\ httpCall = NoCall /\ ~isRunning /\ starts < MaxStarts
  /\ starts' = starts + 1
  /\ \/ /\ listening' = TRUE /\ BeginHttp("start", "")
        /\ lastGeneric' = IF lastGeneric = "after" THEN "before"
                          ELSE lastGeneric
     \/ UNCHANGED <<listening, httpCall, lastGeneric>>
  /\ UNCHANGED <<tableVars, isRunning, tables, serving, fetch, set>>

\* Stop and the destructor, which stops first.
HttpStop ==
  /\ httpCall = NoCall
  /\ \/ isRunning /\ BeginHttp("stop", "")
     \/ BeginHttp("delete", "")
  /\ UNCHANGED <<tableVars, runVars, setVars, tables, serving, fetch>>

\* HttpServerThread::Start, which may not get the socket to accept from.
ThreadStart(table) ==
  {table, [table EXCEPT !.gencb = "default", !.loop = TRUE]}

\* Mutant: SetCallback reaches the first thread only.
ForEachThreadMutant(i) ==
  httpCall' = [httpCall EXCEPT !.i = IF httpCall.op = "callback"
                                     THEN ThreadNum + 1 ELSE i + 1]

\* The loops over serverThreads.
ForEachThread(i) == httpCall' = [httpCall EXCEPT !.i = i + 1]

\* One thread's part in a call.  HttpServerThread::Stop waits for its loop,
\* and thereby for a callback that runs.
HttpThreadStep ==
  /\ httpCall # NoCall /\ httpCall.op # "insert" /\ httpCall.i \in HttpThreads
  /\ LET i == httpCall.i IN
     /\ CASE httpCall.op = "callback" ->
               tables' = [tables EXCEPT ![i].cbs = @ \union {httpCall.path}]
          [] httpCall.op = "generic" ->
               tables' = [tables EXCEPT ![i].gencb = "server"]
          [] httpCall.op = "start" ->
               \E t \in ThreadStart(tables[i]) :
                 tables' = [tables EXCEPT ![i] = t]
          [] httpCall.op \in {"stop", "delete"} ->
               /\ serving[i] = Nobody
               /\ tables' = [tables EXCEPT ![i].loop = FALSE]
     /\ ForEachThread(i)
  /\ UNCHANGED <<tableVars, runVars, setVars, serving, fetch>>

\* The call returns.
HttpReturn ==
  LET op == httpCall.op IN
  /\ httpCall # NoCall /\ op # "deleted" /\ httpCall.i > ThreadNum
  /\ httpCall' = IF op = "delete" THEN [httpCall EXCEPT !.op = "deleted"]
                 ELSE NoCall
  /\ isRunning' = IF op \in {"start", "stop", "delete"} THEN op = "start"
                  ELSE isRunning
  /\ listening' = (listening /\ op \notin {"stop", "delete"})
  /\ set' = IF op = "callback" THEN set \union {httpCall.path} ELSE set
  /\ lastGeneric' = IF op = "generic" THEN "after" ELSE lastGeneric
  /\ UNCHANGED <<tableVars, tables, serving, fetch, starts>>

-----------------------------------------------------------------------------
(* A server thread.                                                        *)

\* callbackHandler.  A lookup while the map is being changed can miss; then,
\* without a generic callback, the process ends.
CallbackHandler(p) ==
  LET generic == IF genericCallback THEN "generic" ELSE "crash" IN
  (IF p \in callbacks THEN {p} ELSE {generic})
    \union (IF httpCall.op = "insert" THEN {generic} ELSE {})

\* evhttp: the path's callback, or the generic one.
Dispatched(i, p) ==
  IF p \in tables[i].cbs \/ tables[i].gencb = "server" THEN CallbackHandler(p)
  ELSE {IF tables[i].gencb = "none" THEN "404" ELSE "default"}

\* A request is taken; what the application had set by then is noted.
TakeRequest(i, c) ==
  /\ tables[i].loop /\ serving[i] = Nobody /\ fetch[c].at = "sent"
  /\ \E by \in Dispatched(i, fetch[c].path) :
       serving' = [serving EXCEPT ![i] =
         [client |-> c, path |-> fetch[c].path, by |-> by,
          calling |-> httpCall.op, set |-> set, generic |-> lastGeneric]]
  /\ fetch' = [fetch EXCEPT ![c].at = "taken"]
  /\ UNCHANGED <<tableVars, runVars, setVars, httpCall, tables>>

Waits(i) == LET c == serving[i].client IN fetch[c].at = "taken"

\* The client has its answer; the body goes to response_body_, behind what
\* earlier answers left there.
Answered(c, by) ==
  fetch' = [fetch EXCEPT ![c].at = "idle", ![c].ok = by # "404"]

\* The callback returns, with SendReply or without: an application's own may
\* forget it.
CallbackReturns(i) ==
  /\ serving[i] # Nobody /\ serving[i].by # "crash"
  /\ serving' = [serving EXCEPT ![i] = Nobody]
  /\ \/ Waits(i) /\ Answered(serving[i].client, serving[i].by)
     \/ /\ Waits(i) /\ serving[i].by \notin {"default", "404"}
        /\ fetch' = [fetch EXCEPT ![serving[i].client].at = "forgotten"]
     \/ ~Waits(i) /\ UNCHANGED fetch
  /\ UNCHANGED <<tableVars, runVars, setVars, httpCall, tables>>

-----------------------------------------------------------------------------
(* A client.                                                               *)

FetchUrl(c, p) ==
  /\ fetch[c].at = "idle" /\ fetch[c].n < MaxFetches
  /\ fetch' = [fetch EXCEPT ![c].at = "sent", ![c].n = @ + 1, ![c].path = p]
  /\ UNCHANGED <<tableVars, runVars, setVars, httpCall, tables, serving>>

\* Mutant: the seconds are taken for minutes.
ExpiresMutant(milliseconds) == milliseconds \div 60000 > 0

\* CURLOPT_TIMEOUT in whole seconds; 0 is none.
Expires(milliseconds) == milliseconds \div 1000 > 0

\* curl fails: nobody listens, the server is gone, or the time is over.
FetchFails(c) ==
  /\ \/ fetch[c].at = "sent" /\ ~listening
     \/ fetch[c].at \in {"sent", "taken", "forgotten"}
          /\ (Expires(fetch[c].timeout) \/ httpCall.op = "deleted")
  /\ fetch' = [fetch EXCEPT ![c].at = "idle", ![c].ok = FALSE]
  /\ UNCHANGED <<tableVars, runVars, setVars, httpCall, tables, serving>>

Crashed == \E i \in HttpThreads : serving[i] # Nobody /\ serving[i].by = "crash"

HttpCallStep == Inserted \/ HttpThreadStep \/ HttpReturn
ServerThread(i) == CallbackReturns(i) \/ \E c \in Clients : TakeRequest(i, c)

HttpNext ==
  /\ ~Crashed
  /\ \/ \E p \in Paths : SetCallback(p)
     \/ Inserted
     \/ SetGenericCallback
     \/ HttpStart
     \/ HttpStop
     \/ HttpThreadStep
     \/ HttpReturn
     \/ \E i \in HttpThreads, c \in Clients : TakeRequest(i, c)
     \/ \E i \in HttpThreads : CallbackReturns(i)
     \/ \E c \in Clients, p \in Paths : FetchUrl(c, p)
     \/ \E c \in Clients : FetchFails(c)

HttpSpec == HttpInit /\ [][HttpNext]_httpVars

-----------------------------------------------------------------------------
\* SetCallback, Start, callbackHandler: a request for a path whose SetCallback
\* had returned is answered by its callback, by every thread and however often
\* the server was stopped and started since; one for a path never set, by the
\* generic callback if that was set after the server was last started, and by
\* the default one otherwise, also when the generic one was set before.  Only
\* a request taken while a path is being entered may meet another fate.
AnsweredRight ==
  \A i \in HttpThreads :
    LET s == serving[i] IN
    s # Nobody /\ s.calling # "insert" =>
      /\ s.path \in s.set => s.by = s.path
      /\ s.path \notin callbacks /\ s.calling \notin {"generic", "start"} =>
           s.by = IF s.generic = "after" THEN "generic" ELSE "default"

\* FetchUrl returns: answered, refused or by its timeout; one with a timeout
\* below a second, which is none, may wait for good for a server without a
\* running thread or an answer its callback forgot.
FetchReturns ==
  \A c \in Clients :
    fetch[c].at # "idle" ~>
      \/ fetch[c].at = "idle" \/ Crashed
      \/ /\ fetch[c].timeout < 1000
         /\ fetch[c].at = "forgotten" \/ ~\E i \in HttpThreads : tables[i].loop
=============================================================================
