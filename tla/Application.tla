----------------------------- MODULE Application -----------------------------
(***************************************************************************)
(* The life of a server process: IApplication::run starts the sockets,     *)
(* loads the XML configuration (XmlParser), which registers channels and   *)
(* control objects with ObjectManager, and starts the namespace: every     *)
(* object goes through registChannels, make, verify, initialize and        *)
(* startup, then the poll thread starts.  ~IApplication shuts the          *)
(* namespace down and deletes all objects.                                 *)
(*                                                                         *)
(* The socket threads look objects up from the moment the sockets exist,   *)
(* the poll thread visits the channels until the process ends; nothing     *)
(* protects the maps.                                                      *)
(*                                                                         *)
(* Names are numbers in the order of std::map.  An object is the number of *)
(* the element it was made for, or that number negated when the            *)
(* application's make of the element's object made it.                     *)
(***************************************************************************)
EXTENDS Integers, Sequences, FiniteSets

CONSTANTS
  Names,      \* the full names, and
  Documents   \* the configurations considered: sequences of Elements

\* kind, of an element of io_config.xml: "channel", with an unknown "type", or
\* without a "number"; of one of control_config.xml: "object", "driver", of an
\* unknown "class", of one that makes no control object ("abstract"), or with
\* a "method" that dispatchMsg rejects.  makes: what the application's make
\* does, an "alias" for the object, for the first channel ("data") or another
\* "object", under the name arg.
Elements == [kind : {"channel", "type", "number", "object", "driver", "class",
                     "abstract", "method"},
             name : Names,
             makes : {"nothing", "alias", "data", "object"}, arg : Names]

IoKinds == {"channel", "type", "number"}

\* io_config.xml is loaded before control_config.xml.
ASSUME ApplicationAssumption ==
  /\ Names \subseteq Nat \ {0}
  /\ Documents \subseteq Seq(Elements)
  /\ \A d \in Documents : \A i, j \in DOMAIN d :
       d[i].kind \notin IoKinds /\ d[j].kind \in IoKinds => j < i

VARIABLES
  document,
  pc,                 \* where the main thread is, see Phases
  files,              \* what came of opening the two files
  next,               \* the next element to load
  cursor,             \* the name a loop over m_entites or m_datas has reached
  m_entites, m_datas, \* from names to objects
  m_callBacks,        \* the application's callbacks about the phases,
  index, told,        \* the index they are told, how often they were called
  calls,              \* per object: the phases called
  freed,              \* the objects deleted
  sockets,            \* the socket threads run
  poll,               \* the name the poll thread has reached, -1: not started
  asked, early, found,\* the names clients asked for, those asked for before the
                      \* start-up ended, those of channels that were found
  process             \* "running", "crashed" or "exited"

fileVars   == <<files, next>>
mapVars    == <<m_entites, m_datas>>
noticeVars == <<m_callBacks, index, told>>
clientVars == <<asked, early, found>>
vars == <<document, pc, fileVars, cursor, mapVars, noticeVars, calls, freed,
          sockets, poll, clientVars, process>>

Phases == <<"registChannels", "make", "verify", "initialize", "startup">>
Shutdown == <<"shutdown", "delete", "deleteData">>

Empty == [n \in {} |-> 0]
Put(map, n, o) == [m \in DOMAIN map \cup {n} |-> IF m = n THEN o ELSE map[m]]
Objects == {i : i \in DOMAIN document} \cup {-i : i \in DOMAIN document}

\* std::map::insert leaves an entry that is there alone.
Insert(map, n, o) == IF n \in DOMAIN map THEN map ELSE Put(map, n, o)

-----------------------------------------------------------------------------
(* IApplication::run.                                                      *)

\* Mutant: what was registered so far is deleted.
FailsMutant ==
  /\ pc' = "failed"
  /\ freed' = {m_entites[n] : n \in DOMAIN m_entites}
                \cup {m_datas[n] : n \in DOMAIN m_datas}
  /\ UNCHANGED process

\* An exception leaves run; the sockets go on.
Fails == pc' = "failed" /\ UNCHANGED <<freed, process>>

\* connect at a server: all ports could be opened, or one is taken.  The
\* sockets connected before that one go on.
Listens == pc' = "load" /\ UNCHANGED <<freed, process>>
ListenFails == Fails

\* addBeginMakeCallBack and the others: a callback is kept once.
AddCallBack ==
  /\ pc = "sockets"
  /\ m_callBacks' = m_callBacks \cup {"progress"}
  /\ UNCHANGED <<pc, fileVars, cursor, mapVars, index, told, calls, freed,
                 sockets, poll, clientVars, process>>

\* Network type "WAN" and the sockets enabled, or not.
StartSockets ==
  /\ pc = "sockets"
  /\ sockets' \in BOOLEAN
  /\ Listens \/ ListenFails
  /\ UNCHANGED <<fileVars, cursor, mapVars, noticeVars, calls, poll,
                 clientVars>>

Crashes == process' = "crashed" /\ UNCHANGED <<pc, freed>>

\* registerObject for a channel: a name taken by a channel is refused.
RegisterChannel(n, o) ==
  IF n \in DOMAIN m_datas THEN Fails /\ UNCHANGED m_datas
  ELSE m_datas' = Put(m_datas, n, o) /\ UNCHANGED <<pc, freed, process>>

\* LoadIO, one element.  An unknown type leaves a null pointer, which is used
\* before it is tested.
LoadIO(e) ==
  /\ e.kind \in IoKinds
  /\ CASE e.kind = "type" -> Crashes /\ UNCHANGED m_datas
       [] e.kind = "number" -> Fails /\ UNCHANGED m_datas
       [] OTHER -> RegisterChannel(e.name, next)
  /\ UNCHANGED m_entites

\* registerObject by class name: an object that is made for a name that is
\* taken is dropped.
RegisterByClass(n, o) == m_entites' = Insert(m_entites, n, o)

\* LoadControlObject, one element.  The element's methods go to the object that
\* has the name.
LoadControlObject(e) ==
  /\ e.kind \in {"object", "driver", "class", "abstract", "method"}
  /\ CASE e.kind = "class" -> Fails /\ UNCHANGED m_entites
       [] e.kind = "abstract" -> Crashes /\ UNCHANGED m_entites
       [] OTHER -> /\ RegisterByClass(e.name, next)
                   /\ IF e.kind = "method" THEN Fails
                      ELSE UNCHANGED <<pc, freed, process>>
  /\ UNCHANGED m_datas

IoElements ==
  Cardinality({i \in DOMAIN document : document[i].kind \in IoKinds})

\* loadXmlFile: a file that cannot be parsed counts as empty; without a
\* document the parser throws.
LoadXmlFile ==
  /\ pc = "load"
  /\ files = <<>> \/ (Len(files) = 1 /\ next > IoElements)
  /\ \E result \in {"parsed", "unreadable", "none"} :
       /\ files' = Append(files, result)
       /\ next' = IF result # "unreadable" THEN next
                  ELSE IF files = <<>> THEN IoElements + 1
                  ELSE Len(document) + 1
       /\ IF result = "none" THEN Fails ELSE UNCHANGED <<pc, freed, process>>
  /\ UNCHANGED <<cursor, mapVars, noticeVars, calls, sockets, poll, clientVars>>

LoadConfigFile ==
  /\ pc = "load" /\ next <= Len(document)
  /\ Len(files) = IF next <= IoElements THEN 1 ELSE 2
  /\ LoadIO(document[next]) \/ LoadControlObject(document[next])
  /\ next' = next + 1
  /\ UNCHANGED <<files, cursor, noticeVars, calls, sockets, poll, clientVars>>

-----------------------------------------------------------------------------
(* ObjectManager: loops over the objects.                                  *)

\* Mutant: the loop leaves out every second name.
AheadMutant(map) == {n \in DOMAIN map : n > cursor + 1}

\* The names a loop over the map has still to visit.
Ahead(map) == {n \in DOMAIN map : n > cursor}
IsNext(n, map) == n \in Ahead(map) /\ \A m \in Ahead(map) : n <= m

\* Mutant: verify is left out.
AfterMutant(phase) ==
  IF phase = "make" THEN "initialize"
  ELSE IF phase = "startup" THEN "running"
  ELSE Phases[1 + CHOOSE i \in 1 .. 4 : Phases[i] = phase]

\* What startNamespace does after a loop.
After(phase) ==
  IF phase = "startup" THEN "running"
  ELSE Phases[1 + CHOOSE i \in 1 .. 4 : Phases[i] = phase]

StartNamespace ==
  /\ pc = "load" /\ next > Len(document) /\ Len(files) = 2
  /\ pc' = Phases[1] /\ cursor' = 0
  /\ UNCHANGED <<fileVars, mapVars, noticeVars, calls, freed, sockets, poll,
                 clientVars, process>>

\* The driver's registChannels, or the application's make, verify, ...
Calls(o, phase) ==
  phase # "registChannels" \/ (o > 0 /\ document[o].kind = "driver")

\* registerObject of a control object: a name that is taken is refused.
RegisterObject(n, o) ==
  IF n \in DOMAIN m_entites THEN Fails /\ UNCHANGED m_entites
  ELSE m_entites' = Put(m_entites, n, o) /\ UNCHANGED <<pc, freed, process>>

\* createAlias reports a name that is taken and goes on.
CreateAlias(n, o) == m_entites' = Insert(m_entites, n, o)
CreateDataAlias(n) ==
  LET first == CHOOSE c \in DOMAIN m_datas : \A d \in DOMAIN m_datas : c <= d
  IN m_datas' = IF m_datas = Empty THEN m_datas
                ELSE Insert(m_datas, n, m_datas[first])

\* What make of object o does.
Making(o) ==
  LET e == document[IF o < 0 THEN -o ELSE o]
      does == IF o < 0 THEN "nothing" ELSE e.makes
  IN
  \/ /\ does = "nothing" /\ UNCHANGED <<mapVars, pc, freed, process>>
  \/ /\ does = "object" /\ RegisterObject(e.arg, -o) /\ UNCHANGED m_datas
  \/ /\ does = "alias" /\ CreateAlias(e.arg, o)
     /\ UNCHANGED <<m_datas, pc, freed, process>>
  \/ /\ does = "data" /\ CreateDataAlias(e.arg)
     /\ UNCHANGED <<m_entites, pc, freed, process>>

\* Except for registChannels the callbacks are called before and after, the
\* latter unless make throws.
Notify ==
  IF pc = "registChannels" THEN UNCHANGED <<index, told>>
  ELSE /\ told' = IF m_callBacks = {} THEN told
                  ELSE told + (IF pc' = "failed" THEN 1 ELSE 2)
       /\ index' = index + 1

Visit(n) ==
  /\ pc \in {Phases[i] : i \in 1 .. 5} /\ IsNext(n, m_entites)
  /\ cursor' = n
  /\ LET o == m_entites[n] IN
     /\ calls' = IF Calls(o, pc) THEN [calls EXCEPT ![o] = Append(@, pc)]
                 ELSE calls
     /\ IF pc = "make" THEN Making(o)
        ELSE UNCHANGED <<mapVars, pc, freed, process>>
  /\ Notify
  /\ UNCHANGED <<fileVars, m_callBacks, sockets, poll, clientVars>>

\* After startup the poll thread is started.
NextPhase ==
  /\ pc \in {Phases[i] : i \in 1 .. 5} /\ Ahead(m_entites) = {}
  /\ pc' = After(pc) /\ cursor' = 0 /\ index' = 0
  /\ poll' = IF pc = "startup" THEN 0 ELSE poll
  /\ UNCHANGED <<fileVars, mapVars, m_callBacks, told, calls, freed, sockets,
                 clientVars, process>>

-----------------------------------------------------------------------------
(* The other threads.                                                      *)

\* execute of ObjectManager: visit the channels in turn.
Poll ==
  /\ poll >= 0
  /\ IF \A n \in DOMAIN m_datas : n <= poll
     THEN poll' = 0 /\ UNCHANGED process
     ELSE \E n \in DOMAIN m_datas :
            /\ n > poll /\ \A m \in DOMAIN m_datas : m > poll => n <= m
            /\ poll' = n
            /\ process' = IF m_datas[n] \in freed THEN "crashed" ELSE process
  /\ UNCHANGED <<pc, fileVars, cursor, mapVars, noticeVars, calls, freed,
                 sockets, clientVars>>

\* Mutant: only the control objects are looked at.
GetObjectMutant(n) == IF n \in DOMAIN m_entites THEN m_entites[n] ELSE 0

\* getObject: a control object comes before a channel of the same name.
GetObject(n) ==
  IF n \in DOMAIN m_entites THEN m_entites[n]
  ELSE IF n \in DOMAIN m_datas THEN m_datas[n] ELSE 0

\* A socket thread handles a "Subscribe" or a "RunService" for the name n.
\* While the maps are being filled it may miss an entry.  Bound: one request;
\* it leaves nothing behind in these maps.
Lookup(n) ==
  /\ sockets /\ asked = {}
  /\ \E o \in {GetObject(n)} \cup (IF pc \in {"load", "make"} THEN {0}
                                 ELSE {}) :
       /\ process' = IF o \in freed THEN "crashed" ELSE process
       /\ found' = IF o > 0 /\ document[o].kind = "channel"
                   THEN found \cup {n} ELSE found
  /\ asked' = asked \cup {n}
  /\ early' = IF pc \in {"running"} \cup {Shutdown[i] : i \in 1 .. 3} THEN early
              ELSE early \cup {n}
  /\ UNCHANGED <<pc, fileVars, cursor, mapVars, noticeVars, calls, freed,
                 sockets, poll>>

-----------------------------------------------------------------------------
(* ~IApplication.                                                          *)

\* stop has no effect on the threads that run.
Destroy ==
  /\ pc \in {"running", "failed"}
  /\ pc' = "shutdown" /\ cursor' = 0
  /\ UNCHANGED <<fileVars, mapVars, noticeVars, calls, freed, sockets, poll,
                 clientVars, process>>

\* A second delete of an object is not survived.
Delete(o) ==
  /\ freed' = freed \cup {o}
  /\ process' = IF o \in freed THEN "crashed" ELSE process
  /\ UNCHANGED calls

\* shutdownNamespace: the three loops.
ShutdownVisit(n) ==
  /\ cursor' = n
  /\ \/ /\ pc = "shutdown" /\ IsNext(n, m_entites)
        /\ calls' = [calls EXCEPT ![m_entites[n]] = Append(@, "shutdown")]
        /\ UNCHANGED <<freed, process>>
     \/ pc = "delete" /\ IsNext(n, m_entites) /\ Delete(m_entites[n])
     \/ pc = "deleteData" /\ IsNext(n, m_datas) /\ Delete(m_datas[n])
  /\ UNCHANGED <<pc, fileVars, mapVars, noticeVars, sockets, poll, clientVars>>

\* The process ends once the destructor has returned.
ShutdownNext ==
  /\ \/ /\ pc \in {"shutdown", "delete"} /\ Ahead(m_entites) = {}
        /\ pc' = IF pc = "shutdown" THEN "delete" ELSE "deleteData"
        /\ UNCHANGED process
     \/ /\ pc = "deleteData" /\ Ahead(m_datas) = {}
        /\ process' = "exited" /\ UNCHANGED pc
  /\ cursor' = 0
  /\ UNCHANGED <<fileVars, mapVars, noticeVars, calls, freed, sockets, poll,
                 clientVars>>

-----------------------------------------------------------------------------
Init ==
  /\ document \in Documents
  /\ pc = "sockets" /\ files = <<>> /\ next = 1 /\ cursor = 0
  /\ m_entites = Empty /\ m_datas = Empty
  /\ m_callBacks = {} /\ index = 0 /\ told = 0
  /\ calls = [o \in Objects |-> <<>>] /\ freed = {}
  /\ sockets = FALSE /\ poll = -1
  /\ asked = {} /\ early = {} /\ found = {}
  /\ process = "running"

Main ==
  \/ StartSockets \/ LoadXmlFile \/ LoadConfigFile \/ StartNamespace
  \/ \E n \in Names : Visit(n)
  \/ NextPhase
  \/ \E n \in Names : ShutdownVisit(n)
  \/ ShutdownNext

Run(A) == process = "running" /\ UNCHANGED document /\ A

Next ==
  \/ Run(Main)
  \/ Run(AddCallBack)
  \/ Run(Destroy)
  \/ Run(Poll)
  \/ \E n \in Names : Run(Lookup(n))

Spec == Init /\ [][Next]_vars

\* The main and the poll thread go on when they can.
FairSpec == Spec /\ WF_vars(Run(Main)) /\ WF_vars(Run(Poll))

-----------------------------------------------------------------------------
Did(o, i) == \E k \in DOMAIN calls[o] : calls[o][k] = Phases[i]
Configured == {o \in DOMAIN document :
                 /\ document[o].kind \in {"object", "driver", "method"}
                 /\ document[o].name \in DOMAIN m_entites
                 /\ m_entites[document[o].name] = o}
Aliased(map, o) == Cardinality({n \in DOMAIN map : map[n] = o}) > 1

\* startNamespace: no configured object goes through a phase before all of
\* them went through the phase before; none goes through one twice, unless it
\* has an alias.  An object made by another's make may miss make and nothing
\* else.  The callbacks are told of a last object, the one before the count
\* they are given, except that make may add objects behind it.
PhasesInOrder ==
  /\ \A o, p \in Configured : \A i \in 1 .. 4 :
       Did(p, i + 1) => Did(o, i) \/ ~Calls(o, Phases[i])
  /\ \A o \in Objects : Did(o, 5) => Did(o, 4) /\ Did(o, 3)
  /\ \A o \in Objects : \A j, k \in DOMAIN calls[o] :
       calls[o][j] = calls[o][k] => j = k \/ Aliased(m_entites, o)
  /\ pc \in {"verify", "initialize", "startup"} /\ Ahead(m_entites) = {}
     => index = Cardinality(DOMAIN m_entites)

\* Without an element of an unknown type or class the process does not crash
\* before the objects are deleted, and then only when an object or a channel
\* has two names or a thread still uses the objects.  A failed start-up
\* leaves the sockets running and nothing deleted.
CrashFree ==
  process = "crashed" =>
    \/ \E i \in DOMAIN document : document[i].kind \in {"type", "abstract"}
    \/ /\ pc \in {"delete", "deleteData"}
       /\ \/ sockets \/ poll >= 0
          \/ \E o \in Objects : Aliased(m_entites, o) \/ Aliased(m_datas, o)

\* A client that asks for a channel after the start-up finds it, unless a
\* control object has its name.  One that asked earlier may be told "Success"
\* without being subscribed: the sockets are started before the configuration
\* is loaded.
FoundUnlessEarly ==
  \A n \in asked \ early :
    n \in DOMAIN m_datas => n \in found \cup DOMAIN m_entites

Sound == \A i \in DOMAIN document :
           /\ document[i].kind \in {"channel", "object", "driver"}
           /\ document[i].makes # "object"
           /\ \A j \in DOMAIN document :
                document[i].name = document[j].name => i = j

\* A configuration without errors is started, unless a port was taken or a
\* file has no document: every object that could be read comes to startup,
\* the callbacks are called before and after every call, and the poll thread
\* runs.
Started ==
  pc = "sockets" /\ Sound
        ~> \/ /\ poll >= 0
              /\ \A o \in DOMAIN document :
                   document[o].kind \in {"object", "driver"} =>
                     Did(o, 5) \/ files[2] = "unreadable"
              /\ m_callBacks # {} => told >= 8 * Cardinality(Configured)
           \/ pc = "failed" /\ files = <<>>
           \/ pc = "failed" /\ "none" \in {files[i] : i \in DOMAIN files}
=============================================================================
