--------------------------- MODULE ConnectionPool ---------------------------
(***************************************************************************)
(* The database connection pool (connection_pool.cc), the manager that     *)
(* names pools (connection_pool_manager.cc), the MySQL connection          *)
(* (mysql_connection.cc) and the callers (data_base.cc): every client      *)
(* thread takes a connection, executes a statement on it and gives it      *)
(* back.                                                                   *)
(*                                                                         *)
(* getConnection holds m_mutex, releaseConnection does not, and it gives   *)
(* back the connection listed first, whatever its argument is.  At the     *)
(* limit getConnection unlocks, sleeps and calls itself; every level of    *)
(* that recursion lists and counts the connection once more.               *)
(*                                                                         *)
(* The variable blame records which of the circumstances that spoil the    *)
(* pool's bookkeeping have occurred, so that the properties say what each  *)
(* of them can and cannot spoil.                                           *)
(***************************************************************************)
EXTENDS Integers, Sequences, FiniteSets

CONSTANTS
  Clients,      \* the threads that execute statements
  Configs,      \* the configurations considered, see Config
  MaxDepth,     \* bound: how often one request sleeps at the limit
  MaxRequests,  \* bound: the requests made
  MaxOpened     \* bound: the connections opened

\* What the setters called from the XML configuration leave in the pool and
\* in the database object: the sizes, whether the data base is one that
\* newConnection knows, and of the database object its pool, when
\* setConnectionPool was called with one, and its pool name ("" when it is
\* not set).
Config == [initConnections : Nat, maxActiveConnections : Nat,
           mySql : BOOLEAN, set : BOOLEAN, name : {"", "pool", "other"}]

ASSUME PoolAssumption ==
  /\ Configs \subseteq Config
  /\ MaxDepth \in Nat /\ MaxRequests \in Nat /\ MaxOpened \in Nat

NULL == 0  \* no connection; connections are numbered from 1

VARIABLES
  config,             \* one of Configs; it never changes
  link,               \* link[c]: connection_ of the c-th connection opened
  freeConnections, activeConnections, countActive,
  pools,              \* ConnectionPoolManager::pools, the names in it
  connection_pool_,   \* of the database object: not null
  pc, conn, depth,    \* per client: position, connection held, recursion
  requests,           \* requests made so far
  blame,              \* what has happened: "race", "order", "wait", "closed"
  process             \* "making", "running", "aborted" or "crashed"

listVars   == <<freeConnections, activeConnections, countActive>>
poolVars   == <<pools, connection_pool_>>
clientVars == <<pc, conn, depth>>
vars == <<config, link, listVars, poolVars, clientVars, requests, blame,
          process>>

opened == Len(link)
Step(t, from, to) == pc[t] = from /\ pc' = [pc EXCEPT ![t] = to]

-----------------------------------------------------------------------------
(* Opening connections.                                                    *)

\* open: the driver connects, or its exception is logged and connection_
\* stays null.
OpenResults == {"up", "null"}

\* isClosed is false for a connection that was never established, so
\* isValid takes it for a good one.
IsClosed(c) == link[c] = "closed"
IsValid(c)  == c # NULL /\ ~IsClosed(c)

\* newConnection returns NULL for every data base but MySql.
NewConnection == config.mySql

\* getPool of the manager: without a name the only pool there is.
GetPool(name) ==
  IF name = "" THEN Cardinality(pools) = 1 ELSE name \in pools

\* addPool of the manager.
AddPool(name) == pools' = pools \cup {name}

\* make: open the initial connections and enter the pool in the manager.  A
\* connection the server closed at once makes it throw.
Make ==
  /\ process = "making"
  /\ \/ /\ NewConnection /\ opened < config.initConnections
        /\ \E r \in OpenResults :
             /\ link' = Append(link, r)
             /\ freeConnections' = Append(freeConnections, opened + 1)
        /\ UNCHANGED process
        /\ UNCHANGED pools
     \/ /\ NewConnection /\ opened < config.initConnections
        /\ process' = "aborted"
        /\ UNCHANGED <<link, freeConnections, pools>>
     \/ /\ NewConnection => opened = config.initConnections
        /\ process' = "running"
        /\ AddPool("pool")
        /\ UNCHANGED <<link, freeConnections>>
  /\ UNCHANGED <<config, connection_pool_, activeConnections, countActive,
                 clientVars, requests, blame>>

-----------------------------------------------------------------------------
(* getConnection and releaseConnection.                                    *)

\* m_mutex is free: the innermost getConnection holds it until it returns.
Unlocked == \A u \in Clients : pc[u] # "count"

\* executeQuery looks the pool up when connection_pool_ is still null,
\* executeCommand does not.  When the manager does not know the pool the
\* error is logged; either way a null pointer is used all the same.
Request(t) ==
  /\ Step(t, "idle", "get")
  /\ requests < MaxRequests
  /\ requests' = requests + 1
  /\ \/ connection_pool_' = (connection_pool_ \/ GetPool(config.name))
     \/ UNCHANGED connection_pool_
  /\ process' = IF connection_pool_' THEN process ELSE "crashed"
  /\ depth' = [depth EXCEPT ![t] = 0]
  /\ UNCHANGED <<link, listVars, pools, conn, blame>>

\* Mutants: a limit that is one too high, or one too low.
UnderLimitHighMutant == countActive <= config.maxActiveConnections
UnderLimitLowMutant  == countActive + 1 < config.maxActiveConnections

UnderLimit == countActive < config.maxActiveConnections

\* Mutant: the connection taken stays in the list.
PopFrontMutant == freeConnections

PopFront == Tail(freeConnections)

\* getConnection under the limit: take the first free connection or open a
\* new one.
Take(t) ==
  /\ Step(t, "get", "count")
  /\ Unlocked
  /\ UnderLimit
  /\ \/ /\ freeConnections # <<>>
        /\ conn' = [conn EXCEPT ![t] = Head(freeConnections)]
        /\ freeConnections' = PopFront
        /\ UNCHANGED link
     \/ /\ freeConnections = <<>> /\ NewConnection
        /\ opened < MaxOpened
        /\ \E r \in OpenResults : link' = Append(link, r)
        /\ conn' = [conn EXCEPT ![t] = opened + 1]
        /\ UNCHANGED freeConnections
     \/ /\ freeConnections = <<>> /\ ~NewConnection
        /\ conn' = [conn EXCEPT ![t] = NULL]
        /\ UNCHANGED <<link, freeConnections>>
  /\ UNCHANGED <<activeConnections, countActive, poolVars, depth, requests, blame,
                 process>>

\* getConnection at the limit: unlock, sleep, call itself.
Wait(t) ==
  /\ pc[t] = "get"
  /\ Unlocked
  /\ ~UnderLimit
  /\ depth[t] < MaxDepth
  /\ depth' = [depth EXCEPT ![t] = @ + 1]
  /\ blame' = blame \cup {"wait"}
  /\ UNCHANGED <<link, listVars, poolVars, pc, conn, requests, process>>

\* Another thread is changing countActive: one of the two changes can be
\* lost.  Two threads in "count" cannot be, they hold m_mutex.
Racing(t) ==
  \E u \in Clients \ {t} :
    /\ pc[u] \in {"count", "recount", "decrement"}
    /\ {pc[t], pc[u]} # {"count"}

Add(t, n) ==
  IF Racing(t)
  THEN /\ countActive' \in {countActive, countActive + n}
       /\ blame' = blame \cup {"race"}
  ELSE countActive' = countActive + n /\ UNCHANGED blame

\* The end of getConnection: list and count a valid connection and unlock.
CountConnection(t) ==
  /\ IF IsValid(conn[t])
     THEN Add(t, 1) /\ activeConnections' = Append(activeConnections, conn[t])
     ELSE UNCHANGED <<activeConnections, countActive, blame>>
  /\ UNCHANGED <<link, freeConnections, poolVars, conn, requests, process>>

Count(t) ==
  /\ Step(t, "count", IF depth[t] = 0 THEN "use" ELSE "recount")
  /\ CountConnection(t)
  /\ UNCHANGED depth

\* The outer levels of the recursion do the same, without the mutex.
Recount(t) ==
  /\ Step(t, "recount", IF depth[t] = 1 THEN "use" ELSE "recount")
  /\ depth' = [depth EXCEPT ![t] = @ - 1]
  /\ CountConnection(t)

\* The connection's executeQuery and executeCommand catch what the driver
\* throws; a null connection_ is used.
Crashes(c) == link[c] = "null"

\* executeQuery, executeCommand: without a connection there is nothing to
\* release.
Execute(t) ==
  /\ Step(t, "use", IF conn[t] = NULL THEN "idle" ELSE "release")
  /\ process' = IF conn[t] # NULL /\ Crashes(conn[t]) THEN "crashed"
                ELSE process
  /\ UNCHANGED <<link, listVars, poolVars, conn, depth, requests, blame>>

PushBack(c) == Append(freeConnections, c)

\* list::remove: every entry for c goes, the others keep their order.
ListRemove(list, c) ==
  LET kept == {i \in DOMAIN list : list[i] # c}
      Place(i) == Cardinality({j \in kept : j <= i})
  IN  [p \in 1 .. Cardinality(kept) |-> list[CHOOSE i \in kept : Place(i) = p]]

\* releaseConnection: move the connection listed first to the free ones.
Release(t) ==
  /\ Step(t, "release", IF activeConnections = <<>> THEN "idle"
                        ELSE "decrement")
  /\ IF activeConnections = <<>> THEN UNCHANGED <<listVars, blame>>
     ELSE LET c == Head(activeConnections) IN
          /\ activeConnections' = ListRemove(activeConnections, c)
          /\ freeConnections' = PushBack(c)
          /\ blame' = IF c = conn[t] THEN blame ELSE blame \cup {"order"}
          /\ UNCHANGED countActive
  /\ UNCHANGED <<link, poolVars, conn, depth, requests, process>>

Decrement(t) ==
  /\ Step(t, "decrement", "idle")
  /\ Add(t, -1)
  /\ UNCHANGED <<link, freeConnections, activeConnections, poolVars, conn, depth,
                 requests, process>>

\* releaseConnection changes the lists while another thread does: a broken
\* list.
Collide(t, u) ==
  /\ t # u
  /\ pc[t] = "release" /\ activeConnections # <<>>
  /\ pc[u] \in {"release", "count", "recount"}
  /\ process' = "crashed"
  /\ blame' = blame \cup {"race"}
  /\ UNCHANGED <<link, listVars, poolVars, clientVars, requests>>

\* The server closes a connection.
ServerCloses(c) ==
  /\ link[c] = "up"
  /\ link' = [link EXCEPT ![c] = "closed"]
  /\ blame' = blame \cup {"closed"}
  /\ UNCHANGED <<listVars, poolVars, clientVars, requests, process>>

-----------------------------------------------------------------------------
Init ==
  /\ config \in Configs
  /\ link = <<>>
  /\ freeConnections = <<>> /\ activeConnections = <<>> /\ countActive = 0
  /\ pools = {} /\ connection_pool_ = config.set
  /\ pc = [t \in Clients |-> "idle"]
  /\ conn = [t \in Clients |-> NULL]
  /\ depth = [t \in Clients |-> 0]
  /\ requests = 0 /\ blame = {} /\ process = "making"

Run(A) == process = "running" /\ UNCHANGED config /\ A

Client(t) ==
  \/ Take(t) \/ Wait(t) \/ Count(t) \/ Recount(t) \/ Execute(t) \/ Release(t)
  \/ Decrement(t)

Next ==
  \/ Make
  \/ \E t \in Clients : Run(Request(t))
  \/ \E t \in Clients : Run(Take(t))
  \/ \E t \in Clients : Run(Wait(t))
  \/ \E t \in Clients : Run(Count(t))
  \/ \E t \in Clients : Run(Recount(t))
  \/ \E t \in Clients : Run(Execute(t))
  \/ \E t \in Clients : Run(Release(t))
  \/ \E t \in Clients : Run(Decrement(t))
  \/ \E t, u \in Clients : Run(Collide(t, u))
  \/ \E c \in 1 .. opened : Run(ServerCloses(c))

Spec == Init /\ [][Next]_vars

\* A thread that can go on does.
FairSpec == Spec /\ \A t \in Clients : WF_vars(Run(Client(t)))

-----------------------------------------------------------------------------
\* The connections listed as active, and the clients that have given one
\* back and not counted it down yet.
InUse == Cardinality({activeConnections[i] : i \in DOMAIN activeConnections})
           + Cardinality({t \in Clients : pc[t] = "decrement"})

\* getConnection's limit and the count it is compared with.  Neither giving
\* back the wrong connection nor the repeated counting makes the count too
\* small, or the pool open more than its limit allows: only a lost update or
\* a connection the server closed does.  And the count is too large only
\* when somebody has waited at the limit.
PoolBounded ==
  /\ blame \subseteq {"order", "wait"} =>
       /\ opened <= IF config.initConnections > config.maxActiveConnections
                    THEN config.initConnections ELSE config.maxActiveConnections
       /\ InUse <= countActive
  /\ blame \subseteq {"order"} => InUse = countActive

\* Two threads execute on the same connection only after releaseConnection
\* gave back one that another thread was using.
Exclusive ==
  "order" \notin blame =>
    \A t, u \in Clients :
      /\ t # u
      /\ {pc[t], pc[u]} \subseteq {"count", "recount", "use", "release"}
      /\ conn[t] # NULL
      => conn[t] # conn[u]

\* With no more clients than the limit nobody waits, and everybody is
\* served, as long as no update is lost and no connection is closed.
Served ==
  \A t \in Clients :
    /\ pc[t] = "get"
    /\ Cardinality(Clients) <= config.maxActiveConnections
    ~> \/ pc[t] = "use" \/ process # "running"
       \/ blame \cap {"race", "closed"} # {}
=============================================================================
