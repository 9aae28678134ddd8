-------------------------- MODULE MCConnectionPool --------------------------
(* Model values and configurations for TLC.                                *)
EXTENDS ConnectionPool

\* Limits below and at the number of clients, an unknown pool, a pool
\* that was set, an unknown data base, and more initial connections than the
\* limit.
SmallConfigs ==
  {c \in [initConnections : 0 .. 2, maxActiveConnections : 1 .. 2,
          mySql : BOOLEAN, set : BOOLEAN, name : {"", "pool", "other"}] :
     /\ ~c.mySql => c.initConnections = 1 /\ c.name = ""
     /\ c.name # "" => c.initConnections = 0 /\ c.maxActiveConnections = 1
     /\ c.set => c.mySql /\ c.name = "other"}
=============================================================================
