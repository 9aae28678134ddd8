------------------------------- MODULE MCStorm -------------------------------
(* Configurations for TLC.                                                 *)
EXTENDS Storm

\* A channel the server has, and the requests with one it has not.
AllConfigs ==
  {c \in Config : IF c.exists THEN ~c.own /\ c.requests = 0
                  ELSE c.readOnly /\ c.own /\ c.requests = MaxRequests}
=============================================================================
