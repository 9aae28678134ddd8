------------------------------ MODULE MCRemote -------------------------------
(* What an application uses to reach another process: the storm managers   *)
(* with the .NET interface, and HTTP.  One of them at a time.              *)
EXTENDS StormManager, Http

VARIABLE part   \* the one that runs

MCNames == {<<>>, <<"a", "/">>, <<"a", "/", "b">>, <<"a", "-", "b">>}
MCCopyNames == {<<>>, <<"a", "/", "b">>}

vars == <<part, managerVars, httpVars>>

Init ==
  /\ part \in {"manager", "http"}
  /\ ManagerInit /\ HttpInit
  /\ part # "manager" => lan
  /\ part # "http" => \A c \in Clients : fetch[c].timeout = 3000

Managing(A) == part = "manager" /\ A /\ UNCHANGED <<part, httpVars>>
Serving(A) == part = "http" /\ A /\ UNCHANGED <<part, managerVars>>

Next == Managing(ManagerNext) \/ Serving(HttpNext)

Spec == Init /\ [][Next]_vars

\* Threads go on when they can: the callers of the managers, the server's
\* threads and a client's timeout.
FairSpec ==
  /\ Spec
  /\ \A t \in Apps : WF_vars(Managing(update.at # "crashed" /\ CallStep(t)))
  /\ WF_vars(Serving(~Crashed /\ HttpCallStep))
  /\ \A i \in HttpThreads : WF_vars(Serving(~Crashed /\ ServerThread(i)))
  /\ \A c \in Clients : WF_vars(Serving(~Crashed /\ FetchFails(c)))
=============================================================================
