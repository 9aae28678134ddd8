----------------------------- MODULE Declarations ----------------------------
(***************************************************************************)
(* The services of a class and their parameters: the static objects that   *)
(* the macros of control_object.h make before main starts, and how call    *)
(* finds the parameter of a value.  A macro is a step; which ones a class  *)
(* has, and in which order, is chosen.                                     *)
(***************************************************************************)
EXTENDS Integers, Sequences, FiniteSets, FiniteSetsExt

CONSTANTS
  ServiceNames, ParamNames,
  MaxDeclared    \* bound: the declarations of a class

ASSUME DeclarationsAssumption == MaxDeclared \in Nat

VARIABLES
  declared,   \* the macros of a class, in the order of its source
  info,       \* m_info of each service: its parameters with their indices
  list        \* m_serviceInfoList

declarationsVars == <<declared, info, list>>

NoParam == ""
Macros == [service : ServiceNames, param : {NoParam} \union ParamNames]

DeclarationsInit ==
  declared = <<>> /\ info = [s \in ServiceNames |-> <<>>] /\ list = <<>>

\* Mutant: a parameter declared again keeps its number.
AddServiceParamMutant(params, name) ==
  [p \in DOMAIN params \union {name} |->
     IF p \in DOMAIN params THEN params[p] ELSE Cardinality(DOMAIN params)]

\* ServiceInfo::addServiceParam: the index is the number of parameters so
\* far, also for one that is there.
AddServiceParam(params, name) ==
  [p \in DOMAIN params \union {name} |->
     IF p = name THEN Cardinality(DOMAIN params) ELSE params[p]]

Named(services, s) == {i \in DOMAIN services : services[i].name = s}

\* INSERT_SERVICE_INFO, INSERT_PARAM_INFO.
InsertServiceInfo(services, s, params) ==
  IF Named(services, s) # {} THEN services
  ELSE Append(services, [name |-> s, params |-> params])
InsertParamInfo(services, s, params) ==
  IF Named(services, s) = {}
  THEN Append(services, [name |-> s, params |-> params])
  ELSE [services EXCEPT ![Min(Named(services, s))].params = params]

\* ADD_SERVICE_INFO; ADD_PARAM_INFO.
DeclareService(s) ==
  /\ list' = InsertServiceInfo(list, s, info[s])
  /\ UNCHANGED info
DeclareParam(s, p) ==
  /\ info' = [info EXCEPT ![s] = AddServiceParam(@, p)]
  /\ list' = InsertParamInfo(list, s, info'[s])

Declare(d) ==
  /\ Len(declared) < MaxDeclared
  /\ IF d.param = NoParam THEN DeclareService(d.service)
     ELSE DeclareParam(d.service, d.param)
  /\ declared' = Append(declared, d)

DeclarationsNext == \E d \in Macros : Declare(d)

DeclarationsSpec == DeclarationsInit /\ [][DeclarationsNext]_declarationsVars

\* REG_SERVICEINFO_LIST: the list as it is then.
ServiceMap == list

\* ControlObject::call: the service's parameters with the number of value i of
\* n, of which the first by name gets it; none when the numbers differ.
ParamOf(services, s, i, n) ==
  LET params == services[Min(Named(services, s))].params IN
  {p \in DOMAIN params : Cardinality(DOMAIN params) = n /\ params[p] = i}

-----------------------------------------------------------------------------
\* The declarations of a service's parameters, their names, the last one of
\* each name, and how many names come before declaration k.
ParamsOf(s) ==
  {k \in DOMAIN declared : declared[k].service = s /\ declared[k].param # NoParam}
NamesOf(s) == {declared[k].param : k \in ParamsOf(s)}
LastOf(s) ==
  {k \in ParamsOf(s) :
     \A j \in ParamsOf(s) : declared[j].param = declared[k].param => j <= k}
Number(s, k) ==
  Cardinality({declared[j].param : j \in {h \in ParamsOf(s) : h < k}})

\* INSERT_PARAM_INFO and call: value i of a service goes to the parameter
\* declared after i others, wherever in the list the service itself was
\* declared.  A parameter declared again moves behind all names so far, its own
\* included, and leaves its old number to nobody: the number may be the next
\* parameter's too.
ParamsExact ==
  \A s \in ServiceNames : ParamsOf(s) # {} =>
    \A i \in 0 .. Cardinality(NamesOf(s)) :
      ParamOf(ServiceMap, s, i, Cardinality(NamesOf(s)))
        = {declared[k].param : k \in {j \in LastOf(s) : Number(s, j) = i}}
=============================================================================
