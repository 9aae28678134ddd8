-------------------------- MODULE ApplicationProofs --------------------------
(***************************************************************************)
(* Theorems about Application, for any configuration, with any number of   *)
(* channels, control objects and names.                                    *)
(***************************************************************************)
EXTENDS Application, FiniteSetTheorems, SequenceTheorems, TLAPS

-----------------------------------------------------------------------------
(* Type correctness.                                                       *)

PhaseNames == {"registChannels", "make", "verify", "initialize", "startup"}
ShutdownNames == {"shutdown", "delete", "deleteData"}
Late == {"running"} \cup ShutdownNames
Positions == {"sockets", "load", "failed", "running"} \cup PhaseNames \cup ShutdownNames

\* What m_datas and m_entites hold: a channel, and a control object or one that
\* a make has registered.
Channels == {i \in DOMAIN document : document[i].kind = "channel"}
Controls == {i \in DOMAIN document : document[i].kind \in {"object", "driver", "method"}}
ControlObjects == Controls \cup {-i : i \in Controls}

IsMap(map, S) ==
  /\ DOMAIN map \subseteq Names /\ IsFiniteSet(DOMAIN map)
  /\ map \in [DOMAIN map -> S]

MapTypeOK ==
  /\ document \in Seq(Elements)
  /\ IsMap(m_entites, ControlObjects) /\ IsMap(m_datas, Channels)

MainTypeOK ==
  /\ pc \in Positions /\ next \in Nat \ {0} /\ cursor \in Nat /\ index \in Nat
  /\ calls \in [Objects -> Seq(PhaseNames \cup {"shutdown"})]
  /\ freed \subseteq Objects
  /\ sockets \in BOOLEAN /\ poll \in Nat \cup {-1}
  /\ process \in {"running", "crashed", "exited"}

ClientTypeOK == asked \subseteq Names /\ early \subseteq Names /\ found \subseteq Names

TypeInv == MapTypeOK /\ MainTypeOK /\ ClientTypeOK

\* The numbers of the elements are those of channels and of control objects.
LEMMA Numbers ==
  ASSUME MapTypeOK
  PROVE  /\ DOMAIN document \subseteq Nat \ {0} /\ Len(document) \in Nat
         /\ DOMAIN document = 1 .. Len(document)
         /\ \A i \in DOMAIN document : document[i] \in Elements
         /\ Channels \subseteq Objects /\ ControlObjects \subseteq Objects
         /\ Objects \subseteq Int /\ 0 \notin Objects
         /\ Channels \cap ControlObjects = {}
         /\ \A i \in Channels : i > 0
         /\ Names \subseteq Nat \ {0}
  <1>1. /\ Len(document) \in Nat /\ DOMAIN document = 1 .. Len(document)
        /\ \A i \in DOMAIN document : document[i] \in Elements
    BY DEF MapTypeOK
  <1>2. DOMAIN document \subseteq Nat \ {0}
    BY <1>1
  <1>3. \A i \in Channels : i \in Nat /\ i > 0 /\ document[i].kind = "channel"
    BY <1>2 DEF Channels
  <1>4. \A i \in Controls : i \in Nat /\ i > 0 /\ document[i].kind # "channel"
    BY <1>2 DEF Controls
  <1>5. Channels \subseteq Objects /\ ControlObjects \subseteq Objects
    BY DEF Channels, ControlObjects, Controls, Objects
  <1>6. Objects \subseteq Int /\ 0 \notin Objects
    BY <1>2 DEF Objects
  <1>7. Channels \cap ControlObjects = {}
    BY <1>3, <1>4 DEF ControlObjects
  <1>. QED  BY <1>1, <1>2, <1>3, <1>5, <1>6, <1>7, ApplicationAssumption DEF ApplicationAssumption

\* new is map with at most one more entry, that of o under the name n.
Extends(map, new, n, o) ==
  /\ DOMAIN map \subseteq DOMAIN new
  /\ \A m \in DOMAIN map : new[m] = map[m]
  /\ \A m \in DOMAIN new : m \in DOMAIN map \/ (m = n /\ new[m] = o)

LEMMA PutExtends ==
  ASSUME NEW S, NEW map, IsMap(map, S), NEW n \in Names, NEW o \in S
  PROVE  /\ IsMap(Insert(map, n, o), S) /\ Extends(map, Insert(map, n, o), n, o)
         /\ n \notin DOMAIN map =>
              IsMap(Put(map, n, o), S) /\ Extends(map, Put(map, n, o), n, o)
  <1>1. IsMap(Put(map, n, o), S)
    <2>1. DOMAIN Put(map, n, o) = DOMAIN map \cup {n}
      BY DEF Put
    <2>2. IsFiniteSet(DOMAIN map \cup {n})
      BY FS_AddElement DEF IsMap
    <2>3. Put(map, n, o) \in [DOMAIN map \cup {n} -> S]
      BY DEF Put, IsMap
    <2>. QED  BY <2>1, <2>2, <2>3 DEF IsMap
  <1>2. n \notin DOMAIN map => Extends(map, Put(map, n, o), n, o)
    BY DEF Put, Extends
  <1>. QED  BY <1>1, <1>2 DEF Insert, Extends

LEMMA Same ==
  ASSUME NEW map, NEW n, NEW o
  PROVE  Extends(map, map, n, o)
  BY DEF Extends

\* One element is loaded.
LEMMA LoadFacts ==
  ASSUME MapTypeOK, next \in Nat \ {0}, UNCHANGED document, LoadConfigFile
  PROVE  /\ pc = "load" /\ pc' \in {"load", "failed"} /\ next' = next + 1
         /\ UNCHANGED <<cursor, index, calls, freed, sockets, poll, asked, early, found>>
         /\ process' \in {process, "crashed"}
         /\ process' # process =>
              \E i \in DOMAIN document : document[i].kind \in {"type", "abstract"}
         /\ IsMap(m_entites', ControlObjects) /\ IsMap(m_datas', Channels)
         /\ \/ UNCHANGED m_entites
            \/ /\ next \in Controls
               /\ Extends(m_entites, m_entites', document[next].name, next)
  <1> DEFINE e == document[next]
  <1>1. next \in DOMAIN document /\ e \in Elements /\ e.name \in Names
    <2>1. next \in DOMAIN document
      BY Numbers DEF LoadConfigFile
    <2>. QED  BY <2>1, Numbers DEF Elements
  <1>2. /\ pc = "load" /\ next' = next + 1
        /\ UNCHANGED <<cursor, index, calls, sockets, poll, asked, early, found>>
    BY DEF LoadConfigFile, noticeVars, clientVars
  <1>3. IsMap(m_entites, ControlObjects) /\ IsMap(m_datas, Channels)
    BY DEF MapTypeOK
  <1>4. CASE LoadIO(e)
    <2>1. UNCHANGED m_entites
      BY <1>4 DEF LoadIO
    <2>2. CASE e.kind = "type"
      <3>1. process' = "crashed" /\ UNCHANGED <<pc, freed, m_datas>>
        BY <1>4, <2>2 DEF LoadIO, Crashes
      <3>. QED  BY <1>1, <1>2, <1>3, <2>1, <2>2, <3>1
    <2>3. CASE e.kind = "number"
      <3>1. pc' = "failed" /\ UNCHANGED <<process, freed, m_datas>>
        BY <1>4, <2>3 DEF LoadIO, Fails
      <3>. QED  BY <1>2, <1>3, <2>1, <3>1
    <2>4. CASE e.kind = "channel"
      <3>1. RegisterChannel(e.name, next)
        BY <1>4, <2>4 DEF LoadIO
      <3>2. next \in Channels
        BY <1>1, <2>4 DEF Channels
      <3>3. pc' \in {pc, "failed"} /\ UNCHANGED <<process, freed>>
        BY <3>1 DEF RegisterChannel, Fails
      <3>4. IsMap(m_datas', Channels)
        BY <1>1, <1>3, <3>1, <3>2, PutExtends DEF RegisterChannel
      <3>. QED  BY <1>2, <1>3, <2>1, <3>3, <3>4
    <2>. QED  BY <1>4, <2>2, <2>3, <2>4 DEF LoadIO, IoKinds
  <1>5. CASE LoadControlObject(e)
    <2>1. UNCHANGED m_datas
      BY <1>5 DEF LoadControlObject
    <2>2. CASE e.kind = "class"
      <3>1. pc' = "failed" /\ UNCHANGED <<process, freed, m_entites>>
        BY <1>5, <2>2 DEF LoadControlObject, Fails
      <3>. QED  BY <1>2, <1>3, <2>1, <3>1
    <2>3. CASE e.kind = "abstract"
      <3>1. process' = "crashed" /\ UNCHANGED <<pc, freed, m_entites>>
        BY <1>5, <2>3 DEF LoadControlObject, Crashes
      <3>. QED  BY <1>1, <1>2, <1>3, <2>1, <2>3, <3>1
    <2>4. CASE e.kind \in {"object", "driver", "method"}
      <3>1. RegisterByClass(e.name, next)
        BY <1>5, <2>4 DEF LoadControlObject
      <3>2. next \in Controls /\ next \in ControlObjects
        BY <1>1, <2>4 DEF Controls, ControlObjects
      <3>3. pc' \in {pc, "failed"} /\ UNCHANGED <<process, freed>>
        BY <1>5, <2>4 DEF LoadControlObject, Fails
      <3>4. /\ IsMap(m_entites', ControlObjects)
            /\ Extends(m_entites, m_entites', e.name, next)
        BY <1>1, <1>3, <3>1, <3>2, PutExtends DEF RegisterByClass
      <3>. QED  BY <1>2, <1>3, <2>1, <3>2, <3>3, <3>4
    <2>. QED  BY <1>5, <2>2, <2>3, <2>4 DEF LoadControlObject
  <1>. QED  BY <1>4, <1>5 DEF LoadConfigFile

\* A nonempty set of numbers has a least one.
LEMMA Least ==
  ASSUME NEW S \in SUBSET Nat, S # {}
  PROVE  \E c \in S : \A d \in S : c <= d
  <1> DEFINE Less == {pair \in Nat \X Nat : pair[1] < pair[2]}
  <1>1. IsWellFoundedOn(Less, Nat)
    <2>1. Less = OpToRel(<, Nat)
      BY DEF OpToRel
    <2>. QED  BY <2>1, NatLessThanWellFounded
  <1>2. PICK c \in S : \A d \in S : <<d, c>> \notin Less
    <2> HIDE DEF Less
    <2>. QED  BY <1>1, WFMin
  <1>3. ASSUME NEW d \in S
        PROVE  c <= d
    <2>1. ~(d < c)
      BY <1>2
    <2>2. c \in Nat /\ d \in Nat
      OBVIOUS
    <2>. QED  BY <2>1, <2>2
  <1>. QED  BY <1>3

\* A make registers at most one more name, for the object made, for the object
\* it makes or for a channel.
LEMMA MakeFacts ==
  ASSUME MapTypeOK, UNCHANGED document, NEW o \in ControlObjects, Making(o)
  PROVE  /\ pc' \in {pc, "failed"} /\ UNCHANGED <<freed, process>>
         /\ IsMap(m_entites', ControlObjects) /\ IsMap(m_datas', Channels)
         /\ \/ UNCHANGED m_entites
            \/ \E n \in Names, w \in {o, -o} :
                 o > 0 /\ Extends(m_entites, m_entites', n, w)
  <1> DEFINE e == document[IF o < 0 THEN -o ELSE o]
             does == IF o < 0 THEN "nothing" ELSE e.makes
  <1>1. /\ o \in Int /\ o # 0 /\ e \in Elements /\ e.arg \in Names
        /\ o > 0 => -o \in ControlObjects
    <2>1. DOMAIN document \subseteq Nat \ {0}
      BY Numbers
    <2>2. o \in Int /\ o # 0 /\ (IF o < 0 THEN -o ELSE o) \in DOMAIN document
      BY <2>1 DEF ControlObjects, Controls
    <2>3. o > 0 => -o \in ControlObjects
      BY <2>1 DEF ControlObjects, Controls
    <2>. QED  BY <2>2, <2>3, Numbers DEF Elements
  <1>2. IsMap(m_entites, ControlObjects) /\ IsMap(m_datas, Channels)
    BY DEF MapTypeOK
  <1> HIDE DEF e
  <1>3. CASE does = "nothing" /\ UNCHANGED <<mapVars, pc, freed, process>>
    BY <1>2, <1>3 DEF mapVars
  <1>4. CASE does = "object" /\ RegisterObject(e.arg, -o) /\ UNCHANGED m_datas
    <2>1. o > 0 /\ -o \in ControlObjects
      BY <1>1, <1>4
    <2>2. pc' \in {pc, "failed"} /\ UNCHANGED <<freed, process>>
      BY <1>4 DEF RegisterObject, Fails
    <2>3. CASE e.arg \in DOMAIN m_entites
      BY <1>2, <1>4, <2>2, <2>3 DEF RegisterObject
    <2>4. CASE e.arg \notin DOMAIN m_entites
      <3>1. m_entites' = Put(m_entites, e.arg, -o)
        BY <1>4, <2>4 DEF RegisterObject
      <3>2. /\ IsMap(m_entites', ControlObjects)
            /\ Extends(m_entites, m_entites', e.arg, -o)
        BY <1>1, <1>2, <2>1, <2>4, <3>1, PutExtends
      <3>. QED  BY <1>1, <1>2, <1>4, <2>1, <2>2, <3>2
    <2>. QED  BY <2>3, <2>4
  <1>5. CASE /\ does = "alias" /\ CreateAlias(e.arg, o)
             /\ UNCHANGED <<m_datas, pc, freed, process>>
    <2>1. o > 0
      BY <1>1, <1>5
    <2>2. IsMap(m_entites', ControlObjects) /\ Extends(m_entites, m_entites', e.arg, o)
      BY <1>1, <1>2, <1>5, PutExtends DEF CreateAlias
    <2>. QED  BY <1>1, <1>2, <1>5, <2>1, <2>2
  <1>6. CASE /\ does = "data" /\ CreateDataAlias(e.arg)
             /\ UNCHANGED <<m_entites, pc, freed, process>>
    <2> DEFINE first == CHOOSE c \in DOMAIN m_datas : \A d \in DOMAIN m_datas : c <= d
    <2>1. CASE m_datas = Empty
      BY <1>2, <1>6, <2>1 DEF CreateDataAlias
    <2>2. CASE m_datas # Empty
      <3>1. DOMAIN m_datas # {}
        BY <1>2, <2>2 DEF IsMap, Empty
      <3>2. \E c \in DOMAIN m_datas : \A d \in DOMAIN m_datas : c <= d
        <4>1. DOMAIN m_datas \subseteq Nat
          BY <1>2, Numbers DEF IsMap
        <4>. QED  BY <3>1, <4>1, Least
      <3>3. first \in DOMAIN m_datas
        BY <3>2
      <3> HIDE DEF first
      <3>4. m_datas[first] \in Channels
        BY <1>2, <3>3 DEF IsMap
      <3>5. m_datas' = Insert(m_datas, e.arg, m_datas[first])
        BY <1>6, <2>2 DEF CreateDataAlias, first
      <3>. QED  BY <1>1, <1>2, <1>6, <3>4, <3>5, PutExtends
    <2>. QED  BY <2>1, <2>2
  <1>. QED  BY <1>3, <1>4, <1>5, <1>6 DEF Making, e


LEMMA PhaseFacts ==
  /\ Phases[1] = "registChannels" /\ Phases[2] = "make" /\ Phases[3] = "verify"
  /\ Phases[4] = "initialize" /\ Phases[5] = "startup"
  /\ {Phases[i] : i \in 1 .. 5} = PhaseNames
  /\ \A i \in 1 .. 5 : Phases[i] \in PhaseNames
  /\ \A phase \in PhaseNames : \E i \in 1 .. 5 : phase = Phases[i]
  /\ \A i, j \in 1 .. 5 : Phases[i] = Phases[j] => i = j
  /\ {Shutdown[i] : i \in 1 .. 3} = ShutdownNames
  <1>1. /\ Phases[1] = "registChannels" /\ Phases[2] = "make" /\ Phases[3] = "verify"
        /\ Phases[4] = "initialize" /\ Phases[5] = "startup"
    BY DEF Phases
  <1>2. \A i \in 1 .. 5 : i = 1 \/ i = 2 \/ i = 3 \/ i = 4 \/ i = 5
    OBVIOUS
  <1>3. \A i \in 1 .. 5 : Phases[i] \in PhaseNames
    BY <1>1, <1>2 DEF PhaseNames
  <1>4. \A phase \in PhaseNames : \E i \in 1 .. 5 : phase = Phases[i]
    BY <1>1 DEF PhaseNames
  <1>5. \A i, j \in 1 .. 5 : Phases[i] = Phases[j] => i = j
    BY <1>1, <1>2
  <1>6. {Shutdown[i] : i \in 1 .. 3} = ShutdownNames
    <2>1. Shutdown[1] = "shutdown" /\ Shutdown[2] = "delete" /\ Shutdown[3] = "deleteData"
      BY DEF Shutdown
    <2>2. \A i \in 1 .. 3 : i = 1 \/ i = 2 \/ i = 3
      OBVIOUS
    <2>. QED  BY <2>1, <2>2 DEF ShutdownNames
  <1>7. {Phases[i] : i \in 1 .. 5} = PhaseNames
    BY <1>3, <1>4
  <1>. QED  BY <1>1, <1>3, <1>4, <1>5, <1>6, <1>7

\* What follows a phase.
LEMMA AfterFacts ==
  /\ After(Phases[5]) = "running"
  /\ \A i \in 1 .. 4 : After(Phases[i]) = Phases[i + 1]
  <1>1. After(Phases[5]) = "running"
    BY PhaseFacts DEF After
  <1>2. ASSUME NEW i \in 1 .. 4
        PROVE  After(Phases[i]) = Phases[i + 1]
    <2>1. Phases[i] # "startup" /\ i \in 1 .. 5
      BY PhaseFacts
    <2>2. (CHOOSE j \in 1 .. 4 : Phases[j] = Phases[i]) = i
      <3>1. \A j \in 1 .. 4 : Phases[j] = Phases[i] => j = i
        BY PhaseFacts
      <3>. QED  BY <3>1
    <2>3. After(Phases[i]) = Phases[1 + i]
      BY <2>1, <2>2 DEF After
    <2>. QED  BY <2>3
  <1>. QED  BY <1>1, <1>2

\* A loop of the start-up visits an object.
LEMMA VisitFacts ==
  ASSUME TypeInv, UNCHANGED document, NEW n \in Names, Visit(n)
  PROVE  /\ pc \in PhaseNames /\ IsNext(n, m_entites) /\ cursor' = n
         /\ m_entites[n] \in ControlObjects
         /\ calls' = IF Calls(m_entites[n], pc)
                     THEN [calls EXCEPT ![m_entites[n]] = Append(@, pc)] ELSE calls
         /\ pc' \in {pc, "failed"} /\ (pc # "make" => pc' = pc)
         /\ index' \in Nat /\ (pc # "registChannels" => index' = index + 1)
         /\ UNCHANGED <<next, freed, process, sockets, poll, asked, early, found>>
         /\ IsMap(m_entites', ControlObjects) /\ IsMap(m_datas', Channels)
         /\ pc # "make" => UNCHANGED <<m_entites, m_datas>>
         /\ \/ UNCHANGED m_entites
            \/ \E k \in Names, w \in {m_entites[n], -m_entites[n]} :
                 m_entites[n] > 0 /\ Extends(m_entites, m_entites', k, w)
  <1> DEFINE o == m_entites[n]
  <1>1. pc \in PhaseNames /\ IsNext(n, m_entites) /\ cursor' = n
    BY PhaseFacts DEF Visit
  <1>2. o \in ControlObjects
    BY <1>1 DEF IsNext, Ahead, TypeInv, MapTypeOK, IsMap
  <1>3. calls' = IF Calls(o, pc) THEN [calls EXCEPT ![o] = Append(@, pc)] ELSE calls
    BY DEF Visit
  <1>4. UNCHANGED <<next, sockets, poll, asked, early, found>>
    BY DEF Visit, fileVars, clientVars
  <1>5. index' \in Nat /\ (pc # "registChannels" => index' = index + 1)
    BY DEF Visit, Notify, TypeInv, MainTypeOK
  <1>6. CASE pc = "make"
    <2>1. Making(o)
      BY <1>6 DEF Visit
    <2> HIDE DEF o
    <2>2. /\ pc' \in {pc, "failed"} /\ UNCHANGED <<freed, process>>
          /\ IsMap(m_entites', ControlObjects) /\ IsMap(m_datas', Channels)
          /\ \/ UNCHANGED m_entites
             \/ \E k \in Names, w \in {o, -o} :
                 o > 0 /\ Extends(m_entites, m_entites', k, w)
      BY <1>2, <2>1, MakeFacts DEF TypeInv
    <2>. QED  BY <1>1, <1>2, <1>3, <1>4, <1>5, <1>6, <2>2 DEF o
  <1>7. CASE pc # "make"
    <2>1. UNCHANGED <<m_entites, m_datas, pc, freed, process>>
      BY <1>7 DEF Visit, mapVars
    <2>. QED  BY <1>1, <1>2, <1>3, <1>4, <1>5, <1>7, <2>1 DEF TypeInv, MapTypeOK
  <1>. QED  BY <1>6, <1>7

\* A loop of shutdownNamespace visits an object.
LEMMA ShutdownFacts ==
  ASSUME TypeInv, NEW n \in Names, ShutdownVisit(n)
  PROVE  /\ cursor' = n /\ pc \in ShutdownNames
         /\ UNCHANGED <<pc, next, m_entites, m_datas, index, sockets, poll, asked, early, found>>
         /\ \/ /\ pc = "shutdown" /\ IsNext(n, m_entites) /\ UNCHANGED <<freed, process>>
               /\ m_entites[n] \in Objects
               /\ calls' = [calls EXCEPT ![m_entites[n]] = Append(@, "shutdown")]
            \/ /\ pc = "delete" /\ IsNext(n, m_entites) /\ UNCHANGED calls
               /\ m_entites[n] \in Objects /\ freed' = freed \cup {m_entites[n]}
               /\ process' = IF m_entites[n] \in freed THEN "crashed" ELSE process
            \/ /\ pc = "deleteData" /\ IsNext(n, m_datas) /\ UNCHANGED calls
               /\ m_datas[n] \in Objects /\ freed' = freed \cup {m_datas[n]}
               /\ process' = IF m_datas[n] \in freed THEN "crashed" ELSE process
  <1>1. /\ cursor' = n
        /\ UNCHANGED <<pc, next, m_entites, m_datas, index, sockets, poll, asked, early, found>>
    BY DEF ShutdownVisit, fileVars, mapVars, noticeVars, clientVars
  <1>2. /\ IsNext(n, m_entites) => m_entites[n] \in Objects
        /\ IsNext(n, m_datas) => m_datas[n] \in Objects
    BY Numbers DEF IsNext, Ahead, TypeInv, MapTypeOK, IsMap
  <1>3. CASE pc = "shutdown"
    BY <1>1, <1>2, <1>3 DEF ShutdownVisit, ShutdownNames
  <1>4. CASE pc = "delete"
    BY <1>1, <1>2, <1>4 DEF ShutdownVisit, ShutdownNames, Delete
  <1>5. CASE pc = "deleteData"
    BY <1>1, <1>2, <1>5 DEF ShutdownVisit, ShutdownNames, Delete
  <1>. QED  BY <1>3, <1>4, <1>5 DEF ShutdownVisit

\* The steps before the configuration is loaded, and those between the loops.
LEMMA StepFacts ==
  ASSUME TypeInv, UNCHANGED document
  PROVE  /\ StartSockets =>
              /\ pc = "sockets" /\ pc' \in {"load", "failed"} /\ sockets' \in BOOLEAN
              /\ UNCHANGED <<next, cursor, m_entites, m_datas, index, calls, freed, poll,
                             asked, early, found, process>>
         /\ LoadXmlFile =>
              /\ pc = "load" /\ pc' \in {"load", "failed"} /\ next' \in Nat \ {0}
              /\ UNCHANGED <<cursor, m_entites, m_datas, index, calls, freed, sockets, poll,
                             asked, early, found, process>>
         /\ StartNamespace =>
              /\ pc = "load" /\ pc' = Phases[1] /\ cursor' = 0
              /\ UNCHANGED <<next, m_entites, m_datas, index, calls, freed, sockets, poll,
                             asked, early, found, process>>
         /\ NextPhase =>
              /\ pc \in PhaseNames /\ Ahead(m_entites) = {} /\ pc' = After(pc)
              /\ cursor' = 0 /\ index' = 0 /\ poll' \in {0, poll}
              /\ UNCHANGED <<next, m_entites, m_datas, calls, freed, sockets,
                             asked, early, found, process>>
         /\ Destroy =>
              /\ pc \in {"running", "failed"} /\ pc' = "shutdown" /\ cursor' = 0
              /\ UNCHANGED <<next, m_entites, m_datas, index, calls, freed, sockets, poll,
                             asked, early, found, process>>
         /\ ShutdownNext =>
              /\ \/ /\ pc = "shutdown" /\ pc' = "delete" /\ UNCHANGED process
                 \/ /\ pc = "delete" /\ pc' = "deleteData" /\ UNCHANGED process
                 \/ /\ pc = "deleteData" /\ UNCHANGED pc /\ process' = "exited"
              /\ cursor' = 0
              /\ UNCHANGED <<next, m_entites, m_datas, index, calls, freed, sockets, poll,
                             asked, early, found>>
         /\ AddCallBack =>
              UNCHANGED <<pc, next, cursor, m_entites, m_datas, index, calls, freed, sockets,
                          poll, asked, early, found, process>>
  <1> USE DEF fileVars, mapVars, noticeVars, clientVars
  <1>1. ASSUME StartSockets
        PROVE  /\ pc = "sockets" /\ pc' \in {"load", "failed"} /\ sockets' \in BOOLEAN
               /\ UNCHANGED <<next, cursor, m_entites, m_datas, index, calls, freed, poll,
                              asked, early, found, process>>
    BY <1>1 DEF StartSockets, Listens, ListenFails, Fails
  <1>2. ASSUME LoadXmlFile
        PROVE  /\ pc = "load" /\ pc' \in {"load", "failed"} /\ next' \in Nat \ {0}
               /\ UNCHANGED <<cursor, m_entites, m_datas, index, calls, freed, sockets, poll,
                              asked, early, found, process>>
    <2>1. IoElements \in Nat /\ Len(document) \in Nat
      <3> DEFINE I == {i \in DOMAIN document : document[i].kind \in IoKinds}
      <3>1. Len(document) \in Nat /\ IsFiniteSet(DOMAIN document)
        BY Numbers, FS_Interval DEF TypeInv
      <3>2. IsFiniteSet(I)
        BY <3>1, FS_Subset
      <3>. QED  BY <3>1, <3>2, FS_CardinalityType DEF IoElements
    <2>2. PICK result \in {"parsed", "unreadable", "none"} :
            /\ next' = IF result # "unreadable" THEN next
                       ELSE IF files = <<>> THEN IoElements + 1
                       ELSE Len(document) + 1
            /\ IF result = "none" THEN Fails ELSE UNCHANGED <<pc, freed, process>>
      BY <1>2 DEF LoadXmlFile
    <2>3. next' \in Nat \ {0}
      BY <2>1, <2>2 DEF TypeInv, MainTypeOK
    <2>4. pc = "load" /\ pc' \in {"load", "failed"} /\ UNCHANGED <<freed, process>>
      BY <1>2, <2>2 DEF LoadXmlFile, Fails
    <2>. QED  BY <1>2, <2>3, <2>4 DEF LoadXmlFile
  <1>3. ASSUME NextPhase
        PROVE  /\ pc \in PhaseNames /\ Ahead(m_entites) = {} /\ pc' = After(pc)
               /\ cursor' = 0 /\ index' = 0 /\ poll' \in {0, poll}
               /\ UNCHANGED <<next, m_entites, m_datas, calls, freed, sockets,
                              asked, early, found, process>>
    <2>1. pc \in PhaseNames
      BY <1>3, PhaseFacts DEF NextPhase
    <2>. QED  BY <1>3, <2>1 DEF NextPhase
  <1>4. StartNamespace =>
              /\ pc = "load" /\ pc' = Phases[1] /\ cursor' = 0
              /\ UNCHANGED <<next, m_entites, m_datas, index, calls, freed, sockets, poll,
                             asked, early, found, process>>
    BY DEF StartNamespace
  <1>5. ASSUME ShutdownNext
        PROVE /\ \/ /\ pc = "shutdown" /\ pc' = "delete" /\ UNCHANGED process
                 \/ /\ pc = "delete" /\ pc' = "deleteData" /\ UNCHANGED process
                 \/ /\ pc = "deleteData" /\ UNCHANGED pc /\ process' = "exited"
              /\ cursor' = 0
              /\ UNCHANGED <<next, m_entites, m_datas, index, calls, freed, sockets, poll,
                             asked, early, found>>
    BY <1>5 DEF ShutdownNext
  <1>6. Destroy =>
              /\ pc \in {"running", "failed"} /\ pc' = "shutdown" /\ cursor' = 0
              /\ UNCHANGED <<next, m_entites, m_datas, index, calls, freed, sockets, poll,
                             asked, early, found, process>>
    BY DEF Destroy
  <1>7. AddCallBack =>
              UNCHANGED <<pc, next, cursor, m_entites, m_datas, index, calls, freed, sockets,
                          poll, asked, early, found, process>>
    BY DEF AddCallBack
  <1>. QED  BY <1>1, <1>2, <1>3, <1>4, <1>5, <1>6, <1>7

\* The poll thread visits a channel; a socket thread looks up a name.
LEMMA ThreadFacts ==
  ASSUME TypeInv, UNCHANGED document
  PROVE  /\ Poll =>
              /\ poll >= 0 /\ poll' \in Nat
              /\ process' = process
                   \/ (process' = "crashed" /\ \E n \in DOMAIN m_datas : m_datas[n] \in freed)
              /\ UNCHANGED <<pc, next, cursor, m_entites, m_datas, index, calls, freed,
                             sockets, asked, early, found>>
         /\ \A n \in Names : Lookup(n) =>
              /\ sockets /\ asked = {} /\ asked' = {n} /\ early' \subseteq early \cup {n}
              /\ pc \notin Late => n \in early'
              /\ found' \subseteq found \cup {n}
              /\ pc \in Late /\ n \in DOMAIN m_datas /\ n \notin DOMAIN m_entites => n \in found'
              /\ process' = process \/ (process' = "crashed" /\ freed # {})
              /\ UNCHANGED <<pc, next, cursor, m_entites, m_datas, index, calls, freed,
                             sockets, poll>>
  <1>1. ASSUME Poll
        PROVE /\ poll >= 0 /\ poll' \in Nat
              /\ process' = process
                   \/ (process' = "crashed" /\ \E n \in DOMAIN m_datas : m_datas[n] \in freed)
              /\ UNCHANGED <<pc, next, cursor, m_entites, m_datas, index, calls, freed,
                             sockets, asked, early, found>>
    <2>1. /\ poll >= 0
          /\ UNCHANGED <<pc, next, cursor, m_entites, m_datas, index, calls, freed,
                         sockets, asked, early, found>>
      BY <1>1 DEF Poll, fileVars, mapVars, noticeVars, clientVars
    <2>2. CASE poll' = 0 /\ UNCHANGED process
      BY <2>1, <2>2
    <2>3. CASE \E n \in DOMAIN m_datas :
                  /\ poll' = n
                  /\ process' = IF m_datas[n] \in freed THEN "crashed" ELSE process
      <3>1. DOMAIN m_datas \subseteq Nat
        BY Numbers DEF TypeInv, MapTypeOK, IsMap
      <3>. QED  BY <2>1, <2>3, <3>1
    <2>. QED  BY <1>1, <2>2, <2>3 DEF Poll
  <1>2. ASSUME NEW n \in Names, Lookup(n)
        PROVE /\ sockets /\ asked = {} /\ asked' = {n} /\ early' \subseteq early \cup {n}
              /\ pc \notin Late => n \in early'
              /\ found' \subseteq found \cup {n}
              /\ pc \in Late /\ n \in DOMAIN m_datas /\ n \notin DOMAIN m_entites => n \in found'
              /\ process' = process \/ (process' = "crashed" /\ freed # {})
              /\ UNCHANGED <<pc, next, cursor, m_entites, m_datas, index, calls, freed,
                             sockets, poll>>
    <2>1. /\ sockets /\ asked = {} /\ asked' = asked \cup {n}
          /\ UNCHANGED <<pc, next, cursor, m_entites, m_datas, index, calls, freed,
                         sockets, poll>>
      BY <1>2 DEF Lookup, fileVars, mapVars, noticeVars
    <2>2. early' = IF pc \in Late THEN early ELSE early \cup {n}
      BY <1>2, PhaseFacts DEF Lookup, Late
    <2>3. PICK o \in {GetObject(n)} \cup (IF pc \in {"load", "make"} THEN {0} ELSE {}) :
            /\ process' = IF o \in freed THEN "crashed" ELSE process
            /\ found' = IF o > 0 /\ document[o].kind = "channel"
                        THEN found \cup {n} ELSE found
      BY <1>2 DEF Lookup
    <2>4. ASSUME pc \in Late, n \in DOMAIN m_datas, n \notin DOMAIN m_entites
          PROVE  n \in found'
      <3>1. o = m_datas[n]
        BY <2>3, <2>4 DEF GetObject, Late, ShutdownNames
      <3>2. o \in Channels
        BY <2>4, <3>1 DEF TypeInv, MapTypeOK, IsMap
      <3>. QED  BY <2>3, <3>2, Numbers DEF Channels, TypeInv
    <2>. QED  BY <2>1, <2>2, <2>3, <2>4
  <1>. QED  BY <1>1, <1>2

LEMMA InitType ==
  ASSUME Init
  PROVE  TypeInv
  <1>1. document \in Seq(Elements)
    BY ApplicationAssumption DEF Init, ApplicationAssumption
  <1>2. ASSUME NEW S
        PROVE  IsMap(Empty, S)
    BY FS_EmptySet DEF IsMap, Empty
  <1>3. MapTypeOK
    BY <1>1, <1>2 DEF Init, MapTypeOK
  <1>4. <<>> \in Seq(PhaseNames \cup {"shutdown"})
    OBVIOUS
  <1>5. calls \in [Objects -> Seq(PhaseNames \cup {"shutdown"})]
    BY <1>4 DEF Init
  <1>6. MainTypeOK
    <2>1. /\ pc = "sockets" /\ next = 1 /\ cursor = 0 /\ index = 0 /\ freed = {}
          /\ sockets = FALSE /\ poll = -1 /\ process = "running"
      BY DEF Init
    <2>2. next \in Nat \ {0} /\ cursor \in Nat /\ index \in Nat
      BY <2>1
    <2>4. poll \in Nat \cup {-1}
      BY <2>1
    <2>5. sockets \in BOOLEAN
      BY <2>1, Zenon
    <2>3. /\ pc \in Positions /\ freed \subseteq Objects
          /\ process \in {"running", "crashed", "exited"}
      BY <2>1, Zenon DEF Positions
    <2>. QED  BY <1>5, <2>2, <2>3, <2>4, <2>5, Zenon DEF MainTypeOK
  <1>. QED  BY <1>3, <1>6 DEF Init, TypeInv, ClientTypeOK

LEMMA NextType ==
  ASSUME TypeInv, [Next]_vars
  PROVE  TypeInv'
  <1>1. CASE UNCHANGED vars
    BY <1>1 DEF vars, fileVars, mapVars, noticeVars, clientVars, TypeInv, MapTypeOK, IsMap,
                MainTypeOK, ClientTypeOK, Objects, Channels, Controls, ControlObjects
  <1>2. ASSUME UNCHANGED document, UNCHANGED <<m_entites, m_datas>>
        PROVE  MapTypeOK' /\ Objects' = Objects
    BY <1>2 DEF TypeInv, MapTypeOK, Objects, ControlObjects, Controls, Channels, IsMap
  <1>3. ASSUME UNCHANGED document, IsMap(m_entites', ControlObjects), IsMap(m_datas', Channels)
        PROVE  MapTypeOK' /\ Objects' = Objects
    BY <1>3 DEF TypeInv, MapTypeOK, Objects, ControlObjects, Controls, Channels
  <1>4. ASSUME UNCHANGED document,
               \/ StartSockets \/ LoadXmlFile \/ StartNamespace \/ NextPhase
               \/ Destroy \/ ShutdownNext \/ AddCallBack
        PROVE  TypeInv'
    <2>1. UNCHANGED <<m_entites, m_datas, calls, freed, asked, early, found>>
      BY <1>4, StepFacts
    <2>2. MapTypeOK' /\ Objects' = Objects
      BY <1>2, <1>4, <2>1
    <2>3. pc' \in Positions
      <3>1. CASE NextPhase
        <4>1. PICK i \in 1 .. 5 : pc = Phases[i]
          BY <3>1, <1>4, StepFacts, PhaseFacts
        <4>2. pc' = "running" \/ (i \in 1 .. 4 /\ pc' = Phases[i + 1])
          BY <3>1, <4>1, <1>4, StepFacts, AfterFacts
        <4>. QED  BY <4>2, PhaseFacts DEF Positions
      <3>2. CASE StartNamespace
        BY <3>2, <1>4, StepFacts, PhaseFacts DEF Positions
      <3>3. CASE StartSockets \/ LoadXmlFile \/ Destroy \/ ShutdownNext \/ AddCallBack
        <4>1. pc \in Positions
          BY DEF TypeInv, MainTypeOK
        <4>. QED  BY <3>3, <4>1, <1>4, StepFacts DEF Positions, ShutdownNames
      <3>. QED  BY <1>4, <3>1, <3>2, <3>3
    <2>4. /\ next' \in Nat \ {0} /\ cursor' \in Nat /\ index' \in Nat
          /\ sockets' \in BOOLEAN /\ poll' \in Nat \cup {-1}
          /\ process' \in {"running", "crashed", "exited"}
      BY <1>4, StepFacts DEF TypeInv, MainTypeOK
    <2>. QED  BY <2>1, <2>2, <2>3, <2>4 DEF TypeInv, MainTypeOK, ClientTypeOK
  <1>5. ASSUME UNCHANGED document, LoadConfigFile
        PROVE  TypeInv'
    <2>1. MapTypeOK /\ next \in Nat \ {0}
      BY DEF TypeInv, MainTypeOK
    <2>2. /\ pc' \in {"load", "failed"} /\ next' = next + 1
          /\ UNCHANGED <<cursor, index, calls, freed, sockets, poll, asked, early, found>>
          /\ process' \in {process, "crashed"}
          /\ IsMap(m_entites', ControlObjects) /\ IsMap(m_datas', Channels)
      BY <1>5, <2>1, LoadFacts
    <2>3. MapTypeOK' /\ Objects' = Objects
      BY <1>3, <1>5, <2>2
    <2>. QED  BY <2>2, <2>3 DEF TypeInv, MainTypeOK, ClientTypeOK, Positions
  <1>6. ASSUME UNCHANGED document, NEW n \in Names, Visit(n)
        PROVE  TypeInv'
    <2> DEFINE o == m_entites[n]
    <2>1. /\ pc \in PhaseNames /\ pc' \in {pc, "failed"} /\ cursor' = n /\ index' \in Nat
          /\ o \in ControlObjects
          /\ calls' = IF Calls(o, pc) THEN [calls EXCEPT ![o] = Append(@, pc)] ELSE calls
          /\ UNCHANGED <<next, freed, process, sockets, poll, asked, early, found>>
          /\ IsMap(m_entites', ControlObjects) /\ IsMap(m_datas', Channels)
      BY <1>6, VisitFacts
    <2>2. MapTypeOK' /\ Objects' = Objects
      BY <1>3, <1>6, <2>1
    <2>3. o \in Objects /\ n \in Nat
      BY <2>1, Numbers DEF TypeInv
    <2> HIDE DEF o
    <2>4. calls' \in [Objects -> Seq(PhaseNames \cup {"shutdown"})]
      BY <2>1, <2>3 DEF TypeInv, MainTypeOK
    <2>5. pc' \in Positions
      BY <2>1 DEF Positions
    <2>. QED  BY <2>1, <2>2, <2>3, <2>4, <2>5 DEF TypeInv, MainTypeOK, ClientTypeOK
  <1>7. ASSUME UNCHANGED document, NEW n \in Names, ShutdownVisit(n)
        PROVE  TypeInv'
    <2>1. /\ cursor' = n
          /\ UNCHANGED <<pc, next, m_entites, m_datas, index, sockets, poll, asked, early, found>>
      BY <1>7, ShutdownFacts
    <2>2. freed' \subseteq Objects
      BY <1>7, ShutdownFacts DEF TypeInv, MainTypeOK
    <2>3. process' \in {"running", "crashed", "exited"}
      BY <1>7, ShutdownFacts DEF TypeInv, MainTypeOK
    <2>4. calls' \in [Objects -> Seq(PhaseNames \cup {"shutdown"})]
      <3>1. CASE UNCHANGED calls
        BY <3>1 DEF TypeInv, MainTypeOK
      <3>2. CASE m_entites[n] \in Objects
                   /\ calls' = [calls EXCEPT ![m_entites[n]] = Append(@, "shutdown")]
        BY <3>2 DEF TypeInv, MainTypeOK
      <3>. QED  BY <1>7, <3>1, <3>2, ShutdownFacts
    <2>5. n \in Nat
      BY Numbers DEF TypeInv
    <2>6. MapTypeOK' /\ Objects' = Objects
      BY <1>2, <1>7, <2>1
    <2>. QED  BY <2>1, <2>2, <2>3, <2>4, <2>5, <2>6 DEF TypeInv, MainTypeOK, ClientTypeOK
  <1>8. ASSUME UNCHANGED document, Poll
        PROVE  TypeInv'
    <2>1. /\ poll' \in Nat /\ process' \in {process, "crashed"}
          /\ UNCHANGED <<pc, next, cursor, m_entites, m_datas, index, calls, freed,
                         sockets, asked, early, found>>
      BY <1>8, ThreadFacts
    <2>2. MapTypeOK' /\ Objects' = Objects
      BY <1>2, <1>8, <2>1
    <2>. QED  BY <2>1, <2>2 DEF TypeInv, MainTypeOK, ClientTypeOK
  <1>9. ASSUME UNCHANGED document, NEW n \in Names, Lookup(n)
        PROVE  TypeInv'
    <2>1. /\ asked' = {n} /\ early' \subseteq early \cup {n} /\ found' \subseteq found \cup {n}
          /\ process' \in {process, "crashed"}
          /\ UNCHANGED <<pc, next, cursor, m_entites, m_datas, index, calls, freed,
                         sockets, poll>>
      BY <1>9, ThreadFacts
    <2>2. MapTypeOK' /\ Objects' = Objects
      BY <1>2, <1>9, <2>1
    <2>. QED  BY <2>1, <2>2 DEF TypeInv, MainTypeOK, ClientTypeOK
  <1>. QED  BY <1>1, <1>4, <1>5, <1>6, <1>7, <1>8, <1>9 DEF Next, Run, Main

\* The maps hold channels and control objects under names of the configuration, a
\* channel only in m_datas and a control object only in m_entites, whatever make
\* registers; the main thread is always in one of its phases.
THEOREM ApplicationTypeCorrect == Spec => []TypeInv
  <1>1. Init => TypeInv
    BY InitType
  <1>2. TypeInv /\ [Next]_vars => TypeInv'
    BY NextType
  <1>. QED  BY <1>1, <1>2, PTL DEF Spec

-----------------------------------------------------------------------------
(* Deletion.                                                               *)

\* What has been deleted so far was reached under one of its names.
FreedInv ==
  /\ freed # {} => pc \in {"delete", "deleteData"}
  /\ pc = "delete" =>
       \A o \in freed : \E m \in DOMAIN m_entites : m <= cursor /\ m_entites[m] = o
  /\ pc = "deleteData" /\ process = "running" =>
       \A o \in freed :
         \/ \E m \in DOMAIN m_entites : m_entites[m] = o
         \/ \E m \in DOMAIN m_datas : m <= cursor /\ m_datas[m] = o

\* An object that is found under two names has an alias.
LEMMA TwoNames ==
  ASSUME NEW map, IsFiniteSet(DOMAIN map), NEW o,
         NEW m \in DOMAIN map, NEW n \in DOMAIN map, m # n, map[m] = o, map[n] = o
  PROVE  Aliased(map, o)
  <1> DEFINE S == {k \in DOMAIN map : map[k] = o}
  <1>1. IsFiniteSet(S) /\ {m, n} \subseteq S
    BY FS_Subset
  <1>2. IsFiniteSet({m}) /\ Cardinality({m}) = 1
    BY FS_Singleton
  <1>3. Cardinality({m} \cup {n}) = 1 + 1
    BY <1>2, FS_AddElement
  <1>4. {m} \cup {n} \subseteq S
    BY <1>1
  <1>5. Cardinality({m} \cup {n}) <= Cardinality(S) /\ Cardinality(S) \in Nat
    BY <1>1, <1>4, FS_Subset, FS_CardinalityType
  <1>6. Cardinality(S) > 1
    BY <1>3, <1>5
  <1>. QED  BY <1>6 DEF Aliased

CrashInv == FreedInv /\ CrashFree

\* Until the objects are deleted only an element of an unknown type or class
\* crashes the process.
LEMMA NextCrash ==
  ASSUME TypeInv, CrashInv, [Next]_vars
  PROVE  CrashInv'
  <1> USE DEF CrashInv
  <1>1. CASE UNCHANGED vars
    BY <1>1 DEF vars, mapVars, FreedInv, CrashFree, Aliased, Objects
  <1>2. CASE process = "running" /\ UNCHANGED document
    <2>1. ASSUME UNCHANGED <<pc, freed>>, pc \notin {"delete", "deleteData"},
                 UNCHANGED process
          PROVE  CrashInv'
      BY <1>2, <2>1 DEF FreedInv, CrashFree
    <2>2. ASSUME \/ StartSockets \/ LoadXmlFile \/ StartNamespace \/ NextPhase \/ Destroy
          PROVE  CrashInv'
      <3>1. /\ pc \notin {"delete", "deleteData"} /\ pc' \notin {"delete", "deleteData"}
            /\ UNCHANGED <<freed, process>>
        <4>1. CASE NextPhase
          <5>1. PICK i \in 1 .. 5 : pc = Phases[i]
            BY <1>2, <4>1, StepFacts, PhaseFacts
          <5>2. pc' = "running" \/ (i \in 1 .. 4 /\ pc' = Phases[i + 1])
            BY <1>2, <4>1, <5>1, StepFacts, AfterFacts
          <5>3. pc' = "running" \/ pc' \in PhaseNames
            BY <5>2, PhaseFacts
          <5>. QED  BY <1>2, <4>1, <5>3, StepFacts DEF PhaseNames
        <4>2. CASE StartSockets \/ LoadXmlFile \/ Destroy
          BY <1>2, <4>2, StepFacts
        <4>3. CASE StartNamespace
          BY <1>2, <4>3, StepFacts, PhaseFacts
        <4>. QED  BY <2>2, <4>1, <4>2, <4>3
      <3>. QED  BY <1>2, <3>1 DEF FreedInv, CrashFree
    <2>3. ASSUME AddCallBack
          PROVE  CrashInv'
      <3>1. UNCHANGED <<pc, cursor, m_entites, m_datas, freed, process>>
        BY <1>2, <2>3, StepFacts
      <3>. QED  BY <1>2, <3>1 DEF FreedInv, CrashFree
    <2>4. ASSUME LoadConfigFile
          PROVE  CrashInv'
      <3>1. MapTypeOK /\ next \in Nat \ {0}
        BY DEF TypeInv, MainTypeOK
      <3>2. /\ pc = "load" /\ pc' \in {"load", "failed"} /\ UNCHANGED freed
            /\ process' # process =>
                 \E i \in DOMAIN document : document[i].kind \in {"type", "abstract"}
        BY <1>2, <2>4, <3>1, LoadFacts
      <3>3. FreedInv'
        BY <3>2 DEF FreedInv
      <3>4. CrashFree'
        BY <1>2, <3>2 DEF CrashFree
      <3>. QED  BY <3>3, <3>4
    <2>5. ASSUME NEW n \in Names, Visit(n)
          PROVE  CrashInv'
      <3>1. pc \in PhaseNames /\ pc' \in {pc, "failed"} /\ UNCHANGED <<freed, process>>
        BY <1>2, <2>5, VisitFacts
      <3>2. pc \notin {"delete", "deleteData"} /\ pc' \notin {"delete", "deleteData"}
        BY <3>1 DEF PhaseNames
      <3>. QED  BY <1>2, <3>1, <3>2 DEF FreedInv, CrashFree
    <2>6. ASSUME NEW n \in Names, ShutdownVisit(n)
          PROVE  CrashInv'
      <3>1. cursor' = n /\ UNCHANGED <<pc, m_entites, m_datas, sockets, poll>>
        BY <2>6, ShutdownFacts
      <3>2. Objects' = Objects /\ n \in Nat /\ cursor \in Nat
        BY <1>2, Numbers DEF Objects, TypeInv, MainTypeOK
      <3>3. /\ DOMAIN m_entites \subseteq Nat /\ IsFiniteSet(DOMAIN m_entites)
            /\ DOMAIN m_datas \subseteq Nat /\ IsFiniteSet(DOMAIN m_datas)
        BY Numbers DEF TypeInv, MapTypeOK, IsMap
      <3>4. CASE pc = "shutdown"
        <4>1. UNCHANGED <<freed, process>>
          BY <2>6, <3>4, ShutdownFacts
        <4>. QED  BY <1>2, <3>1, <3>4, <4>1 DEF FreedInv, CrashFree
      <3>5. CASE pc = "delete"
        <4> DEFINE o == m_entites[n]
        <4>1. /\ n \in DOMAIN m_entites /\ n > cursor /\ o \in Objects
              /\ freed' = freed \cup {o}
              /\ process' = IF o \in freed THEN "crashed" ELSE process
          BY <2>6, <3>5, ShutdownFacts DEF IsNext, Ahead
        <4>2. FreedInv'
          <5>1. \A p \in freed' : \E m \in DOMAIN m_entites : m <= n /\ m_entites[m] = p
            <6>1. \A p \in freed : \E m \in DOMAIN m_entites : m <= cursor /\ m_entites[m] = p
              BY <3>5 DEF FreedInv
            <6>2. \A m \in DOMAIN m_entites : m <= cursor => m <= n
              BY <3>2, <3>3, <4>1
            <6>3. n <= n
              BY <3>2
            <6>. QED  BY <4>1, <6>1, <6>2, <6>3
          <5>. QED  BY <3>1, <3>5, <5>1 DEF FreedInv
        <4>3. ASSUME o \in freed
              PROVE  Aliased(m_entites, o)
          <5>1. PICK m \in DOMAIN m_entites : m <= cursor /\ m_entites[m] = o
            BY <3>5, <4>3 DEF FreedInv
          <5>2. m # n
            BY <3>2, <3>3, <4>1, <5>1
          <5> HIDE DEF o
          <5>3. m_entites[n] = o
            BY DEF o
          <5>. QED  BY <3>3, <4>1, <5>1, <5>2, <5>3, TwoNames
        <4>4. CrashFree'
          <5>1. process' = "crashed" => \E p \in Objects : Aliased(m_entites, p)
            BY <1>2, <4>1, <4>3
          <5>2. \A p : Aliased(m_entites, p)' <=> Aliased(m_entites, p)
            BY <3>1 DEF Aliased
          <5>. QED  BY <3>1, <3>2, <3>5, <5>1, <5>2 DEF CrashFree
        <4>. QED  BY <4>2, <4>4
      <3>6. CASE pc = "deleteData"
        <4> DEFINE o == m_datas[n]
        <4>1. /\ n \in DOMAIN m_datas /\ n > cursor /\ o \in Objects
              /\ freed' = freed \cup {o}
              /\ process' = IF o \in freed THEN "crashed" ELSE process
          BY <2>6, <3>6, ShutdownFacts DEF IsNext, Ahead
        <4>2. FreedInv'
          <5>1. \A p \in freed' : \/ \E m \in DOMAIN m_entites : m_entites[m] = p
                                  \/ \E m \in DOMAIN m_datas : m <= n /\ m_datas[m] = p
            <6>1. \A p \in freed : \/ \E m \in DOMAIN m_entites : m_entites[m] = p
                                   \/ \E m \in DOMAIN m_datas : m <= cursor /\ m_datas[m] = p
              BY <1>2, <3>6 DEF FreedInv
            <6>2. \A m \in DOMAIN m_datas : m <= cursor => m <= n
              BY <3>2, <3>3, <4>1
            <6>3. n <= n
              BY <3>2
            <6>. QED  BY <4>1, <6>1, <6>2, <6>3
          <5>. QED  BY <3>1, <3>6, <5>1 DEF FreedInv
        <4>3. ASSUME o \in freed
              PROVE  Aliased(m_datas, o)
          <5>1. o \in Channels
            BY <4>1 DEF TypeInv, MapTypeOK, IsMap
          <5>2. \A m \in DOMAIN m_entites : m_entites[m] # o
            BY <5>1, Numbers DEF TypeInv, MapTypeOK, IsMap
          <5>3. PICK m \in DOMAIN m_datas : m <= cursor /\ m_datas[m] = o
            BY <1>2, <3>6, <4>3, <5>2 DEF FreedInv
          <5>4. m # n
            BY <3>2, <3>3, <4>1, <5>3
          <5> HIDE DEF o
          <5>5. m_datas[n] = o
            BY DEF o
          <5>. QED  BY <3>3, <4>1, <5>3, <5>4, <5>5, TwoNames
        <4>4. CrashFree'
          <5>1. process' = "crashed" => \E p \in Objects : Aliased(m_datas, p)
            BY <1>2, <4>1, <4>3
          <5>2. \A p : Aliased(m_datas, p)' <=> Aliased(m_datas, p)
            BY <3>1 DEF Aliased
          <5>. QED  BY <3>1, <3>2, <3>6, <5>1, <5>2 DEF CrashFree
        <4>. QED  BY <4>2, <4>4
      <3>. QED  BY <2>6, <3>4, <3>5, <3>6, ShutdownFacts
    <2>7. ASSUME ShutdownNext
          PROVE  CrashInv'
      <3>1. UNCHANGED <<m_entites, m_datas, freed>> /\ process' # "crashed"
        BY <1>2, <2>7, StepFacts
      <3>2. CASE pc = "shutdown" /\ pc' = "delete"
        BY <3>1, <3>2 DEF FreedInv, CrashFree
      <3>3. CASE pc = "delete" /\ pc' = "deleteData"
        BY <3>1, <3>3 DEF FreedInv, CrashFree
      <3>4. CASE pc = "deleteData" /\ UNCHANGED pc /\ process' = "exited"
        BY <3>1, <3>4 DEF FreedInv, CrashFree
      <3>. QED  BY <1>2, <2>7, <3>2, <3>3, <3>4, StepFacts
    <2>8. ASSUME Poll
          PROVE  CrashInv'
      <3>1. /\ poll' \in Nat /\ UNCHANGED <<pc, cursor, m_entites, m_datas, freed>>
            /\ process' = process \/ (process' = "crashed" /\ freed # {})
        BY <1>2, <2>8, ThreadFacts
      <3>2. poll' >= 0
        BY <3>1
      <3>3. FreedInv'
        BY <1>2, <3>1 DEF FreedInv
      <3>4. CrashFree'
        BY <1>2, <3>1, <3>2 DEF FreedInv, CrashFree
      <3>. QED  BY <3>3, <3>4
    <2>9. ASSUME NEW n \in Names, Lookup(n)
          PROVE  CrashInv'
      <3>1. /\ sockets /\ UNCHANGED <<pc, cursor, m_entites, m_datas, freed, sockets>>
            /\ process' = process \/ (process' = "crashed" /\ freed # {})
        BY <1>2, <2>9, ThreadFacts
      <3>3. FreedInv'
        BY <1>2, <3>1 DEF FreedInv
      <3>4. CrashFree'
        BY <1>2, <3>1 DEF FreedInv, CrashFree
      <3>. QED  BY <3>3, <3>4
    <2>. QED  BY <1>1, <1>2, <2>2, <2>3, <2>4, <2>5, <2>6, <2>7, <2>8, <2>9 DEF Next, Run, Main
  <1>. QED  BY <1>1, <1>2 DEF Next, Run

\* The process crashes only over an element that the loader cannot handle, or
\* while the objects are deleted: one with two names is deleted twice, and a
\* socket thread or the poll thread uses one that is gone.
THEOREM CrashesAreExplained == Spec => []CrashFree
  <1>1. Init => CrashInv
    BY DEF Init, CrashInv, FreedInv, CrashFree
  <1>2. TypeInv /\ CrashInv /\ [Next]_vars => CrashInv'
    BY NextCrash
  <1>3. CrashInv => CrashFree
    BY DEF CrashInv
  <1>. QED  BY <1>1, <1>2, <1>3, ApplicationTypeCorrect, PTL DEF Spec

-----------------------------------------------------------------------------
(* Requests.                                                               *)

\* A request counts as late only once the start-up is over, and then the maps
\* do not change any more.
FoundInv ==
  /\ asked \ early # {} => pc \in Late
  /\ FoundUnlessEarly

LEMMA NextFound ==
  ASSUME TypeInv, FoundInv, [Next]_vars
  PROVE  FoundInv'
  <1>1. ASSUME UNCHANGED <<asked, early, found>>,
               pc \in Late => pc' \in Late /\ UNCHANGED <<m_entites, m_datas>>
        PROVE  FoundInv'
    BY <1>1 DEF FoundInv, FoundUnlessEarly
  <1>2. CASE UNCHANGED vars
    BY <1>1, <1>2 DEF vars, mapVars, clientVars
  <1>3. ASSUME UNCHANGED document, NEW n \in Names, Lookup(n)
        PROVE  FoundInv'
    <2>1. /\ asked' = {n} /\ UNCHANGED <<pc, m_entites, m_datas>>
          /\ pc \notin Late => n \in early'
          /\ pc \in Late /\ n \in DOMAIN m_datas /\ n \notin DOMAIN m_entites => n \in found'
      BY <1>3, ThreadFacts
    <2>. QED  BY <2>1 DEF FoundInv, FoundUnlessEarly
  <1>4. ASSUME UNCHANGED document, Poll
        PROVE  FoundInv'
    BY <1>1, <1>4, ThreadFacts
  <1>5. ASSUME UNCHANGED document, LoadConfigFile
        PROVE  FoundInv'
    <2>1. pc = "load" /\ UNCHANGED <<asked, early, found>>
      BY <1>5 DEF LoadConfigFile, clientVars
    <2>. QED  BY <1>1, <2>1 DEF Late, ShutdownNames
  <1>6. ASSUME UNCHANGED document, NEW n \in Names, Visit(n)
        PROVE  FoundInv'
    <2>1. pc \in PhaseNames /\ UNCHANGED <<asked, early, found>>
      BY <1>6, VisitFacts
    <2>. QED  BY <1>1, <2>1 DEF Late, PhaseNames, ShutdownNames
  <1>7. ASSUME UNCHANGED document, NEW n \in Names, ShutdownVisit(n)
        PROVE  FoundInv'
    BY <1>1, <1>7, ShutdownFacts
  <1>8. ASSUME UNCHANGED document,
               \/ StartSockets \/ LoadXmlFile \/ StartNamespace \/ NextPhase
               \/ Destroy \/ ShutdownNext \/ AddCallBack
        PROVE  FoundInv'
    <2>1. UNCHANGED <<asked, early, found, m_entites, m_datas>>
      BY <1>8, StepFacts
    <2>2. pc \in Late => pc' \in Late
      <3>1. CASE NextPhase
        <4>1. pc \in PhaseNames
          BY <1>8, <3>1, StepFacts
        <4>. QED  BY <4>1 DEF PhaseNames, Late, ShutdownNames
      <3>2. CASE StartSockets \/ LoadXmlFile \/ StartNamespace
        BY <1>8, <3>2, StepFacts DEF Late, ShutdownNames
      <3>3. CASE Destroy \/ ShutdownNext \/ AddCallBack
        BY <1>8, <3>3, StepFacts DEF Late, ShutdownNames
      <3>. QED  BY <1>8, <3>1, <3>2, <3>3
    <2>. QED  BY <1>1, <2>1, <2>2
  <1>. QED  BY <1>2, <1>3, <1>4, <1>5, <1>6, <1>7, <1>8 DEF Next, Run, Main

\* A client that asks after the start-up is given the channel it names, for any
\* configuration: every name was registered before, and shutdownNamespace
\* leaves the maps as they are.
THEOREM LateRequestsFind == Spec => []FoundUnlessEarly
  <1>1. Init => FoundInv
    BY DEF Init, FoundInv, FoundUnlessEarly
  <1>2. TypeInv /\ FoundInv /\ [Next]_vars => FoundInv'
    BY NextFound
  <1>3. FoundInv => FoundUnlessEarly
    BY DEF FoundInv
  <1>. QED  BY <1>1, <1>2, <1>3, ApplicationTypeCorrect, PTL DEF Spec

-----------------------------------------------------------------------------
(* Phases.                                                                 *)

Called(o, phase) == \E k \in DOMAIN calls[o] : calls[o][k] = phase

\* Before the first loop nothing is called.
Uncalled == pc \in {"sockets", "load"} => \A o \in Objects : calls[o] = <<>>

\* In a phase no later one has been called, and shutdown is called last.
NotAhead ==
  /\ \A i \in 1 .. 5 : pc = Phases[i] =>
       \A o \in Objects : \A j \in 1 .. 5 : Did(o, j) => j <= i
  /\ pc \notin ShutdownNames => \A o \in Objects : ~Called(o, "shutdown")

\* A loop has called only what it has reached.
Reached ==
  pc \in PhaseNames \cup {"shutdown"} =>
    \A o \in Objects : Called(o, pc) =>
      \E m \in DOMAIN m_entites : m <= cursor /\ m_entites[m] = o

\* A configured object was called by the loops before, and by this one when it
\* has reached the object's own name.
ConfiguredDone ==
  \A i \in 1 .. 5 : pc = Phases[i] =>
    \A o \in Configured : \A j \in 1 .. 5 :
      (j < i \/ (j = i /\ document[o].name <= cursor))
        => Did(o, j) \/ ~Calls(o, Phases[j])

\* After make every name is there, so every object is called.
AllDone ==
  \A i \in 3 .. 5 : pc = Phases[i] =>
    \A n \in DOMAIN m_entites : \A j \in 3 .. 5 :
      (j < i \/ (j = i /\ n <= cursor)) => Did(m_entites[n], j)

\* An object of the configuration has the name it has there.
Named == \A n \in DOMAIN m_entites : m_entites[n] > 0 => m_entites[n] \in Configured

\* The index told is the number of objects visited.
Counted ==
  pc \in {"verify", "initialize", "startup"} =>
    index = Cardinality({n \in DOMAIN m_entites : n <= cursor})

\* The first three parts of PhasesInOrder.
InOrder ==
  \A o, p \in Configured : \A i \in 1 .. 4 :
    Did(p, i + 1) => Did(o, i) \/ ~Calls(o, Phases[i])
AllInOrder == \A o \in Objects : Did(o, 5) => Did(o, 4) /\ Did(o, 3)
NotTwice ==
  \A o \in Objects : \A j, k \in DOMAIN calls[o] :
    calls[o][j] = calls[o][k] => j = k \/ Aliased(m_entites, o)

LoopInv ==
  /\ Uncalled /\ NotAhead /\ Reached /\ ConfiguredDone /\ AllDone /\ Named /\ Counted
  /\ InOrder /\ AllInOrder /\ NotTwice

\* A call is added to those of o.
LEMMA CallAdded ==
  ASSUME TypeInv, UNCHANGED document, NEW o \in Objects,
         NEW p \in PhaseNames \cup {"shutdown"},
         calls' = [calls EXCEPT ![o] = Append(@, p)]
  PROVE  /\ \A q \in Objects : \A phase :
              Called(q, phase)' <=> Called(q, phase) \/ (q = o /\ phase = p)
         /\ /\ NotTwice
            /\ Called(o, p) => Aliased(m_entites, o)'
            /\ \A q \in Objects : Aliased(m_entites, q) => Aliased(m_entites, q)'
            => NotTwice'
  <1>1. /\ calls \in [Objects -> Seq(PhaseNames \cup {"shutdown"})]
        /\ Objects' = Objects
    BY DEF TypeInv, MainTypeOK, Objects
  <1>2. /\ calls'[o] = Append(calls[o], p) /\ calls[o] \in Seq(PhaseNames \cup {"shutdown"})
        /\ \A q \in Objects \ {o} : calls'[q] = calls[q]
    BY <1>1
  <1>3. /\ Len(calls[o]) \in Nat /\ DOMAIN calls[o] = 1 .. Len(calls[o])
        /\ DOMAIN calls'[o] = 1 .. Len(calls[o]) + 1
        /\ calls'[o][Len(calls[o]) + 1] = p
        /\ \A k \in 1 .. Len(calls[o]) : calls'[o][k] = calls[o][k]
    BY <1>2
  <1>4. ASSUME NEW q \in Objects, NEW phase
        PROVE  Called(q, phase)' <=> Called(q, phase) \/ (q = o /\ phase = p)
    <2>1. CASE q = o
      <3>1. Called(o, phase)' => Called(o, phase) \/ phase = p
        <4>1. \A k \in 1 .. Len(calls[o]) + 1 : k \in 1 .. Len(calls[o]) \/ k = Len(calls[o]) + 1
          BY <1>3
        <4>. QED  BY <1>3, <4>1 DEF Called
      <3>2. Called(o, phase) => Called(o, phase)'
        <4>1. \A k \in 1 .. Len(calls[o]) : k \in 1 .. Len(calls[o]) + 1
          BY <1>3
        <4>. QED  BY <1>3, <4>1 DEF Called
      <3>3. phase = p => Called(o, phase)'
        <4>1. Len(calls[o]) + 1 \in 1 .. Len(calls[o]) + 1
          BY <1>3
        <4>. QED  BY <1>3, <4>1 DEF Called
      <3>. QED  BY <2>1, <3>1, <3>2, <3>3
    <2>2. CASE q # o
      BY <1>2, <2>2 DEF Called
    <2>. QED  BY <2>1, <2>2
  <1>5. ASSUME NotTwice, Called(o, p) => Aliased(m_entites, o)',
               \A q \in Objects : Aliased(m_entites, q) => Aliased(m_entites, q)',
               NEW q \in Objects, NEW j \in DOMAIN calls'[q], NEW k \in DOMAIN calls'[q],
               calls'[q][j] = calls'[q][k], j # k
        PROVE  Aliased(m_entites, q)'
    <2>1. CASE q # o
      BY <1>2, <1>5, <2>1 DEF NotTwice
    <2>2. CASE q = o /\ j \in DOMAIN calls[o] /\ k \in DOMAIN calls[o]
      BY <1>3, <1>5, <2>2 DEF NotTwice
    <2>3. CASE q = o /\ (j \notin DOMAIN calls[o] \/ k \notin DOMAIN calls[o])
      <3>1. Called(o, p)
        <4>1. \/ j = Len(calls[o]) + 1 /\ k \in DOMAIN calls[o]
              \/ k = Len(calls[o]) + 1 /\ j \in DOMAIN calls[o]
          BY <1>3, <1>5, <2>3
        <4>. QED  BY <1>3, <1>5, <2>3, <4>1 DEF Called
      <3>. QED  BY <1>5, <2>3, <3>1
    <2>. QED  BY <2>1, <2>2, <2>3
  <1>6. ASSUME NotTwice, Called(o, p) => Aliased(m_entites, o)',
               \A q \in Objects : Aliased(m_entites, q) => Aliased(m_entites, q)'
        PROVE  NotTwice'
    BY <1>1, <1>5, <1>6 DEF NotTwice
  <1>. QED  BY <1>4, <1>6

\* Nothing has been called.
LEMMA Silence ==
  ASSUME TypeInv, \A o \in Objects : calls[o] = <<>>
  PROVE  /\ \A o \in Objects : \A phase : ~Called(o, phase)
         /\ InOrder /\ AllInOrder /\ NotTwice
  <1>1. \A o \in Objects : \A phase : ~Called(o, phase)
    BY DEF Called
  <1>2. \A o \in Objects : \A i : ~Did(o, i)
    BY DEF Did
  <1>3. Configured \subseteq Objects
    BY DEF Configured, Objects
  <1>4. NotTwice
    BY DEF NotTwice
  <1>. QED  BY <1>1, <1>2, <1>3, <1>4 DEF InOrder, AllInOrder

\* More names do not take an alias away.
LEMMA AliasStays ==
  ASSUME TypeInv, IsFiniteSet(DOMAIN m_entites'), DOMAIN m_entites \subseteq DOMAIN m_entites',
         \A m \in DOMAIN m_entites : m_entites'[m] = m_entites[m]
  PROVE  \A q : Aliased(m_entites, q) => Aliased(m_entites, q)'
  <1> SUFFICES ASSUME NEW q, Aliased(m_entites, q)
               PROVE  Aliased(m_entites, q)'
    OBVIOUS
  <1> DEFINE S == {n \in DOMAIN m_entites : m_entites[n] = q}
             T == {n \in DOMAIN m_entites' : m_entites'[n] = q}
  <1>1. S \subseteq T /\ IsFiniteSet(T)
    BY FS_Subset
  <1>2. Cardinality(S) <= Cardinality(T) /\ Cardinality(T) \in Nat /\ Cardinality(S) \in Nat
    BY <1>1, FS_Subset, FS_CardinalityType
  <1>3. Cardinality(S) > 1
    BY DEF Aliased
  <1>4. Cardinality(T) > 1
    BY <1>2, <1>3
  <1>. QED  BY <1>4 DEF Aliased

\* Calls and maps that stay the same.
LEMMA OrderStays ==
  ASSUME UNCHANGED <<document, m_entites, calls>>
  PROVE  /\ Objects' = Objects /\ Configured' = Configured
         /\ \A o : \A phase : Called(o, phase)' <=> Called(o, phase)
         /\ \A o : \A j : Did(o, j)' <=> Did(o, j)
         /\ \A o : \A phase : Calls(o, phase)' <=> Calls(o, phase)
         /\ Named /\ InOrder /\ AllInOrder /\ NotTwice =>
              Named' /\ InOrder' /\ AllInOrder' /\ NotTwice'
  <1>1. Objects' = Objects /\ Configured' = Configured
    BY DEF Objects, Configured
  <1>2. /\ \A o : \A phase : Called(o, phase)' <=> Called(o, phase)
        /\ \A o : \A j : Did(o, j)' <=> Did(o, j)
        /\ \A o : \A phase : Calls(o, phase)' <=> Calls(o, phase)
    BY DEF Called, Did, Calls
  <1>3. Named => Named'
    BY <1>1 DEF Named
  <1>4. InOrder => InOrder'
    BY <1>1, <1>2 DEF InOrder
  <1>5. AllInOrder => AllInOrder'
    BY <1>1, <1>2 DEF AllInOrder
  <1>6. NotTwice => NotTwice'
    BY <1>1 DEF NotTwice, Aliased
  <1>. QED  BY <1>1, <1>2, <1>3, <1>4, <1>5, <1>6

\* Outside the loops of the start-up.
LEMMA NoLoop ==
  ASSUME pc' \in Positions \ PhaseNames
  PROVE  ConfiguredDone' /\ AllDone' /\ Counted'
  <1>1. \A i \in 1 .. 5 : pc' # Phases[i]
    BY PhaseFacts
  <1>2. pc' \notin {"verify", "initialize", "startup"}
    BY DEF PhaseNames
  <1>3. ConfiguredDone'
    BY <1>1 DEF ConfiguredDone
  <1>4. AllDone'
    BY <1>1 DEF AllDone
  <1>. QED  BY <1>2, <1>3, <1>4 DEF Counted

\* Steps that leave the calls and the names alone.
LEMMA LoopSteps ==
  ASSUME TypeInv, TypeInv', LoopInv, UNCHANGED document,
         \/ StartSockets \/ LoadXmlFile \/ StartNamespace \/ Destroy \/ ShutdownNext
  PROVE  LoopInv'
  <1>1. UNCHANGED <<m_entites, calls>>
    BY StepFacts
  <1>2. /\ Objects' = Objects /\ Configured' = Configured
        /\ \A o : \A phase : Called(o, phase)' <=> Called(o, phase)
        /\ \A o : \A j : Did(o, j)' <=> Did(o, j)
        /\ Named' /\ InOrder' /\ AllInOrder' /\ NotTwice'
    BY <1>1, OrderStays DEF LoopInv
  <1>3. CASE StartSockets \/ LoadXmlFile
    <2>1. pc \in {"sockets", "load"} /\ pc' \in {"load", "failed"}
      BY <1>3, StepFacts
    <2>2. \A o \in Objects : calls[o] = <<>>
      BY <2>1 DEF LoopInv, Uncalled
    <2>3. pc' \in Positions \ PhaseNames /\ pc' \notin PhaseNames \cup {"shutdown"}
      BY <2>1 DEF Positions, PhaseNames
    <2>4. Uncalled'
      BY <1>1, <1>2, <2>2 DEF Uncalled
    <2>5. NotAhead'
      <3>1. \A o \in Objects : ~Called(o, "shutdown")
        BY <2>2, Silence
      <3>. QED  BY <1>2, <2>3, <3>1, PhaseFacts DEF NotAhead
    <2>6. Reached'
      BY <2>3 DEF Reached
    <2>. QED  BY <1>2, <2>3, <2>4, <2>5, <2>6, NoLoop DEF LoopInv
  <1>4. CASE StartNamespace
    <2>1. pc = "load" /\ pc' = Phases[1] /\ cursor' = 0
      BY <1>4, StepFacts
    <2>2. \A o \in Objects : \A phase : ~Called(o, phase)
      BY <2>1, Silence DEF LoopInv, Uncalled
    <2>3. \A o \in Objects : \A j : ~Did(o, j)
      BY <2>2 DEF Did, Called
    <2>4. pc' = "registChannels" /\ \A i \in 1 .. 5 : pc' = Phases[i] => i = 1
      BY <2>1, PhaseFacts
    <2>5. Uncalled' /\ Reached'
      BY <1>2, <2>2, <2>4 DEF Uncalled, Reached
    <2>6. NotAhead'
      BY <1>2, <2>2, <2>3 DEF NotAhead
    <2>7. ConfiguredDone'
      <3>1. \A o \in Configured : document'[o].name \in Nat /\ ~(document'[o].name <= cursor')
        BY <2>1, Numbers DEF Configured, TypeInv, MapTypeOK, IsMap
      <3>2. \A j \in 1 .. 5 : ~(j < 1)
        OBVIOUS
      <3>. QED  BY <1>2, <2>4, <3>1, <3>2 DEF ConfiguredDone
    <2>8. AllDone' /\ Counted'
      <3>1. \A i \in 3 .. 5 : pc' # Phases[i]
        BY <2>4, PhaseFacts
      <3>. QED  BY <2>4, <3>1 DEF AllDone, Counted
    <2>. QED  BY <1>2, <2>5, <2>6, <2>7, <2>8 DEF LoopInv
  <1>5. CASE Destroy
    <2>1. pc \in {"running", "failed"} /\ pc' = "shutdown"
      BY <1>5, StepFacts
    <2>2. \A o \in Objects : ~Called(o, "shutdown")
      BY <2>1 DEF LoopInv, NotAhead, ShutdownNames
    <2>3. pc' \in Positions \ PhaseNames /\ pc' \in ShutdownNames
      BY <2>1 DEF Positions, PhaseNames, ShutdownNames
    <2>4. Uncalled' /\ Reached'
      BY <1>2, <2>1, <2>2 DEF Uncalled, Reached
    <2>5. NotAhead'
      BY <2>3, PhaseFacts DEF NotAhead
    <2>. QED  BY <1>2, <2>3, <2>4, <2>5, NoLoop DEF LoopInv
  <1>6. CASE ShutdownNext
    <2>1. pc' \in {"delete", "deleteData"}
      BY <1>6, StepFacts
    <2>2. pc' \in Positions \ PhaseNames /\ pc' \in ShutdownNames
      BY <2>1 DEF Positions, PhaseNames, ShutdownNames
    <2>3. Uncalled' /\ Reached'
      BY <2>1 DEF Uncalled, Reached, PhaseNames
    <2>4. NotAhead'
      BY <2>2, PhaseFacts DEF NotAhead
    <2>. QED  BY <1>2, <2>2, <2>3, <2>4, NoLoop DEF LoopInv
  <1>. QED  BY <1>3, <1>4, <1>5, <1>6

\* The end of a loop.
LEMMA LoopEnds ==
  ASSUME TypeInv, TypeInv', LoopInv, UNCHANGED document, NextPhase
  PROVE  LoopInv'
  <1>1. /\ pc \in PhaseNames /\ Ahead(m_entites) = {} /\ pc' = After(pc)
        /\ cursor' = 0 /\ index' = 0 /\ UNCHANGED <<m_entites, calls>>
    BY StepFacts
  <1>2. /\ Objects' = Objects /\ Configured' = Configured
        /\ \A o : \A phase : Called(o, phase)' <=> Called(o, phase)
        /\ \A o : \A j : Did(o, j)' <=> Did(o, j)
        /\ \A o : \A phase : Calls(o, phase)' <=> Calls(o, phase)
        /\ Named' /\ InOrder' /\ AllInOrder' /\ NotTwice'
    BY <1>1, OrderStays DEF LoopInv
  <1>3. PICK i \in 1 .. 5 : pc = Phases[i]
    BY <1>1, PhaseFacts
  <1>4. pc \notin ShutdownNames /\ \A o \in Objects : ~Called(o, "shutdown")
    BY <1>1 DEF LoopInv, NotAhead, PhaseNames, ShutdownNames
  <1>5. CASE i = 5
    <2>1. pc' = "running"
      BY <1>1, <1>3, <1>5, AfterFacts
    <2>2. pc' \in Positions \ PhaseNames
      BY <2>1 DEF Positions, PhaseNames
    <2>3. Uncalled' /\ Reached'
      BY <2>1 DEF Uncalled, Reached, PhaseNames
    <2>4. NotAhead'
      BY <1>2, <1>4, <2>2, PhaseFacts DEF NotAhead
    <2>. QED  BY <1>2, <2>2, <2>3, <2>4, NoLoop DEF LoopInv
  <1>6. CASE i \in 1 .. 4
    <2>1. pc' = Phases[i + 1] /\ i + 1 \in 1 .. 5 /\ pc' \in PhaseNames
      BY <1>1, <1>3, <1>6, AfterFacts, PhaseFacts
    <2>2. \A k \in 1 .. 5 : pc' = Phases[k] => k = i + 1
      BY <2>1, PhaseFacts
    <2>3. \A o \in Objects : \A j \in 1 .. 5 : Did(o, j) => j <= i
      BY <1>3 DEF LoopInv, NotAhead
    <2>4. Uncalled'
      BY <2>1 DEF Uncalled, PhaseNames
    <2>5. NotAhead'
      BY <1>2, <1>4, <2>2, <2>3 DEF NotAhead
    <2>6. Reached'
      <3>1. \A o \in Objects : ~Did(o, i + 1)
        BY <2>1, <2>3
      <3>2. \A o \in Objects : ~Called(o, pc')
        BY <2>1, <3>1 DEF Did, Called
      <3>3. \A o \in Objects : ~Called(o, pc)'
        BY <1>1, <3>2 DEF Called
      <3>. QED  BY <1>2, <3>3 DEF Reached
    <2>7. /\ cursor \in Nat /\ \A n \in DOMAIN m_entites : n \in Nat /\ n <= cursor /\ ~(n <= 0)
      <3>1. DOMAIN m_entites \subseteq Nat \ {0} /\ cursor \in Nat
        BY Numbers DEF TypeInv, MapTypeOK, MainTypeOK, IsMap
      <3>. QED  BY <1>1, <3>1 DEF Ahead
    <2>8. ConfiguredDone'
      <3> SUFFICES ASSUME NEW o \in Configured, NEW j \in 1 .. 5,
                          j < i + 1 \/ (j = i + 1 /\ document[o].name <= 0)
                   PROVE  Did(o, j) \/ ~Calls(o, Phases[j])
        BY <1>1, <1>2, <2>2 DEF ConfiguredDone
      <3>1. document[o].name \in DOMAIN m_entites
        BY DEF Configured
      <3>2. j < i \/ (j = i /\ document[o].name <= cursor)
        BY <2>7, <3>1
      <3>. QED  BY <1>3, <3>2 DEF LoopInv, ConfiguredDone
    <2>9. AllDone'
      <3> SUFFICES ASSUME i + 1 \in 3 .. 5, NEW n \in DOMAIN m_entites, NEW j \in 3 .. 5,
                          j < i + 1 \/ (j = i + 1 /\ n <= 0)
                   PROVE  Did(m_entites[n], j)
        BY <1>1, <1>2, <2>2 DEF AllDone
      <3>1. i \in 3 .. 5 /\ (j < i \/ (j = i /\ n <= cursor))
        BY <2>7
      <3>. QED  BY <1>3, <3>1 DEF LoopInv, AllDone
    <2>10. Counted'
      <3>1. {n \in DOMAIN m_entites' : n <= cursor'} = {}
        BY <1>1, <2>7
      <3>. QED  BY <1>1, <3>1, FS_EmptySet DEF Counted
    <2>. QED  BY <1>2, <2>4, <2>5, <2>6, <2>8, <2>9, <2>10 DEF LoopInv
  <1>. QED  BY <1>5, <1>6

\* An element is loaded: nothing has been called.
LEMMA LoopLoad ==
  ASSUME TypeInv, TypeInv', LoopInv, UNCHANGED document, LoadConfigFile
  PROVE  LoopInv'
  <1>1. /\ pc = "load" /\ pc' \in {"load", "failed"} /\ UNCHANGED calls
        /\ \/ UNCHANGED m_entites
           \/ /\ next \in Controls
              /\ Extends(m_entites, m_entites', document[next].name, next)
    BY LoadFacts DEF TypeInv, MainTypeOK
  <1>2. \A o \in Objects' : calls'[o] = <<>>
    BY <1>1 DEF LoopInv, Uncalled, Objects
  <1>3. /\ \A o \in Objects' : \A phase : ~Called(o, phase)'
        /\ InOrder' /\ AllInOrder' /\ NotTwice'
    <2>1. \A o \in Objects' : \A phase : ~Called(o, phase)'
      BY <1>2 DEF Called
    <2>2. \A o \in Objects' : \A j : ~Did(o, j)'
      BY <1>2 DEF Did
    <2>3. Configured' \subseteq Objects'
      BY DEF Configured, Objects
    <2>4. NotTwice'
      BY <1>2 DEF NotTwice
    <2>. QED  BY <2>1, <2>2, <2>3, <2>4 DEF InOrder, AllInOrder
  <1>4. Uncalled'
    BY <1>2 DEF Uncalled
  <1>5. pc' \in Positions \ PhaseNames /\ pc' \notin PhaseNames \cup {"shutdown"}
    BY <1>1 DEF Positions, PhaseNames
  <1>6. NotAhead' /\ Reached'
    BY <1>3, <1>5, PhaseFacts DEF NotAhead, Reached
  <1>7. Named'
    <2>1. CASE UNCHANGED m_entites
      BY <2>1 DEF LoopInv, Named, Configured
    <2>2. CASE /\ next \in Controls
               /\ Extends(m_entites, m_entites', document[next].name, next)
      <3>1. Configured \subseteq Configured'
        BY <2>2 DEF Extends, Configured
      <3> SUFFICES ASSUME NEW n \in DOMAIN m_entites', m_entites'[n] > 0
                   PROVE  m_entites'[n] \in Configured'
        BY DEF Named
      <3>2. CASE n \in DOMAIN m_entites
        BY <2>2, <3>1, <3>2 DEF Extends, LoopInv, Named
      <3>3. CASE n = document[next].name /\ m_entites'[n] = next
        BY <2>2, <3>3 DEF Controls, Configured
      <3>. QED  BY <2>2, <3>2, <3>3 DEF Extends
    <2>. QED  BY <1>1, <2>1, <2>2
  <1>. QED  BY <1>3, <1>4, <1>5, <1>6, <1>7, NoLoop DEF LoopInv

\* A loop calls the object under the next name.
LEMMA LoopVisit ==
  ASSUME TypeInv, TypeInv', LoopInv, UNCHANGED document, NEW n \in Names, Visit(n)
  PROVE  LoopInv'
  <1> DEFINE o == m_entites[n]
  <1>1. /\ pc \in PhaseNames /\ cursor' = n /\ o \in ControlObjects
        /\ calls' = IF Calls(o, pc) THEN [calls EXCEPT ![o] = Append(@, pc)] ELSE calls
        /\ pc' \in {pc, "failed"}
        /\ pc # "registChannels" => index' = index + 1
        /\ IsMap(m_entites', ControlObjects)
        /\ pc # "make" => UNCHANGED m_entites
        /\ \/ UNCHANGED m_entites
           \/ \E k \in Names, w \in {o, -o} : o > 0 /\ Extends(m_entites, m_entites', k, w)
    BY VisitFacts
  <1>2. /\ n \in DOMAIN m_entites /\ n > cursor
        /\ \A m \in DOMAIN m_entites : m > cursor => n <= m
    BY VisitFacts DEF IsNext, Ahead
  <1>3. /\ n \in Nat /\ cursor \in Nat /\ DOMAIN m_entites \subseteq Nat
        /\ IsFiniteSet(DOMAIN m_entites) /\ IsFiniteSet(DOMAIN m_entites')
        /\ o \in Objects /\ Objects' = Objects /\ o \in Int
    <2>1. Objects' = Objects
      BY DEF Objects
    <2>. QED  BY <1>1, <2>1, Numbers DEF TypeInv, MapTypeOK, MainTypeOK, IsMap
  <1>4. /\ DOMAIN m_entites \subseteq DOMAIN m_entites'
        /\ \A m \in DOMAIN m_entites : m_entites'[m] = m_entites[m]
    BY <1>1 DEF Extends
  <1>5. PICK i \in 1 .. 5 : pc = Phases[i]
    BY <1>1, PhaseFacts
  <1>6. o > 0 => o \in Configured
    BY <1>2 DEF LoopInv, Named
  <1>7. \A q \in Objects : \A phase :
          Called(q, phase)' <=> Called(q, phase) \/ (q = o /\ phase = pc /\ Calls(o, pc))
    <2> HIDE DEF o
    <2>1. CASE Calls(o, pc)
      BY <1>1, <1>3, <2>1, CallAdded
    <2>2. CASE ~Calls(o, pc)
      <3>1. calls' = calls
        BY <1>1, <2>2
      <3>. QED  BY <2>2, <3>1 DEF Called
    <2>. QED  BY <2>1, <2>2
  <1>8. \A q \in Objects : \A j \in 1 .. 5 :
          Did(q, j)' <=> Did(q, j) \/ (q = o /\ j = i /\ Calls(o, pc))
    <2>1. \A q : \A j : (Did(q, j) <=> Called(q, Phases[j])) /\ (Did(q, j)' <=> Called(q, Phases[j])')
      BY DEF Did, Called
    <2>2. \A j \in 1 .. 5 : Phases[j] = pc => j = i
      BY <1>5, PhaseFacts
    <2>3. ASSUME NEW q \in Objects, NEW j \in 1 .. 5
          PROVE  Did(q, j)' <=> Did(q, j) \/ (q = o /\ j = i /\ Calls(o, pc))
      <3> HIDE DEF o
      <3>1. Called(q, Phases[j])' <=> Called(q, Phases[j])
              \/ (q = o /\ Phases[j] = pc /\ Calls(o, pc))
        BY <1>7
      <3>. QED  BY <1>5, <2>1, <2>2, <3>1
    <2>. QED  BY <2>3
  <1>9. Configured' = Configured
    <2>1. Configured \subseteq Configured'
      BY <1>4 DEF Configured
    <2>2. ASSUME NEW q \in Configured'
          PROVE  q \in Configured
      <3>1. /\ q \in DOMAIN document /\ document[q].kind \in {"object", "driver", "method"}
            /\ document[q].name \in DOMAIN m_entites' /\ m_entites'[document[q].name] = q
        BY <2>2 DEF Configured
      <3>2. CASE document[q].name \in DOMAIN m_entites
        BY <1>4, <3>1, <3>2 DEF Configured
      <3>3. CASE document[q].name \notin DOMAIN m_entites
        <4>1. q \in {o, -o} /\ o > 0
          BY <1>1, <3>1, <3>3 DEF Extends
        <4>2. q > 0
          BY <3>1, Numbers DEF TypeInv
        <4>3. q = o
          BY <1>3, <4>1, <4>2
        <4>. QED  BY <1>6, <4>1, <4>3
      <3>. QED  BY <3>2, <3>3
    <2>. QED  BY <2>1, <2>2
  <1>10. \A q : \A phase : Calls(q, phase)' <=> Calls(q, phase)
    BY DEF Calls
  <1>11. Configured \subseteq Objects
    BY DEF Configured, Objects
  <1>12. \A m \in DOMAIN m_entites : m <= n => m <= cursor \/ m = n
    BY <1>2, <1>3
  <1>13. \A k \in 1 .. 5 : pc' = Phases[k] => pc' = pc /\ k = i
    <2>1. \A k \in 1 .. 5 : Phases[k] # "failed"
      BY PhaseFacts DEF PhaseNames
    <2>. QED  BY <1>1, <1>5, <2>1, PhaseFacts
  <1> HIDE DEF o
  <1>14. Uncalled'
    BY <1>1 DEF Uncalled, PhaseNames
  <1>15. NotAhead'
    <2>1. \A q \in Objects : \A j \in 1 .. 5 : Did(q, j)' => j <= i
      <3>1. \A q \in Objects : \A j \in 1 .. 5 : Did(q, j) => j <= i
        BY <1>5 DEF LoopInv, NotAhead
      <3>. QED  BY <1>8, <3>1
    <2>2. \A q \in Objects : ~Called(q, "shutdown")'
      <3>1. \A q \in Objects : ~Called(q, "shutdown")
        BY <1>1 DEF LoopInv, NotAhead, PhaseNames, ShutdownNames
      <3>. QED  BY <1>1, <1>7, <3>1 DEF PhaseNames
    <2>. QED  BY <1>3, <1>13, <2>1, <2>2 DEF NotAhead
  <1>16. Reached'
    <2> SUFFICES ASSUME pc' \in PhaseNames \cup {"shutdown"}, NEW q \in Objects, Called(q, pc)'
                 PROVE  \E m \in DOMAIN m_entites' : m <= n /\ m_entites'[m] = q
      BY <1>1, <1>3 DEF Reached
    <2>1. pc' = pc
      BY <1>1 DEF PhaseNames
    <2>2. Called(q, pc) \/ q = o
      <3>1. \E k \in DOMAIN calls'[q] : calls'[q][k] = pc
        BY <2>1 DEF Called
      <3>2. \A phase : Called(q, phase)' <=> \E k \in DOMAIN calls'[q] : calls'[q][k] = phase
        BY DEF Called
      <3>. QED  BY <1>7, <3>1, <3>2
    <2>3. CASE q = o
      BY <1>2, <1>3, <1>4, <2>3 DEF o
    <2>4. CASE Called(q, pc)
      <3>1. PICK m \in DOMAIN m_entites : m <= cursor /\ m_entites[m] = q
        BY <1>1, <2>4 DEF LoopInv, Reached
      <3>2. m <= n
        BY <1>2, <1>3, <3>1
      <3>. QED  BY <1>4, <3>1, <3>2
    <2>. QED  BY <2>2, <2>3, <2>4
  <1>17. ConfiguredDone'
    <2> SUFFICES ASSUME NEW q \in Configured, NEW j \in 1 .. 5,
                        j < i \/ (j = i /\ document[q].name <= n)
                 PROVE  Did(q, j)' \/ ~Calls(q, Phases[j])
      BY <1>1, <1>9, <1>10, <1>13 DEF ConfiguredDone
    <2>1. q \in Objects /\ document[q].name \in DOMAIN m_entites
            /\ m_entites[document[q].name] = q
      BY <1>11 DEF Configured
    <2>2. CASE j < i \/ document[q].name <= cursor
      <3>1. Did(q, j) \/ ~Calls(q, Phases[j])
        BY <1>5, <2>2 DEF LoopInv, ConfiguredDone
      <3>. QED  BY <1>8, <2>1, <3>1
    <2>3. CASE j = i /\ document[q].name = n
      BY <1>5, <1>8, <2>1, <2>3 DEF o
    <2>. QED  BY <1>12, <2>1, <2>2, <2>3
  <1>18. ASSUME i \in 3 .. 5
         PROVE  UNCHANGED m_entites /\ Calls(o, pc) /\ index' = index + 1
    <2>1. pc # "make" /\ pc # "registChannels"
      BY <1>5, <1>18, PhaseFacts
    <2>. QED  BY <1>1, <2>1 DEF Calls
  <1>19. AllDone'
    <2> SUFFICES ASSUME i \in 3 .. 5, NEW m \in DOMAIN m_entites', NEW j \in 3 .. 5,
                        j < i \/ (j = i /\ m <= n)
                 PROVE  Did(m_entites[m], j)'
      <3>1. \A k \in 3 .. 5 : k \in 1 .. 5
        OBVIOUS
      <3>. QED  BY <1>1, <1>13, <3>1 DEF AllDone
    <2>1. UNCHANGED m_entites /\ Calls(o, pc)
      BY <1>18
    <2>2. m \in DOMAIN m_entites /\ m_entites[m] \in Objects /\ j \in 1 .. 5
      BY <2>1, Numbers DEF TypeInv, MapTypeOK, IsMap
    <2>3. PICK q \in Objects : q = m_entites[m] /\ q = m_entites'[m]
      BY <2>1, <2>2
    <2>4. Did(q, j) \/ (q = o /\ j = i)
      <3>1. CASE j < i \/ m <= cursor
        <4>1. Did(m_entites[m], j)
          BY <1>5, <2>2, <3>1 DEF LoopInv, AllDone
        <4>. QED  BY <2>3, <4>1
      <3>2. CASE j = i /\ m = n
        BY <2>3, <3>2 DEF o
      <3>. QED  BY <1>12, <2>2, <3>1, <3>2
    <2>5. Did(q, j)'
      BY <1>8, <2>1, <2>2, <2>4
    <2>. QED  BY <2>3, <2>5 DEF Did
  <1>20. Named'
    <2> SUFFICES ASSUME NEW m \in DOMAIN m_entites', m_entites'[m] > 0
                 PROVE  m_entites'[m] \in Configured
      BY <1>9 DEF Named
    <2>1. CASE m \in DOMAIN m_entites
      BY <1>4, <2>1 DEF LoopInv, Named
    <2>2. CASE m \notin DOMAIN m_entites
      <3>1. o > 0 /\ m_entites'[m] \in {o, -o}
        BY <1>1, <2>2 DEF Extends
      <3>2. m_entites'[m] = o
        BY <1>3, <3>1
      <3>. QED  BY <1>6, <3>1, <3>2
    <2>. QED  BY <2>1, <2>2
  <1>21. Counted'
    <2> SUFFICES ASSUME pc' \in {"verify", "initialize", "startup"}
                 PROVE  index' = Cardinality({m \in DOMAIN m_entites' : m <= n})
      BY <1>1 DEF Counted
    <2>1. pc' = pc /\ i \in 3 .. 5
      BY <1>1, <1>5, PhaseFacts
    <2>2. UNCHANGED m_entites /\ index' = index + 1
      BY <1>18, <2>1
    <2> DEFINE S == {m \in DOMAIN m_entites : m <= cursor}
    <2>3. IsFiniteSet(S) /\ n \notin S
      BY <1>2, <1>3, FS_Subset
    <2>4. {m \in DOMAIN m_entites : m <= n} = S \cup {n}
      BY <1>2, <1>3, <1>12
    <2>5. Cardinality(S \cup {n}) = Cardinality(S) + 1
      BY <2>3, FS_AddElement
    <2>6. index = Cardinality(S)
      BY <2>1 DEF LoopInv, Counted
    <2>. QED  BY <2>2, <2>4, <2>5, <2>6
  <1>22. InOrder'
    <2> SUFFICES ASSUME NEW q \in Configured, NEW p \in Configured, NEW k \in 1 .. 4,
                        Did(p, k + 1)'
                 PROVE  Did(q, k)' \/ ~Calls(q, Phases[k])
      BY <1>9, <1>10 DEF InOrder
    <2>1. k \in 1 .. 5 /\ k + 1 \in 1 .. 5 /\ p \in Objects /\ q \in Objects
      BY <1>11
    <2>2. Did(p, k + 1) \/ k + 1 = i
      BY <1>8, <2>1
    <2>3. Did(q, k) \/ ~Calls(q, Phases[k])
      <3>1. CASE Did(p, k + 1)
        BY <3>1 DEF LoopInv, InOrder
      <3>2. CASE k + 1 = i
        <4>1. k < i
          BY <3>2
        <4>. QED  BY <1>5, <2>1, <4>1 DEF LoopInv, ConfiguredDone
      <3>. QED  BY <2>2, <3>1, <3>2
    <2>. QED  BY <1>8, <2>1, <2>3
  <1>23. AllInOrder'
    <2> SUFFICES ASSUME NEW q \in Objects, Did(q, 5)'
                 PROVE  Did(q, 4)' /\ Did(q, 3)'
      BY <1>3 DEF AllInOrder
    <2>1. Did(q, 4) /\ Did(q, 3)
      <3>1. CASE Did(q, 5)
        BY <3>1 DEF LoopInv, AllInOrder
      <3>2. CASE q = o /\ i = 5
        BY <1>2, <1>5, <3>2 DEF LoopInv, AllDone, o
      <3>. QED  BY <1>8, <3>1, <3>2
    <2>. QED  BY <1>8, <2>1
  <1>24. NotTwice'
    <2>1. \A q : Aliased(m_entites, q) => Aliased(m_entites, q)'
      BY <1>3, <1>4, AliasStays
    <2>2. PICK w \in Objects : w = o
      BY <1>3
    <2>5. Called(w, pc) => Aliased(m_entites, w)'
      <3> SUFFICES ASSUME Called(w, pc)
                   PROVE  Aliased(m_entites, w)
        BY <2>1
      <3>1. PICK m \in DOMAIN m_entites : m <= cursor /\ m_entites[m] = w
        BY <1>1 DEF LoopInv, Reached
      <3>2. m # n /\ m_entites[n] = w
        BY <1>2, <1>3, <2>2, <3>1 DEF o
      <3>. QED  BY <1>2, <1>3, <3>1, <3>2, TwoNames
    <2>3. CASE Calls(o, pc)
      <3>1. calls' = [calls EXCEPT ![w] = Append(@, pc)] /\ pc \in PhaseNames \cup {"shutdown"}
        BY <1>1, <2>2, <2>3
      <3>. QED  BY <2>1, <2>5, <3>1, CallAdded DEF LoopInv
    <2>4. CASE ~Calls(o, pc)
      <3>1. calls' = calls
        BY <1>1, <2>4
      <3>. QED  BY <1>3, <2>1, <3>1 DEF LoopInv, NotTwice
    <2>. QED  BY <2>3, <2>4
  <1>. QED  BY <1>14, <1>15, <1>16, <1>17, <1>19, <1>20, <1>21, <1>22, <1>23, <1>24 DEF LoopInv

\* shutdownNamespace calls the objects once more, or deletes them.
LEMMA LoopShutdown ==
  ASSUME TypeInv, TypeInv', LoopInv, UNCHANGED document, NEW n \in Names, ShutdownVisit(n)
  PROVE  LoopInv'
  <1>1. cursor' = n /\ pc \in ShutdownNames /\ UNCHANGED <<pc, m_entites>>
    BY ShutdownFacts
  <1>2. pc' \in Positions \ PhaseNames /\ pc' \in ShutdownNames
    BY <1>1 DEF Positions, PhaseNames, ShutdownNames
  <1>3. NotAhead' /\ Uncalled'
    BY <1>2, PhaseFacts DEF NotAhead, Uncalled, ShutdownNames
  <1>4. CASE UNCHANGED calls /\ pc # "shutdown"
    <2>1. Named' /\ InOrder' /\ AllInOrder' /\ NotTwice'
      BY <1>1, <1>4, OrderStays DEF LoopInv
    <2>2. Reached'
      BY <1>1, <1>2, <1>4 DEF Reached
    <2>. QED  BY <1>2, <1>3, <2>1, <2>2, NoLoop DEF LoopInv
  <1>5. CASE /\ pc = "shutdown" /\ IsNext(n, m_entites) /\ m_entites[n] \in Objects
             /\ calls' = [calls EXCEPT ![m_entites[n]] = Append(@, "shutdown")]
    <2> DEFINE o == m_entites[n]
    <2>1. /\ n \in DOMAIN m_entites /\ n > cursor /\ n \in Nat /\ cursor \in Nat
          /\ DOMAIN m_entites \subseteq Nat /\ IsFiniteSet(DOMAIN m_entites)
      BY <1>5, Numbers DEF IsNext, Ahead, TypeInv, MapTypeOK, MainTypeOK, IsMap
    <2>2. Objects' = Objects /\ Configured' = Configured /\ Configured \subseteq Objects
      BY <1>1 DEF Objects, Configured
    <2>3. \A q \in Objects : \A phase :
            Called(q, phase)' <=> Called(q, phase) \/ (q = o /\ phase = "shutdown")
      BY <1>5, CallAdded
    <2> HIDE DEF o
    <2>4. \A q \in Objects : \A j \in 1 .. 5 : Did(q, j)' <=> Did(q, j)
      <3>1. \A q : \A j : (Did(q, j) <=> Called(q, Phases[j])) /\ (Did(q, j)' <=> Called(q, Phases[j])')
        BY DEF Did, Called
      <3>2. \A j \in 1 .. 5 : Phases[j] # "shutdown"
        BY PhaseFacts DEF PhaseNames
      <3>3. ASSUME NEW q \in Objects, NEW j \in 1 .. 5
            PROVE  Did(q, j)' <=> Did(q, j)
        <4>1. Called(q, Phases[j])' <=> Called(q, Phases[j]) \/ (q = o /\ Phases[j] = "shutdown")
          BY <2>3
        <4>. QED  BY <3>1, <3>2, <4>1
      <3>. QED  BY <3>3
    <2>5. Named'
      BY <1>1, <2>2 DEF LoopInv, Named
    <2>6. InOrder'
      <3>1. \A q : \A phase : Calls(q, phase)' <=> Calls(q, phase)
        BY DEF Calls
      <3>2. \A i \in 1 .. 4 : i \in 1 .. 5 /\ i + 1 \in 1 .. 5
        OBVIOUS
      <3> SUFFICES ASSUME NEW q \in Configured, NEW p \in Configured, NEW i \in 1 .. 4,
                          Did(p, i + 1)'
                   PROVE  Did(q, i)' \/ ~Calls(q, Phases[i])
        BY <2>2, <3>1 DEF InOrder
      <3>3. Did(p, i + 1)
        BY <2>2, <2>4, <3>2
      <3>4. Did(q, i) \/ ~Calls(q, Phases[i])
        BY <3>3 DEF LoopInv, InOrder
      <3>. QED  BY <2>2, <2>4, <3>2, <3>4
    <2>7. AllInOrder'
      <3>1. 3 \in 1 .. 5 /\ 4 \in 1 .. 5 /\ 5 \in 1 .. 5
        OBVIOUS
      <3>. QED  BY <2>2, <2>4, <3>1 DEF LoopInv, AllInOrder
    <2>8. NotTwice'
      <3>1. Called(o, "shutdown") => Aliased(m_entites, o)
        <4> SUFFICES ASSUME Called(o, "shutdown")
                     PROVE  Aliased(m_entites, o)
          OBVIOUS
        <4>1. PICK m \in DOMAIN m_entites : m <= cursor /\ m_entites[m] = o
          BY <1>5 DEF LoopInv, Reached, o
        <4>2. m # n /\ m_entites[n] = o
          BY <2>1, <4>1 DEF o
        <4>. QED  BY <2>1, <4>1, <4>2, TwoNames
      <3>2. \A q : Aliased(m_entites, q)' <=> Aliased(m_entites, q)
        BY <1>1 DEF Aliased
      <3>3. o \in Objects /\ calls' = [calls EXCEPT ![o] = Append(@, "shutdown")]
        BY <1>5 DEF o
      <3>. QED  BY <3>1, <3>2, <3>3, CallAdded DEF LoopInv
    <2>9. Reached'
      <3> SUFFICES ASSUME NEW q \in Objects, Called(q, "shutdown")'
                   PROVE  \E m \in DOMAIN m_entites : m <= n /\ m_entites[m] = q
        <4>1. pc' = "shutdown"
          BY <1>1, <1>5
        <4>2. \A q \in Objects : Called(q, pc)' <=> Called(q, "shutdown")'
          BY <4>1 DEF Called
        <4>. QED  BY <1>1, <2>2, <4>2 DEF Reached
      <3>1. CASE q = o
        BY <2>1, <3>1 DEF o
      <3>2. CASE Called(q, "shutdown")
        <4>1. PICK m \in DOMAIN m_entites : m <= cursor /\ m_entites[m] = q
          BY <1>5, <3>2 DEF LoopInv, Reached
        <4>2. m <= n
          BY <2>1, <4>1
        <4>. QED  BY <4>1, <4>2
      <3>. QED  BY <2>3, <3>1, <3>2
    <2>. QED  BY <1>2, <1>3, <2>5, <2>6, <2>7, <2>8, <2>9, NoLoop DEF LoopInv
  <1>. QED  BY <1>4, <1>5, ShutdownFacts

LEMMA NextLoop ==
  ASSUME TypeInv, TypeInv', LoopInv, [Next]_vars
  PROVE  LoopInv'
  <1>1. ASSUME UNCHANGED <<document, pc, cursor, m_entites, calls, index>>
        PROVE  LoopInv'
    <2>1. /\ Objects' = Objects /\ Configured' = Configured
          /\ \A o : \A phase : Called(o, phase)' <=> Called(o, phase)
          /\ \A o : \A j : Did(o, j)' <=> Did(o, j)
          /\ \A o : \A phase : Calls(o, phase)' <=> Calls(o, phase)
          /\ Named' /\ InOrder' /\ AllInOrder' /\ NotTwice'
      BY <1>1, OrderStays DEF LoopInv
    <2>2. Uncalled' /\ NotAhead'
      BY <1>1, <2>1 DEF LoopInv, Uncalled, NotAhead
    <2>3. Reached'
      BY <1>1 DEF LoopInv, Reached, Called, Objects
    <2>4. ConfiguredDone'
      BY <1>1, <2>1 DEF LoopInv, ConfiguredDone
    <2>5. AllDone' /\ Counted'
      BY <1>1 DEF LoopInv, AllDone, Counted, Did
    <2>. QED  BY <2>1, <2>2, <2>3, <2>4, <2>5 DEF LoopInv
  <1>2. CASE UNCHANGED vars
    BY <1>1, <1>2 DEF vars, mapVars, noticeVars
  <1>3. ASSUME UNCHANGED document, AddCallBack \/ Poll \/ \E n \in Names : Lookup(n)
        PROVE  LoopInv'
    <2>1. CASE AddCallBack
      BY <1>1, <1>3, <2>1, StepFacts
    <2>2. CASE Poll \/ \E n \in Names : Lookup(n)
      BY <1>1, <1>3, <2>2, ThreadFacts
    <2>. QED  BY <1>3, <2>1, <2>2
  <1>. QED  BY <1>2, <1>3, LoopSteps, LoopEnds, LoopLoad, LoopVisit, LoopShutdown
            DEF Next, Run, Main

\* startNamespace brings any configuration through its phases in order: every
\* configured object has done a phase before one of them enters the next, an
\* object that a make adds misses no more than make, none is called twice
\* unless it has two names, and the callbacks are told the right index.
THEOREM PhasesAreOrdered == Spec => []PhasesInOrder
  <1>1. Init => LoopInv
    <2> SUFFICES ASSUME Init
                 PROVE  LoopInv
      OBVIOUS
    <2>1. TypeInv
      BY InitType
    <2>2. pc = "sockets" /\ m_entites = Empty /\ \A o \in Objects : calls[o] = <<>>
      BY DEF Init
    <2>3. /\ \A o \in Objects : \A phase : ~Called(o, phase)
          /\ InOrder /\ AllInOrder /\ NotTwice
      BY <2>1, <2>2, Silence
    <2>4. \A i \in 1 .. 5 : pc # Phases[i]
      BY <2>2, PhaseFacts DEF PhaseNames
    <2>5. Uncalled /\ NotAhead /\ Reached
      BY <2>2, <2>3, <2>4 DEF Uncalled, NotAhead, Reached
    <2>6. ConfiguredDone /\ AllDone /\ Counted
      BY <2>2, <2>4 DEF ConfiguredDone, AllDone, Counted
    <2>7. Named
      BY <2>2 DEF Named, Empty
    <2>. QED  BY <2>3, <2>5, <2>6, <2>7 DEF LoopInv
  <1>2. TypeInv /\ TypeInv' /\ LoopInv /\ [Next]_vars => LoopInv'
    BY NextLoop
  <1>3. TypeInv /\ LoopInv => PhasesInOrder
    <2> SUFFICES ASSUME TypeInv, LoopInv
                 PROVE  PhasesInOrder
      OBVIOUS
    <2>1. ASSUME pc \in {"verify", "initialize", "startup"}, Ahead(m_entites) = {}
          PROVE  index = Cardinality(DOMAIN m_entites)
      <3>1. DOMAIN m_entites \subseteq Nat /\ cursor \in Nat
        BY Numbers DEF TypeInv, MapTypeOK, MainTypeOK, IsMap
      <3>2. {n \in DOMAIN m_entites : n <= cursor} = DOMAIN m_entites
        BY <2>1, <3>1 DEF Ahead
      <3>. QED  BY <2>1, <3>2 DEF LoopInv, Counted
    <2>. QED  BY <2>1 DEF LoopInv, InOrder, AllInOrder, NotTwice, PhasesInOrder
  <1>. QED  BY <1>1, <1>2, <1>3, ApplicationTypeCorrect, PTL DEF Spec
=============================================================================
