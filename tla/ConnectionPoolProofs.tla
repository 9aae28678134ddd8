------------------------ MODULE ConnectionPoolProofs ------------------------
(***************************************************************************)
(* Theorems about ConnectionPool, for any number of clients, requests,     *)
(* connections and levels of recursion, and any configuration.             *)
(***************************************************************************)
EXTENDS ConnectionPool, SequenceTheorems, FiniteSetTheorems, TLAPS

Opened == 1 .. opened
Entries(list) == {list[i] : i \in DOMAIN list}

-----------------------------------------------------------------------------
(* Lists.                                                                  *)

LEMMA EntriesOf ==
  ASSUME NEW S, NEW list \in Seq(S)
  PROVE  /\ Entries(list) \subseteq S
         /\ IsFiniteSet(Entries(list))
         /\ Entries(<<>>) = {}
  <1>1. Len(list) \in Nat /\ DOMAIN list = 1 .. Len(list)
    BY LenProperties
  <1>2. IsFiniteSet(DOMAIN list)
    BY <1>1, FS_Interval
  <1>3. list \in Surjection(DOMAIN list, Entries(list))
    BY <1>1 DEF Surjection, Entries
  <1>4. IsFiniteSet(Entries(list))
    BY <1>2, <1>3, FS_Surjection
  <1>5. \A i \in DOMAIN list : list[i] \in S
    BY <1>1, ElementOfSeq
  <1>. QED  BY <1>4, <1>5 DEF Entries

LEMMA EntriesAppend ==
  ASSUME NEW S, NEW list \in Seq(S), NEW c \in S
  PROVE  /\ Append(list, c) \in Seq(S)
         /\ Entries(Append(list, c)) = Entries(list) \cup {c}
  <1>1. Len(list) \in Nat /\ DOMAIN list = 1 .. Len(list)
    BY LenProperties
  <1>2. /\ Append(list, c) \in Seq(S)
        /\ DOMAIN Append(list, c) = 1 .. Len(list) + 1
        /\ \A i \in 1 .. Len(list) : Append(list, c)[i] = list[i]
        /\ Append(list, c)[Len(list) + 1] = c
    BY AppendProperties, LenProperties
  <1>3. 1 .. Len(list) + 1 = (1 .. Len(list)) \cup {Len(list) + 1}
    BY <1>1
  <1>. QED  BY <1>1, <1>2, <1>3 DEF Entries

LEMMA EntriesTail ==
  ASSUME NEW S, NEW list \in Seq(S), list # <<>>
  PROVE  /\ Head(list) \in Entries(list)
         /\ Tail(list) \in Seq(S)
         /\ Entries(list) = Entries(Tail(list)) \cup {Head(list)}
  <1>1. Len(list) \in Nat /\ Len(list) # 0 /\ DOMAIN list = 1 .. Len(list)
    BY LenProperties, EmptySeq
  <1>2. /\ Head(list) = list[1]
        /\ Tail(list) \in Seq(S) /\ Len(Tail(list)) = Len(list) - 1
        /\ \A i \in 1 .. Len(list) - 1 : Tail(list)[i] = list[i + 1]
    BY HeadTailProperties
  <1>3. DOMAIN Tail(list) = 1 .. Len(list) - 1
    BY <1>2, LenProperties
  <1>4. \A i \in DOMAIN list : i = 1 \/ (i - 1 \in DOMAIN Tail(list) /\ Tail(list)[i - 1] = list[i])
    <2> TAKE i \in DOMAIN list
    <2>1. i = 1 \/ i - 1 \in 1 .. Len(list) - 1
      BY <1>1
    <2>2. i - 1 \in 1 .. Len(list) - 1 => Tail(list)[i - 1] = list[(i - 1) + 1]
      BY <1>2
    <2>3. (i - 1) + 1 = i
      BY <1>1
    <2>. QED  BY <2>1, <2>2, <2>3, <1>3
  <1>5. \A i \in DOMAIN Tail(list) : i + 1 \in DOMAIN list /\ Tail(list)[i] = list[i + 1]
    BY <1>1, <1>2, <1>3
  <1>6. 1 \in DOMAIN list /\ Head(list) \in Entries(list)
    BY <1>1, <1>2 DEF Entries
  <1>7. ASSUME NEW c \in Entries(list)
        PROVE  c \in Entries(Tail(list)) \cup {Head(list)}
    <2>1. PICK i \in DOMAIN list : c = list[i]
      BY DEF Entries
    <2>. QED  BY <2>1, <1>2, <1>4 DEF Entries
  <1>8. ASSUME NEW c \in Entries(Tail(list))
        PROVE  c \in Entries(list)
    BY <1>5 DEF Entries
  <1>. QED  BY <1>2, <1>6, <1>7, <1>8

\* The positions ListRemove gives to the entries that stay are those of the
\* shorter list: no two of them are the same, and none is left out.
LEMMA Places ==
  ASSUME NEW kept, IsFiniteSet(kept), kept \subseteq Nat
  PROVE  LET Place(i) == Cardinality({j \in kept : j <= i}) IN
         /\ \A i \in kept : Place(i) \in 1 .. Cardinality(kept)
         /\ \A i, j \in kept : Place(i) = Place(j) => i = j
         /\ \A p \in 1 .. Cardinality(kept) : \E i \in kept : Place(i) = p
  <1> DEFINE Upto(i) == {j \in kept : j <= i}
             Place(i) == Cardinality(Upto(i))
             place == [i \in kept |-> Place(i)]
             n == Cardinality(kept)
  <1>1. n \in Nat /\ IsFiniteSet(1 .. n) /\ Cardinality(1 .. n) = n
    <2>1. n \in Nat
      BY FS_CardinalityType
    <2>. QED  BY <2>1, FS_Interval
  <1>2. ASSUME NEW i \in kept
        PROVE  IsFiniteSet(Upto(i)) /\ Place(i) \in 1 .. n
    <2>1. Upto(i) \subseteq kept /\ i \in Upto(i)
      BY <1>2
    <2> HIDE DEF Upto
    <2>2. IsFiniteSet(Upto(i)) /\ Cardinality(Upto(i)) <= n
      BY <2>1, FS_Subset
    <2>3. Cardinality(Upto(i)) \in Nat /\ Cardinality(Upto(i)) # 0
      BY <2>1, <2>2, FS_EmptySet, FS_CardinalityType
    <2>. QED  BY <1>1, <2>2, <2>3
  <1>3. ASSUME NEW i \in kept, NEW j \in kept, i < j
        PROVE  Place(i) < Place(j)
    <2>0. i \in Nat /\ j \in Nat /\ \A k \in kept : k \in Nat
      OBVIOUS
    <2>1. /\ \A k \in Upto(i) : k \in kept /\ k <= i
          /\ \A k \in kept : k <= j => k \in Upto(j)
      OBVIOUS
    <2> HIDE DEF Upto
    <2>2. j \in Upto(j) /\ j \notin Upto(i)
      BY <1>3, <2>0, <2>1
    <2>3. ASSUME NEW k \in Upto(i)
          PROVE  k \in Upto(j)
      <3>1. k \in kept /\ k \in Nat /\ k <= i
        BY <2>0, <2>1
      <3>2. k <= j
        BY <1>3, <2>0, <3>1
      <3>. QED  BY <2>1, <3>1, <3>2
    <2>4. /\ IsFiniteSet(Upto(j)) /\ Upto(i) # Upto(j)
          /\ Place(i) \in 1 .. n /\ Place(j) \in 1 .. n
      BY <1>2, <2>2
    <2>5. Place(i) <= Place(j) /\ Place(i) # Place(j)
      BY <2>3, <2>4, FS_Subset
    <2> HIDE DEF Place
    <2>. QED  BY <1>1, <2>4, <2>5
  <1>4. ASSUME NEW i \in kept, NEW j \in kept, Place(i) = Place(j)
        PROVE  i = j
    <2>1. i \in Nat /\ j \in Nat /\ Place(i) \in 1 .. n
      BY <1>2
    <2> HIDE DEF Place
    <2>2. ~(i < j) /\ ~(j < i)
      BY <1>1, <1>3, <1>4, <2>1
    <2>. QED  BY <2>1, <2>2
  <1> HIDE DEF Place, n
  <1>5. place \in Injection(kept, 1 .. n)
    BY <1>2, <1>4 DEF Injection, IsInjective
  <1>6. place \in Surjection(kept, 1 .. n)
    BY <1>1, <1>5, FS_Injection DEF n
  <1>7. \A p \in 1 .. n : \E i \in kept : Place(i) = p
    BY <1>6 DEF Surjection
  <1>. QED  BY <1>2, <1>4, <1>7 DEF Place, n

\* list::remove takes c out and nothing else.
LEMMA EntriesRemove ==
  ASSUME NEW S, NEW list \in Seq(S), NEW c
  PROVE  /\ ListRemove(list, c) \in Seq(S)
         /\ Entries(ListRemove(list, c)) = Entries(list) \ {c}
  <1> DEFINE kept == {i \in DOMAIN list : list[i] # c}
             Place(i) == Cardinality({j \in kept : j <= i})
             At(p) == CHOOSE i \in kept : Place(i) = p
             n == Cardinality(kept)
             short == [p \in 1 .. n |-> list[At(p)]]
  <1>1. Len(list) \in Nat /\ DOMAIN list = 1 .. Len(list)
    BY LenProperties
  <1>2. IsFiniteSet(DOMAIN list)
    BY <1>1, FS_Interval
  <1>3. IsFiniteSet(kept) /\ kept \subseteq Nat
    <2>1. kept \subseteq DOMAIN list
      OBVIOUS
    <2>. QED  BY <1>1, <1>2, <2>1, FS_Subset
  <1>4. n \in Nat
    BY <1>3, FS_CardinalityType
  <1>5. /\ \A i \in kept : Place(i) \in 1 .. n
        /\ \A i, j \in kept : Place(i) = Place(j) => i = j
        /\ \A p \in 1 .. n : \E i \in kept : Place(i) = p
    BY <1>3, Places
  <1>6. /\ ListRemove(list, c) = short
        /\ \A i \in kept : i \in DOMAIN list /\ list[i] # c
        /\ \A i \in DOMAIN list : list[i] # c => i \in kept
    BY DEF ListRemove
  <1> HIDE DEF Place, kept, n
  <1>7. ASSUME NEW p \in 1 .. n
        PROVE  At(p) \in kept /\ Place(At(p)) = p
    BY <1>5
  <1>8. ASSUME NEW i \in kept
        PROVE  Place(i) \in 1 .. n /\ At(Place(i)) = i
    BY <1>5, <1>7
  <1> HIDE DEF At
  <1>9. \A p \in 1 .. n : short[p] = list[At(p)] /\ short[p] \in S
    BY <1>1, <1>6, <1>7, ElementOfSeq
  <1>10. short \in Seq(S) /\ DOMAIN short = 1 .. n
    BY <1>4, <1>9, IsASeq
  <1>11. ASSUME NEW d \in Entries(short)
         PROVE  d \in Entries(list) /\ d # c
    BY <1>6, <1>7, <1>9, <1>10 DEF Entries
  <1>12. ASSUME NEW d \in Entries(list), d # c
         PROVE  d \in Entries(short)
    <2>1. PICK i \in kept : d = list[i]
      BY <1>6, <1>12 DEF Entries
    <2>2. Place(i) \in 1 .. n /\ short[Place(i)] = d
      BY <2>1, <1>8, <1>9
    <2> HIDE DEF short
    <2>. QED  BY <2>2, <1>10 DEF Entries
  <1> HIDE DEF short
  <1>. QED  BY <1>6, <1>10, <1>11, <1>12

NoDuplicate(list) == \A i, j \in DOMAIN list : list[i] = list[j] => i = j

LEMMA NoDuplicateTail ==
  ASSUME NEW S, NEW list \in Seq(S), list # <<>>, NoDuplicate(list)
  PROVE  NoDuplicate(Tail(list)) /\ Head(list) \notin Entries(Tail(list))
  <1>1. Len(list) \in Nat /\ Len(list) # 0 /\ DOMAIN list = 1 .. Len(list)
    BY LenProperties, EmptySeq
  <1>2. /\ Head(list) = list[1]
        /\ Tail(list) \in Seq(S) /\ Len(Tail(list)) = Len(list) - 1
        /\ \A i \in 1 .. Len(list) - 1 : Tail(list)[i] = list[i + 1]
    BY HeadTailProperties
  <1>3. DOMAIN Tail(list) = 1 .. Len(list) - 1
    BY <1>2, LenProperties
  <1>4. \A i \in DOMAIN Tail(list) :
          i + 1 \in DOMAIN list /\ i + 1 # 1 /\ Tail(list)[i] = list[i + 1]
    BY <1>1, <1>2, <1>3
  <1>5. 1 \in DOMAIN list /\ \A i, j \in DOMAIN Tail(list) : i + 1 = j + 1 => i = j
    BY <1>1, <1>3
  <1>6. NoDuplicate(Tail(list))
    BY <1>4, <1>5 DEF NoDuplicate
  <1>7. ASSUME NEW i \in DOMAIN Tail(list), Tail(list)[i] = Head(list)
        PROVE  FALSE
    BY <1>2, <1>4, <1>5, <1>7 DEF NoDuplicate
  <1>. QED  BY <1>6, <1>7 DEF Entries

LEMMA NoDuplicateAppend ==
  ASSUME NEW S, NEW list \in Seq(S), NEW c \in S, NoDuplicate(list),
         c \notin Entries(list)
  PROVE  NoDuplicate(Append(list, c))
  <1>1. Len(list) \in Nat /\ DOMAIN list = 1 .. Len(list)
    BY LenProperties
  <1>2. /\ DOMAIN Append(list, c) = 1 .. Len(list) + 1
        /\ \A i \in 1 .. Len(list) : Append(list, c)[i] = list[i]
        /\ Append(list, c)[Len(list) + 1] = c
    BY AppendProperties, LenProperties
  <1>3. \A i \in 1 .. Len(list) + 1 : i \in 1 .. Len(list) \/ i = Len(list) + 1
    BY <1>1
  <1>4. \A i \in 1 .. Len(list) : list[i] # c
    BY <1>1 DEF Entries
  <1>. QED  BY <1>1, <1>2, <1>3, <1>4 DEF NoDuplicate

-----------------------------------------------------------------------------
(* Type correctness.                                                       *)

Positions == {"idle", "get", "count", "recount", "use", "release", "decrement"}
Links == {"up", "null", "closed"}
Circumstances == {"race", "order", "wait", "closed"}
States == {"making", "running", "aborted", "crashed"}

\* The lists hold connections that were opened, and so does every client.
ListTypeOK ==
  /\ link \in Seq(Links)
  /\ freeConnections \in Seq(Opened) /\ activeConnections \in Seq(Opened)
  /\ countActive \in Int
  /\ conn \in [Clients -> Opened \cup {NULL}]

ClientTypeOK ==
  /\ config \in Config
  /\ pc \in [Clients -> Positions]
  /\ depth \in [Clients -> 0 .. MaxDepth]
  /\ \A t \in Clients : pc[t] = "recount" => depth[t] > 0
  /\ requests \in 0 .. MaxRequests
  /\ blame \subseteq Circumstances
  /\ process \in States
  /\ connection_pool_ \in BOOLEAN

TypeInv == ListTypeOK /\ ClientTypeOK

LEMMA Grown ==
  ASSUME ListTypeOK, NEW r \in Links, link' = Append(link, r)
  PROVE  /\ link' \in Seq(Links) /\ opened \in Nat /\ opened' = opened + 1
         /\ Opened' = Opened \cup {opened + 1} /\ opened + 1 \notin Opened
         /\ \A c \in Opened : link'[c] = link[c]
         /\ link'[opened + 1] = r
         /\ \A list \in Seq(Opened) : list \in Seq(Opened')
  <1>1. link \in Seq(Links) /\ opened \in Nat
    BY LenProperties DEF ListTypeOK, opened
  <1>2. /\ link' \in Seq(Links) /\ opened' = opened + 1
        /\ \A c \in Opened : link'[c] = link[c]
        /\ link'[opened + 1] = r
    BY <1>1, AppendProperties DEF opened, Opened
  <1>3. Opened' = Opened \cup {opened + 1} /\ opened + 1 \notin Opened
    BY <1>1, <1>2 DEF Opened
  <1>. QED  BY <1>1, <1>2, <1>3, SeqMonotonic

LEMMA SameSize ==
  ASSUME UNCHANGED link
  PROVE  opened' = opened /\ Opened' = Opened
  BY DEF opened, Opened

LEMMA Closed ==
  ASSUME ListTypeOK, NEW c \in Opened, link' = [link EXCEPT ![c] = "closed"]
  PROVE  /\ link' \in Seq(Links) /\ opened' = opened /\ Opened' = Opened
  <1>1. link \in Seq(Links) /\ c \in 1 .. Len(link) /\ "closed" \in Links
    BY DEF ListTypeOK, Opened, opened, Links
  <1>. QED  BY <1>1, ExceptSeq DEF opened, Opened

\* Every step but Make, Take and ServerCloses leaves the connections alone.
LEMMA AddType ==
  ASSUME countActive \in Int, blame \subseteq Circumstances, NEW t, NEW n \in Int,
         Add(t, n)
  PROVE  countActive' \in Int /\ blame' \subseteq Circumstances /\ blame \subseteq blame'
  <1>1. CASE Racing(t)
    <2>1. /\ countActive' = countActive \/ countActive' = countActive + n
          /\ blame' = blame \cup {"race"}
      BY <1>1 DEF Add
    <2>. QED  BY <2>1 DEF Circumstances
  <1>2. CASE ~Racing(t)
    BY <1>2 DEF Add
  <1>. QED  BY <1>1, <1>2

LEMMA CountType ==
  ASSUME ListTypeOK, NEW t \in Clients, blame \subseteq Circumstances, CountConnection(t)
  PROVE  ListTypeOK' /\ blame' \subseteq Circumstances
  <1>1. /\ UNCHANGED <<link, freeConnections, conn>> /\ Opened' = Opened
        /\ conn[t] \in Opened \cup {NULL}
    BY SameSize DEF CountConnection, ListTypeOK
  <1>2. CASE IsValid(conn[t])
    <2>1. conn[t] \in Opened /\ Add(t, 1)
      BY <1>1, <1>2 DEF IsValid, CountConnection
    <2>2. activeConnections' \in Seq(Opened)
      <3>1. /\ activeConnections' = Append(activeConnections, conn[t])
            /\ activeConnections \in Seq(Opened)
        BY <1>2 DEF CountConnection, ListTypeOK
      <3>. QED  BY <2>1, <3>1, EntriesAppend
    <2>3. countActive' \in Int /\ blame' \subseteq Circumstances
      BY <2>1, AddType DEF ListTypeOK
    <2>. QED  BY <1>1, <2>2, <2>3 DEF ListTypeOK
  <1>3. CASE ~IsValid(conn[t])
    BY <1>1, <1>3 DEF CountConnection, ListTypeOK
  <1>. QED  BY <1>2, <1>3

LEMMA TakeType ==
  ASSUME TypeInv, NEW t \in Clients, Take(t)
  PROVE  ListTypeOK'
  <1> USE DEF TypeInv
  <1>1. CASE freeConnections # <<>> /\ UNCHANGED link
               /\ conn' = [conn EXCEPT ![t] = Head(freeConnections)]
               /\ freeConnections' = PopFront
    <2>1. freeConnections \in Seq(Opened)
      BY DEF ListTypeOK
    <2>2. Head(freeConnections) \in Opened /\ Tail(freeConnections) \in Seq(Opened)
      BY <1>1, <2>1, EntriesTail, EntriesOf
    <2>. QED  BY <1>1, <2>2, SameSize DEF Take, PopFront, ListTypeOK
  <1>2. ASSUME NEW r \in OpenResults, link' = Append(link, r),
               conn' = [conn EXCEPT ![t] = opened + 1], UNCHANGED freeConnections
        PROVE  ListTypeOK'
    <2>1. r \in Links
      BY DEF OpenResults, Links
    <2>2. /\ link' \in Seq(Links) /\ Opened' = Opened \cup {opened + 1}
          /\ \A list \in Seq(Opened) : list \in Seq(Opened')
      BY <1>2, <2>1, Grown
    <2>3. conn' \in [Clients -> Opened' \cup {NULL}]
      BY <1>2, <2>2 DEF ListTypeOK
    <2>. QED  BY <1>2, <2>2, <2>3 DEF Take, ListTypeOK
  <1>3. CASE conn' = [conn EXCEPT ![t] = NULL] /\ UNCHANGED <<link, freeConnections>>
    BY <1>3, SameSize DEF Take, ListTypeOK
  <1>. QED  BY <1>1, <1>2, <1>3 DEF Take

LEMMA ReleaseType ==
  ASSUME TypeInv, NEW t \in Clients, Run(Release(t))
  PROVE  TypeInv'
  <1> USE DEF TypeInv
  <1>1. /\ Opened' = Opened /\ activeConnections \in Seq(Opened)
        /\ freeConnections \in Seq(Opened)
    BY SameSize DEF Run, Release, ListTypeOK
  <1>2. ListTypeOK'
    <2>1. CASE activeConnections = <<>>
      BY <1>1, <2>1 DEF Run, Release, ListTypeOK, listVars
    <2>2. CASE activeConnections # <<>>
      <3>1. Head(activeConnections) \in Opened
        BY <1>1, <2>2, EntriesTail, EntriesOf
      <3>2. ListRemove(activeConnections, Head(activeConnections)) \in Seq(Opened)
        BY <1>1, EntriesRemove
      <3>3. Append(freeConnections, Head(activeConnections)) \in Seq(Opened)
        BY <1>1, <3>1, EntriesAppend
      <3>. QED  BY <1>1, <2>2, <3>2, <3>3 DEF Run, Release, PushBack, ListTypeOK
    <2>. QED  BY <2>1, <2>2
  <1>3. blame' \subseteq Circumstances
    <2>1. blame' = blame \/ blame' = blame \cup {"order"}
      BY DEF Run, Release
    <2>. QED  BY <2>1 DEF ClientTypeOK, Circumstances
  <1>4. ClientTypeOK'
    <2>1. /\ pc' = [pc EXCEPT ![t] = IF activeConnections = <<>> THEN "idle"
                                      ELSE "decrement"]
          /\ UNCHANGED <<config, depth, requests, process, connection_pool_>>
      BY DEF Run, Release, Step, poolVars
    <2>. QED  BY <1>3, <2>1 DEF ClientTypeOK, Positions
  <1>. QED  BY <1>2, <1>4

LEMMA TypeStep ==
  ASSUME TypeInv, [Next]_vars
  PROVE  TypeInv'
  <1> USE DEF TypeInv
  <1>1. CASE Make
    <2>1. ListTypeOK'
      <3>1. ASSUME NEW r \in OpenResults, link' = Append(link, r),
                   freeConnections' = Append(freeConnections, opened + 1)
            PROVE  ListTypeOK'
        <4>1. r \in Links
          BY DEF OpenResults, Links
        <4>2. /\ link' \in Seq(Links) /\ Opened' = Opened \cup {opened + 1}
              /\ \A list \in Seq(Opened) : list \in Seq(Opened')
          BY <3>1, <4>1, Grown
        <4>3. freeConnections \in Seq(Opened') /\ opened + 1 \in Opened'
          BY <4>2 DEF ListTypeOK
        <4>4. freeConnections' \in Seq(Opened')
          BY <3>1, <4>3, EntriesAppend
        <4>. QED  BY <1>1, <4>2, <4>4 DEF Make, clientVars, ListTypeOK
      <3>2. CASE UNCHANGED <<link, freeConnections>>
        BY <1>1, <3>2, SameSize DEF Make, clientVars, ListTypeOK
      <3>. QED  BY <1>1, <3>1, <3>2 DEF Make
    <2>2. ClientTypeOK'
      BY <1>1 DEF Make, clientVars, ClientTypeOK, States
    <2>. QED  BY <2>1, <2>2
  <1>2. ASSUME NEW t \in Clients, Run(Request(t))
        PROVE  TypeInv'
    <2>1. ListTypeOK'
      BY <1>2, SameSize DEF Run, Request, listVars, ListTypeOK
    <2>2. ClientTypeOK'
      <3>1. process' \in States
        BY <1>2 DEF Run, Request, ClientTypeOK, States
      <3>2. connection_pool_' \in BOOLEAN
        BY <1>2, Zenon DEF Run, Request, ClientTypeOK
      <3>. QED
        BY <1>2, <3>1, <3>2, PoolAssumption DEF Run, Request, Step, ClientTypeOK,
           Positions, PoolAssumption
    <2>. QED  BY <2>1, <2>2
  <1>3. ASSUME NEW t \in Clients, Run(Take(t))
        PROVE  TypeInv'
    <2>1. ListTypeOK'
      BY <1>3, TakeType DEF Run
    <2>2. ClientTypeOK'
      BY <1>3 DEF Run, Take, Step, poolVars, ClientTypeOK, Positions
    <2>. QED  BY <2>1, <2>2
  <1>4. ASSUME NEW t \in Clients, Run(Wait(t))
        PROVE  TypeInv'
    <2>1. ListTypeOK'
      BY <1>4, SameSize DEF Run, Wait, listVars, ListTypeOK
    <2>2. ClientTypeOK'
      BY <1>4, PoolAssumption DEF Run, Wait, poolVars, ClientTypeOK, Circumstances, PoolAssumption
    <2>. QED  BY <2>1, <2>2
  <1>5. ASSUME NEW t \in Clients, Run(Count(t))
        PROVE  TypeInv'
    <2>1. ListTypeOK' /\ blame' \subseteq Circumstances
      BY <1>5, CountType DEF Run, Count, ClientTypeOK
    <2>2. ClientTypeOK'
      BY <1>5, <2>1 DEF Run, Count, CountConnection, Step, poolVars, ClientTypeOK, Positions
    <2>. QED  BY <2>1, <2>2
  <1>6. ASSUME NEW t \in Clients, Run(Recount(t))
        PROVE  TypeInv'
    <2>1. ListTypeOK' /\ blame' \subseteq Circumstances
      BY <1>6, CountType DEF Run, Recount, ClientTypeOK
    <2>2. depth[t] \in 1 .. MaxDepth
      BY <1>6, PoolAssumption DEF Run, Recount, Step, ClientTypeOK, PoolAssumption
    <2>3. ClientTypeOK'
      BY <1>6, <2>1, <2>2, PoolAssumption DEF Run, Recount, CountConnection, Step,
         poolVars, ClientTypeOK, Positions, PoolAssumption
    <2>. QED  BY <2>1, <2>3
  <1>7. ASSUME NEW t \in Clients, Run(Execute(t))
        PROVE  TypeInv'
    <2>1. ListTypeOK'
      BY <1>7, SameSize DEF Run, Execute, listVars, ListTypeOK
    <2>2. ClientTypeOK'
      BY <1>7 DEF Run, Execute, Step, poolVars, ClientTypeOK, Positions, States
    <2>. QED  BY <2>1, <2>2
  <1>8. ASSUME NEW t \in Clients, Run(Release(t))
        PROVE  TypeInv'
    BY <1>8, ReleaseType
  <1>9. ASSUME NEW t \in Clients, Run(Decrement(t))
        PROVE  TypeInv'
    <2>1. countActive' \in Int /\ blame' \subseteq Circumstances
      BY <1>9, AddType DEF Run, Decrement, ListTypeOK, ClientTypeOK
    <2>2. ListTypeOK'
      BY <1>9, <2>1, SameSize DEF Run, Decrement, ListTypeOK
    <2>3. ClientTypeOK'
      BY <1>9, <2>1 DEF Run, Decrement, Step, poolVars, ClientTypeOK, Positions
    <2>. QED  BY <2>2, <2>3
  <1>10. ASSUME NEW t \in Clients, NEW u \in Clients, Run(Collide(t, u))
         PROVE  TypeInv'
    <2>1. ListTypeOK'
      BY <1>10, SameSize DEF Run, Collide, clientVars, listVars, ListTypeOK
    <2>2. ClientTypeOK'
      BY <1>10 DEF Run, Collide, clientVars, poolVars, ClientTypeOK, Circumstances, States
    <2>. QED  BY <2>1, <2>2
  <1>11. ASSUME NEW c \in 1 .. opened, Run(ServerCloses(c))
         PROVE  TypeInv'
    <2>1. /\ c \in Opened /\ link' = [link EXCEPT ![c] = "closed"]
          /\ UNCHANGED <<listVars, conn>>
      BY <1>11 DEF Run, ServerCloses, clientVars, Opened
    <2>2. ListTypeOK'
      BY <2>1, Closed DEF listVars, ListTypeOK
    <2>3. ClientTypeOK'
      BY <1>11 DEF Run, ServerCloses, clientVars, poolVars, ClientTypeOK, Circumstances
    <2>. QED  BY <2>2, <2>3
  <1>12. CASE UNCHANGED vars
    BY <1>12, SameSize DEF vars, listVars, clientVars, ListTypeOK, poolVars, ClientTypeOK
  <1>. QED
    BY <1>1, <1>2, <1>3, <1>4, <1>5, <1>6, <1>7, <1>8, <1>9, <1>10, <1>11, <1>12
    DEF Next

\* The lists and the clients hold connections that were opened, or none; the
\* outer levels of getConnection's recursion are counted down to zero.
THEOREM PoolTypeCorrect == Spec => []TypeInv
  <1>1. Init => TypeInv
    <2> SUFFICES ASSUME Init PROVE TypeInv
      OBVIOUS
    <2>1. ListTypeOK
      BY DEF Init, ListTypeOK, NULL
    <2>2. ClientTypeOK
      <3>1. config \in Config
        BY PoolAssumption DEF Init, PoolAssumption
      <3>2. connection_pool_ \in BOOLEAN
        BY <3>1, Zenon DEF Init, Config
      <3>. QED
        BY <3>1, <3>2, PoolAssumption DEF Init, ClientTypeOK, Positions, States,
           PoolAssumption
    <2>. QED  BY <2>1, <2>2 DEF TypeInv
  <1>2. TypeInv /\ [Next]_vars => TypeInv'
    BY TypeStep
  <1>. QED  BY <1>1, <1>2, PTL DEF Spec

-----------------------------------------------------------------------------
(* Exclusive use.                                                          *)

Holds(t) == pc[t] \in {"count", "recount", "use", "release"} /\ conn[t] # NULL

\* Exclusive is not inductive: a connection that is held must not be free as
\* well, nor be free twice.  The list of active connections does not matter:
\* what Release takes from it is the client's own, or "order" is blamed.
HeldApart ==
  /\ \A t, u \in Clients : t # u /\ Holds(t) /\ Holds(u) => conn[t] # conn[u]
  /\ \A t \in Clients : Holds(t) => conn[t] \notin Entries(freeConnections)
  /\ NoDuplicate(freeConnections)

ExclusiveInv == "order" \notin blame => HeldApart

LEMMA BlameStays ==
  ASSUME [Next]_vars
  PROVE  blame \subseteq blame'
  <1>1. ASSUME NEW t, NEW n, Add(t, n)
        PROVE  blame \subseteq blame'
    BY <1>1 DEF Add
  <1>2. ASSUME NEW t, CountConnection(t)
        PROVE  blame \subseteq blame'
    BY <1>1, <1>2 DEF CountConnection
  <1>3. ASSUME NEW t, Release(t)
        PROVE  blame \subseteq blame'
    <2>1. blame' = blame \/ blame' = blame \cup {"order"}
      BY <1>3 DEF Release
    <2>. QED  BY <2>1
  <1>. QED
    BY <1>1, <1>2, <1>3 DEF Next, vars, Run, Make, Request, Take, Wait, Count, Recount,
       Execute, Decrement, Collide, ServerCloses

\* A client that goes on with the connection it has, or lets it go.
LEMMA HeldOrLeft ==
  ASSUME TypeInv, HeldApart, NEW t \in Clients, NEW to,
         pc' = [pc EXCEPT ![t] = to],
         \/ Holds(t) \/ conn[t] = NULL
         \/ to \notin {"count", "recount", "use", "release"},
         UNCHANGED <<conn, freeConnections>>
  PROVE  HeldApart'
  <1>1. \A u \in Clients : Holds(u)' => Holds(u) /\ conn'[u] = conn[u]
    BY DEF TypeInv, ClientTypeOK, Holds
  <1>. QED  BY <1>1 DEF HeldApart

LEMMA TakeExclusive ==
  ASSUME TypeInv, HeldApart, NEW t \in Clients, Take(t)
  PROVE  HeldApart'
  <1>1. /\ pc' = [pc EXCEPT ![t] = "count"] /\ pc \in [Clients -> Positions]
        /\ conn \in [Clients -> Opened \cup {NULL}] /\ freeConnections \in Seq(Opened)
        /\ NULL \notin Opened
    BY DEF Take, Step, TypeInv, ClientTypeOK, ListTypeOK, Opened, NULL
  <1>2. ASSUME NEW c, conn' = [conn EXCEPT ![t] = c],
               c = NULL \/ (\A u \in Clients : Holds(u) => conn[u] # c),
               c = NULL \/ c \notin Entries(freeConnections'),
               Entries(freeConnections') \subseteq Entries(freeConnections),
               NoDuplicate(freeConnections')
        PROVE  HeldApart'
    <2>1. \A u \in Clients : u # t /\ Holds(u)' => Holds(u) /\ conn'[u] = conn[u]
      BY <1>1, <1>2 DEF Holds
    <2>2. Holds(t)' => c # NULL /\ conn'[t] = c
      BY <1>1, <1>2 DEF Holds
    <2>3. \A u \in Clients : Holds(u)' => conn'[u] \notin Entries(freeConnections')
      BY <1>2, <2>1, <2>2 DEF HeldApart
    <2>4. \A u, v \in Clients : u # v /\ Holds(u)' /\ Holds(v)' => conn'[u] # conn'[v]
      BY <1>2, <2>1, <2>2 DEF HeldApart
    <2>5. Entries(freeConnections)' = Entries(freeConnections')
      BY DEF Entries
    <2>. QED  BY <1>2, <2>3, <2>4, <2>5 DEF HeldApart, NoDuplicate
  <1>3. CASE freeConnections # <<>> /\ freeConnections' = PopFront
               /\ conn' = [conn EXCEPT ![t] = Head(freeConnections)]
    <2>1. /\ Head(freeConnections) \in Entries(freeConnections)
          /\ freeConnections' = Tail(freeConnections)
          /\ Entries(freeConnections') \subseteq Entries(freeConnections)
      BY <1>1, <1>3, EntriesTail DEF PopFront
    <2>2. /\ NoDuplicate(freeConnections')
          /\ Head(freeConnections) \notin Entries(freeConnections')
      BY <1>1, <1>3, <2>1, NoDuplicateTail DEF HeldApart
    <2>3. \A u \in Clients : Holds(u) => conn[u] # Head(freeConnections)
      BY <2>1 DEF HeldApart
    <2>. QED  BY <1>2, <1>3, <2>1, <2>2, <2>3
  <1>4. CASE freeConnections = <<>> /\ UNCHANGED freeConnections
               /\ conn' = [conn EXCEPT ![t] = opened + 1]
    <2>1. opened + 1 \notin Opened /\ opened \in Nat
      BY LenProperties DEF Opened, opened, TypeInv, ListTypeOK
    <2>2. \A u \in Clients : Holds(u) => conn[u] # opened + 1
      BY <1>1, <2>1 DEF Holds
    <2>3. opened + 1 \notin Entries(freeConnections')
      BY <1>1, <1>4, <2>1, EntriesOf
    <2>. QED  BY <1>2, <1>4, <2>2, <2>3 DEF HeldApart
  <1>5. CASE freeConnections = <<>> /\ UNCHANGED freeConnections
               /\ conn' = [conn EXCEPT ![t] = NULL]
    BY <1>2, <1>5 DEF HeldApart
  <1>. QED  BY <1>3, <1>4, <1>5 DEF Take

LEMMA ReleaseExclusive ==
  ASSUME TypeInv, HeldApart, NEW t \in Clients, Release(t), "order" \notin blame'
  PROVE  HeldApart'
  <1>1. /\ pc \in [Clients -> Positions] /\ freeConnections \in Seq(Opened)
        /\ activeConnections \in Seq(Opened) /\ pc[t] = "release"
        /\ NULL \notin Opened
    BY DEF Release, Step, TypeInv, ClientTypeOK, ListTypeOK, Opened, NULL
  <1>2. CASE activeConnections = <<>>
    <2>1. pc' = [pc EXCEPT ![t] = "idle"] /\ UNCHANGED <<conn, freeConnections>>
      BY <1>2 DEF Release, Step, listVars
    <2>. QED  BY <2>1, HeldOrLeft
  <1>3. CASE activeConnections # <<>>
    <2> DEFINE c == Head(activeConnections)
    <2>1. /\ pc' = [pc EXCEPT ![t] = "decrement"] /\ UNCHANGED conn
          /\ freeConnections' = Append(freeConnections, c)
          /\ c = conn[t]
      BY <1>3 DEF Release, Step, PushBack
    <2>2. c \in Opened
      BY <1>1, <1>3, EntriesTail, EntriesOf
    <2> HIDE DEF c
    <2>3. Holds(t) /\ c \notin Entries(freeConnections)
      BY <1>1, <2>1, <2>2 DEF Holds, HeldApart
    <2>4. \A u \in Clients : Holds(u)' => Holds(u) /\ conn'[u] = conn[u] /\ u # t
      BY <1>1, <2>1 DEF Holds
    <2>5. Entries(freeConnections') = Entries(freeConnections) \cup {c}
      BY <1>1, <2>1, <2>2, EntriesAppend
    <2>6. NoDuplicate(freeConnections')
      BY <1>1, <2>1, <2>2, <2>3, NoDuplicateAppend DEF HeldApart
    <2>7. \A u \in Clients : Holds(u)' => conn'[u] \notin Entries(freeConnections')
      BY <2>1, <2>3, <2>4, <2>5 DEF HeldApart
    <2>8. Entries(freeConnections)' = Entries(freeConnections')
      BY DEF Entries
    <2>. QED  BY <2>4, <2>6, <2>7, <2>8 DEF HeldApart, NoDuplicate
  <1>. QED  BY <1>2, <1>3

LEMMA ExclusiveStep ==
  ASSUME TypeInv, ExclusiveInv, [Next]_vars
  PROVE  ExclusiveInv'
  <1> SUFFICES ASSUME "order" \notin blame'
               PROVE  HeldApart'
    BY DEF ExclusiveInv
  <1>0. HeldApart
    BY BlameStays DEF ExclusiveInv
  <1>1. CASE UNCHANGED <<pc, conn, freeConnections>>
    BY <1>0, <1>1 DEF HeldApart, Holds, Entries, NoDuplicate
  <1>2. CASE Make
    <2>1. ASSUME NEW r \in OpenResults,
                 freeConnections' = Append(freeConnections, opened + 1),
                 UNCHANGED <<pc, conn>>
          PROVE  HeldApart'
      <3>1. /\ freeConnections \in Seq(Opened) /\ opened \in Nat
            /\ conn \in [Clients -> Opened \cup {NULL}]
        BY LenProperties DEF TypeInv, ListTypeOK, opened
      <3>2. opened + 1 \notin Opened
        BY <3>1 DEF Opened
      <3>3. freeConnections \in Seq(Opened \cup {opened + 1})
        BY <3>1, SeqMonotonic
      <3>4. opened + 1 \notin Entries(freeConnections)
        BY <3>1, <3>2, EntriesOf
      <3>5. /\ Entries(freeConnections') = Entries(freeConnections) \cup {opened + 1}
            /\ NoDuplicate(freeConnections')
        BY <1>0, <2>1, <3>3, <3>4, EntriesAppend, NoDuplicateAppend DEF HeldApart
      <3>6. \A u \in Clients : Holds(u)' => Holds(u) /\ conn'[u] = conn[u]
        BY <2>1 DEF Holds
      <3>7. \A u \in Clients : Holds(u) => conn[u] # opened + 1
        BY <3>1, <3>2 DEF Holds
      <3>8. Entries(freeConnections)' = Entries(freeConnections')
        BY DEF Entries
      <3>9. \A u \in Clients : Holds(u)' => conn'[u] \notin Entries(freeConnections')
        BY <1>0, <3>5, <3>6, <3>7 DEF HeldApart
      <3>. QED  BY <1>0, <3>5, <3>6, <3>8, <3>9 DEF HeldApart, NoDuplicate
    <2>. QED  BY <1>1, <1>2, <2>1 DEF Make, clientVars
  <1>3. ASSUME NEW t \in Clients, Run(Request(t))
        PROVE  HeldApart'
    BY <1>0, <1>3, HeldOrLeft DEF Run, Request, Step, listVars
  <1>4. ASSUME NEW t \in Clients, Run(Take(t))
        PROVE  HeldApart'
    BY <1>0, <1>4, TakeExclusive DEF Run
  <1>5. ASSUME NEW t \in Clients, Run(Count(t)) \/ Run(Recount(t))
        PROVE  HeldApart'
    <2>1. /\ pc[t] \in {"count", "recount"}
          /\ \E to : pc' = [pc EXCEPT ![t] = to]
          /\ UNCHANGED <<conn, freeConnections>>
      BY <1>5 DEF Run, Count, Recount, CountConnection, Step
    <2>2. Holds(t) \/ conn[t] = NULL
      BY <2>1 DEF Holds
    <2>. QED  BY <1>0, <2>1, <2>2, HeldOrLeft
  <1>6. ASSUME NEW t \in Clients, Run(Execute(t))
        PROVE  HeldApart'
    <2>1. /\ pc[t] = "use" /\ \E to : pc' = [pc EXCEPT ![t] = to]
          /\ UNCHANGED <<conn, freeConnections>>
      BY <1>6 DEF Run, Execute, Step, listVars
    <2>2. Holds(t) \/ conn[t] = NULL
      BY <2>1 DEF Holds
    <2>. QED  BY <1>0, <2>1, <2>2, HeldOrLeft
  <1>7. ASSUME NEW t \in Clients, Run(Release(t))
        PROVE  HeldApart'
    BY <1>0, <1>7, ReleaseExclusive DEF Run
  <1>8. ASSUME NEW t \in Clients, Run(Decrement(t))
        PROVE  HeldApart'
    BY <1>0, <1>8, HeldOrLeft DEF Run, Decrement, Step
  <1>9. ASSUME NEW t \in Clients, NEW u \in Clients, Run(Wait(t)) \/ Run(Collide(t, u))
        PROVE  HeldApart'
    BY <1>1, <1>9 DEF Run, Wait, Collide, listVars, clientVars
  <1>10. ASSUME NEW c, Run(ServerCloses(c))
         PROVE  HeldApart'
    BY <1>1, <1>10 DEF Run, ServerCloses, listVars, clientVars
  <1>11. CASE UNCHANGED vars
    BY <1>1, <1>11 DEF vars, listVars, clientVars
  <1>. QED
    BY <1>2, <1>3, <1>4, <1>5, <1>6, <1>7, <1>8, <1>9, <1>10, <1>11 DEF Next

\* getConnection and releaseConnection: as long as no client was given back a
\* connection other than its own, no two clients use the same one, whatever
\* updates of countActive are lost, however often a client waited, and
\* whatever the server closes.
THEOREM UseIsExclusive == Spec => []Exclusive
  <1>1. Init => ExclusiveInv
    BY DEF Init, ExclusiveInv, HeldApart, Holds, Entries, NoDuplicate
  <1>2. TypeInv /\ ExclusiveInv /\ [Next]_vars => ExclusiveInv'
    BY ExclusiveStep
  <1>3. ExclusiveInv => Exclusive
    <2> SUFFICES ASSUME ExclusiveInv, "order" \notin blame,
                        NEW t \in Clients, NEW u \in Clients, t # u,
                        {pc[t], pc[u]} \subseteq {"count", "recount", "use", "release"},
                        conn[t] # NULL
                 PROVE  conn[t] # conn[u]
      BY DEF Exclusive
    <2>1. Holds(t) /\ (conn[u] = NULL \/ Holds(u))
      BY DEF Holds
    <2>. QED  BY <2>1 DEF ExclusiveInv, HeldApart
  <1>. QED  BY <1>1, <1>2, <1>3, PoolTypeCorrect, PTL DEF Spec

-----------------------------------------------------------------------------
(* The limit.                                                              *)

Limit == IF config.initConnections > config.maxActiveConnections
         THEN config.initConnections ELSE config.maxActiveConnections

Releasing == {t \in Clients : pc[t] = "decrement"}
Counting == {t \in Clients : pc[t] = "count"}

\* PoolBounded is not inductive.  No connection is lost: each one opened is
\* free, listed as active or on its way from the one list to the other; and
\* countActive, which the repeated counting only makes too large, is at least
\* the number of connections listed as active and of clients that have given
\* one back and not counted it down yet.  So getConnection, which opens a
\* connection only when none is free, has then fewer than its limit.
Known == Entries(freeConnections) \cup Entries(activeConnections)
           \cup {conn[t] : t \in Counting}

Bookkept ==
  /\ \A c \in Opened : link[c] # "closed"
  /\ Opened \subseteq Known
  /\ IsFiniteSet(Releasing)
  /\ Cardinality(Entries(activeConnections)) + Cardinality(Releasing) <= countActive
  /\ opened <= Limit

BoundInv == blame \subseteq {"order", "wait"} => Bookkept

\* The size of the sets in Bookkept.
LEMMA Sizes ==
  ASSUME TypeInv, IsFiniteSet(Releasing)
  PROVE  /\ IsFiniteSet(Entries(activeConnections))
         /\ Cardinality(Entries(activeConnections)) \in Nat
         /\ Cardinality(Releasing) \in Nat
         /\ countActive \in Int /\ opened \in Nat /\ Limit \in Nat
         /\ config.initConnections \in Nat /\ config.maxActiveConnections \in Nat
         /\ config.initConnections <= Limit /\ config.maxActiveConnections <= Limit
  <1>1. IsFiniteSet(Entries(activeConnections))
    BY EntriesOf DEF TypeInv, ListTypeOK
  <1>2. opened \in Nat
    BY LenProperties DEF opened, TypeInv, ListTypeOK
  <1>3. config.initConnections \in Nat /\ config.maxActiveConnections \in Nat
    BY DEF TypeInv, ClientTypeOK, Config
  <1>. QED  BY <1>1, <1>2, <1>3, FS_CardinalityType DEF Limit, TypeInv, ListTypeOK

\* A step that leaves the lists, the connections and the count alone, and in
\* which no client starts or ends counting.
LEMMA BookkeptSame ==
  ASSUME TypeInv, Bookkept, UNCHANGED <<config, link, listVars>>,
         {conn[t] : t \in Counting} \subseteq {conn[t] : t \in Counting}',
         Releasing' = Releasing
  PROVE  Bookkept'
  <1>1. Opened' = Opened /\ opened' = opened
    BY SameSize
  <1>2. /\ Entries(freeConnections)' = Entries(freeConnections)
        /\ Entries(activeConnections)' = Entries(activeConnections)
    BY DEF listVars, Entries
  <1>3. Known \subseteq Known'
    BY <1>2 DEF Known
  <1>. QED  BY <1>1, <1>2, <1>3 DEF Bookkept, listVars, Limit

LEMMA TakeBookkept ==
  ASSUME TypeInv, Bookkept, NEW t \in Clients, Run(Take(t))
  PROVE  Bookkept'
  <1>1. /\ pc' = [pc EXCEPT ![t] = "count"] /\ pc[t] = "get"
        /\ pc \in [Clients -> Positions] /\ Counting = {}
        /\ UNCHANGED <<config, activeConnections, countActive>>
        /\ freeConnections \in Seq(Opened) /\ conn \in [Clients -> Opened \cup {NULL}]
    BY DEF Run, Take, Step, Unlocked, Counting, TypeInv, ClientTypeOK, ListTypeOK
  <1>2. /\ Releasing' = Releasing /\ t \in Counting'
        /\ Entries(activeConnections)' = Entries(activeConnections)
    BY <1>1 DEF Releasing, Counting, Entries
  <1>3. ASSUME Opened' \subseteq Known', opened' <= Limit,
               \A c \in Opened' : link'[c] # "closed"
        PROVE  Bookkept'
    BY <1>1, <1>2, <1>3 DEF Bookkept, Limit
  <1>4. CASE freeConnections # <<>> /\ UNCHANGED link
               /\ conn' = [conn EXCEPT ![t] = Head(freeConnections)]
               /\ freeConnections' = PopFront
    <2>1. Entries(freeConnections) = Entries(freeConnections') \cup {Head(freeConnections)}
      BY <1>1, <1>4, EntriesTail DEF PopFront
    <2>2. Head(freeConnections) \in {conn[u] : u \in Counting}'
      BY <1>1, <1>2, <1>4
    <2>3. Entries(freeConnections)' = Entries(freeConnections')
      BY DEF Entries
    <2>4. Known \subseteq Known'
      BY <1>1, <1>2, <2>1, <2>2, <2>3 DEF Known
    <2>5. Opened' = Opened /\ opened' = opened
      BY <1>4, SameSize
    <2>. QED  BY <1>3, <1>4, <2>4, <2>5 DEF Bookkept
  <1>5. ASSUME freeConnections = <<>>, NEW r \in OpenResults, link' = Append(link, r),
               conn' = [conn EXCEPT ![t] = opened + 1]
        PROVE  Bookkept'
    <2>1. r \in Links /\ r # "closed" /\ ListTypeOK
      BY DEF OpenResults, Links, TypeInv
    <2>2. /\ opened \in Nat /\ opened' = opened + 1 /\ Opened' = Opened \cup {opened + 1}
          /\ \A c \in Opened : link'[c] = link[c]
          /\ link'[opened + 1] = r
      BY <1>5, <2>1, Grown
    <2>3. opened + 1 \in {conn[u] : u \in Counting}'
      BY <1>1, <1>2, <1>5
    <2>4. Opened \subseteq Entries(activeConnections)
      BY <1>1, <1>5, EntriesOf DEF Bookkept, Known
    <2>5. Opened' \subseteq Known'
      BY <1>2, <2>2, <2>3, <2>4 DEF Known
    <2>6. opened <= Cardinality(Entries(activeConnections))
      <3>1. Cardinality(Opened) = opened
        BY <2>2, FS_Interval DEF Opened
      <3>. QED  BY <2>4, <3>1, Sizes, FS_Subset DEF Bookkept
    <2>7. countActive < config.maxActiveConnections
      BY DEF Run, Take, UnderLimit
    <2>8. opened' <= Limit
      BY <2>2, <2>6, <2>7, Sizes DEF Bookkept
    <2>9. \A c \in Opened' : link'[c] # "closed"
      BY <2>1, <2>2 DEF Bookkept
    <2>. QED  BY <1>3, <2>5, <2>8, <2>9
  <1>6. CASE conn' = [conn EXCEPT ![t] = NULL] /\ UNCHANGED <<link, freeConnections>>
    <2>1. Known \subseteq Known'
      BY <1>1, <1>2, <1>6 DEF Known, Entries
    <2>2. Opened' = Opened /\ opened' = opened
      BY <1>6, SameSize
    <2>. QED  BY <1>3, <1>6, <2>1, <2>2 DEF Bookkept
  <1>. QED  BY <1>4, <1>5, <1>6 DEF Run, Take

\* Count and Recount: nothing is counted that was not listed.
LEMMA CountBookkept ==
  ASSUME TypeInv, Bookkept, NEW t \in Clients, Run(Count(t)) \/ Run(Recount(t)),
         blame' \subseteq {"order", "wait"}
  PROVE  Bookkept'
  <1>1. /\ pc[t] \in {"count", "recount"} /\ pc \in [Clients -> Positions]
        /\ \E to \in {"use", "recount"} : pc' = [pc EXCEPT ![t] = to]
        /\ UNCHANGED <<config, link, freeConnections, conn>>
        /\ activeConnections \in Seq(Opened) /\ conn[t] \in Opened \cup {NULL}
        /\ CountConnection(t)
    BY DEF Run, Count, Recount, Step, CountConnection, TypeInv, ClientTypeOK, ListTypeOK
  <1>2. /\ Releasing' = Releasing /\ Counting' = Counting \ {t}
        /\ Opened' = Opened /\ opened' = opened
        /\ Entries(freeConnections)' = Entries(freeConnections)
    <2>1. Releasing' = Releasing /\ Counting' = Counting \ {t}
      BY <1>1 DEF Releasing, Counting
    <2>. QED  BY <1>1, <2>1, SameSize DEF Entries
  <1>3. {conn[u] : u \in Counting} \subseteq {conn[u] : u \in Counting}' \cup {conn[t]}
    BY <1>1, <1>2
  <1>4. CASE conn[t] = NULL
    <2>1. NULL \notin Opened /\ ~IsValid(conn[t])
      BY <1>4 DEF NULL, Opened, IsValid
    <2>2. UNCHANGED <<activeConnections, countActive>>
      BY <1>1, <2>1 DEF CountConnection
    <2>3. Opened' \subseteq Known'
      BY <1>2, <1>3, <1>4, <2>1, <2>2 DEF Known, Bookkept, Entries
    <2>. QED  BY <1>1, <1>2, <2>2, <2>3 DEF Bookkept, Limit, Entries
  <1>5. CASE conn[t] \in Opened
    <2>1. IsValid(conn[t])
      BY <1>5 DEF IsValid, IsClosed, Bookkept, Opened, NULL
    <2>2. activeConnections' = Append(activeConnections, conn[t]) /\ Add(t, 1)
      BY <1>1, <2>1 DEF CountConnection
    <2>3. countActive' = countActive + 1
      BY <2>2 DEF Add
    <2>4. Entries(activeConnections)' = Entries(activeConnections) \cup {conn[t]}
      BY <1>1, <1>5, <2>2, EntriesAppend DEF Entries
    <2>5. Opened' \subseteq Known'
      BY <1>2, <1>3, <2>4 DEF Known, Bookkept
    <2>6. /\ Cardinality(Entries(activeConnections) \cup {conn[t]}) \in Nat
          /\ Cardinality(Entries(activeConnections) \cup {conn[t]})
               <= Cardinality(Entries(activeConnections)) + 1
      <3>1. IsFiniteSet(Entries(activeConnections))
        BY Sizes DEF Bookkept
      <3>2. IsFiniteSet(Entries(activeConnections) \cup {conn[t]})
        BY <3>1, FS_AddElement
      <3>3. /\ Cardinality(Entries(activeConnections)) \in Nat
            /\ Cardinality(Entries(activeConnections) \cup {conn[t]}) \in Nat
        BY <3>1, <3>2, FS_CardinalityType
      <3>4. \/ Cardinality(Entries(activeConnections) \cup {conn[t]})
                  = Cardinality(Entries(activeConnections))
            \/ Cardinality(Entries(activeConnections) \cup {conn[t]})
                  = Cardinality(Entries(activeConnections)) + 1
        BY <3>1, FS_AddElement
      <3>. QED  BY <3>3, <3>4
    <2>7. Cardinality(Entries(activeConnections)') + Cardinality(Releasing') <= countActive'
      BY <1>2, <2>3, <2>4, <2>6, Sizes DEF Bookkept
    <2>. QED  BY <1>1, <1>2, <2>5, <2>7 DEF Bookkept, Limit
  <1>. QED  BY <1>1, <1>4, <1>5

LEMMA ReleaseBookkept ==
  ASSUME TypeInv, Bookkept, NEW t \in Clients, Run(Release(t))
  PROVE  Bookkept'
  <1>1. /\ pc[t] = "release" /\ pc \in [Clients -> Positions]
        /\ UNCHANGED <<config, link, conn, countActive>>
        /\ activeConnections \in Seq(Opened) /\ freeConnections \in Seq(Opened)
    BY DEF Run, Release, Step, listVars, TypeInv, ClientTypeOK, ListTypeOK
  <1>2. CASE activeConnections = <<>>
    <2>1. pc' = [pc EXCEPT ![t] = "idle"] /\ UNCHANGED listVars
      BY <1>2 DEF Run, Release, Step
    <2>2. Releasing' = Releasing /\ Counting' = Counting
      BY <1>1, <2>1 DEF Releasing, Counting
    <2>. QED  BY <1>1, <2>1, <2>2, BookkeptSame
  <1>3. CASE activeConnections # <<>>
    <2> DEFINE c == Head(activeConnections)
    <2>1. /\ pc' = [pc EXCEPT ![t] = "decrement"]
          /\ freeConnections' = Append(freeConnections, c)
          /\ activeConnections' = ListRemove(activeConnections, c)
      BY <1>3 DEF Run, Release, Step, PushBack
    <2>2. c \in Entries(activeConnections) /\ c \in Opened
      BY <1>1, <1>3, EntriesTail, EntriesOf
    <2> HIDE DEF c
    <2>3. Releasing' = Releasing \cup {t} /\ t \notin Releasing /\ Counting' = Counting
      BY <1>1, <2>1 DEF Releasing, Counting
    <2>4. /\ Entries(freeConnections)' = Entries(freeConnections) \cup {c}
          /\ Entries(activeConnections)' = Entries(activeConnections) \ {c}
      <3>1. /\ Entries(freeConnections)' = Entries(freeConnections')
            /\ Entries(activeConnections)' = Entries(activeConnections')
        BY DEF Entries
      <3>. QED  BY <1>1, <2>1, <2>2, <3>1, EntriesAppend, EntriesRemove
    <2>5. Opened' = Opened /\ opened' = opened /\ Known \subseteq Known'
      BY <1>1, <2>3, <2>4, SameSize DEF Known
    <2>6. /\ IsFiniteSet(Releasing \cup {t})
          /\ Cardinality(Releasing \cup {t}) = Cardinality(Releasing) + 1
      BY <2>3, FS_AddElement DEF Bookkept
    <2>7. Cardinality(Entries(activeConnections) \ {c})
            = Cardinality(Entries(activeConnections)) - 1
      BY <2>2, Sizes, FS_RemoveElement DEF Bookkept
    <2>8. Cardinality(Entries(activeConnections)') + Cardinality(Releasing') <= countActive'
      BY <1>1, <2>3, <2>4, <2>6, <2>7, Sizes DEF Bookkept
    <2>. QED  BY <1>1, <2>3, <2>5, <2>6, <2>8 DEF Bookkept, Limit
  <1>. QED  BY <1>2, <1>3

LEMMA DecrementBookkept ==
  ASSUME TypeInv, Bookkept, NEW t \in Clients, Run(Decrement(t)),
         blame' \subseteq {"order", "wait"}
  PROVE  Bookkept'
  <1>1. /\ pc[t] = "decrement" /\ pc \in [Clients -> Positions]
        /\ pc' = [pc EXCEPT ![t] = "idle"]
        /\ UNCHANGED <<config, link, freeConnections, activeConnections, conn>>
        /\ countActive' = countActive - 1
    <2>1. Add(t, -1) /\ countActive \in Int
      BY DEF Run, Decrement, TypeInv, ListTypeOK
    <2>2. countActive' = countActive - 1
      BY <2>1 DEF Add
    <2>. QED  BY <2>2 DEF Run, Decrement, Step, TypeInv, ClientTypeOK
  <1>2. Releasing' = Releasing \ {t} /\ t \in Releasing /\ Counting' = Counting
    BY <1>1 DEF Releasing, Counting
  <1>3. /\ Opened' = Opened /\ opened' = opened /\ Known' = Known
        /\ Entries(activeConnections)' = Entries(activeConnections)
    BY <1>1, <1>2, SameSize DEF Known, Entries
  <1>4. /\ IsFiniteSet(Releasing \ {t})
        /\ Cardinality(Releasing \ {t}) = Cardinality(Releasing) - 1
    BY <1>2, FS_RemoveElement DEF Bookkept
  <1>5. Cardinality(Entries(activeConnections)') + Cardinality(Releasing') <= countActive'
    BY <1>1, <1>2, <1>3, <1>4, Sizes DEF Bookkept
  <1>. QED  BY <1>1, <1>2, <1>3, <1>4, <1>5 DEF Bookkept, Limit

LEMMA BoundStep ==
  ASSUME TypeInv, BoundInv, [Next]_vars
  PROVE  BoundInv'
  <1> SUFFICES ASSUME blame' \subseteq {"order", "wait"}
               PROVE  Bookkept'
    BY DEF BoundInv
  <1>0. Bookkept
    BY BlameStays DEF BoundInv
  <1>1. ASSUME NEW t \in Clients, NEW to \in Positions \ {"count", "decrement"},
               pc' = [pc EXCEPT ![t] = to], pc[t] \notin {"count", "decrement"},
               UNCHANGED <<config, link, listVars, conn>>
        PROVE  Bookkept'
    <2>1. Releasing' = Releasing /\ Counting' = Counting
      BY <1>1 DEF Releasing, Counting, TypeInv, ClientTypeOK
    <2>. QED  BY <1>0, <1>1, <2>1, BookkeptSame
  <1>2. CASE UNCHANGED <<config, link, listVars, pc, conn>>
    BY <1>0, <1>2, BookkeptSame DEF Releasing, Counting
  <1>3. CASE Make
    <2>1. ASSUME NEW r \in OpenResults, link' = Append(link, r),
                 freeConnections' = Append(freeConnections, opened + 1),
                 opened < config.initConnections,
                 UNCHANGED <<config, activeConnections, countActive, pc, conn>>
          PROVE  Bookkept'
      <3>1. r \in Links /\ r # "closed" /\ ListTypeOK
        BY DEF OpenResults, Links, TypeInv
      <3>2. /\ opened \in Nat /\ opened' = opened + 1
            /\ Opened' = Opened \cup {opened + 1}
            /\ \A c \in Opened : link'[c] = link[c]
            /\ link'[opened + 1] = r
            /\ freeConnections \in Seq(Opened')
        BY <2>1, <3>1, Grown DEF ListTypeOK
      <3>3. Entries(freeConnections)' = Entries(freeConnections) \cup {opened + 1}
        <4>1. opened + 1 \in Opened'
          BY <3>2, Zenon
        <4>2. PICK S : S = Opened'
          OBVIOUS
        <4>3. Entries(Append(freeConnections, opened + 1)) = Entries(freeConnections) \cup {opened + 1}
          BY <3>2, <4>1, <4>2, EntriesAppend
        <4>4. Entries(freeConnections)' = Entries(freeConnections')
          BY DEF Entries
        <4>. QED  BY <2>1, <4>3, <4>4
      <3>4. /\ Releasing' = Releasing
            /\ Entries(activeConnections)' = Entries(activeConnections)
            /\ Known' = Known \cup {opened + 1}
        BY <2>1, <3>3 DEF Releasing, Counting, Known, Entries
      <3>5. opened' <= Limit
        BY <1>0, <2>1, <3>2, Sizes DEF Bookkept
      <3>6. \A c \in Opened' : link'[c] # "closed"
        BY <1>0, <3>1, <3>2 DEF Bookkept
      <3>. QED  BY <1>0, <2>1, <3>2, <3>4, <3>5, <3>6 DEF Bookkept, Limit
    <2>. QED  BY <1>2, <1>3, <2>1 DEF Make, clientVars, listVars
  <1>4. ASSUME NEW t \in Clients, Run(Request(t))
        PROVE  Bookkept'
    BY <1>1, <1>4 DEF Run, Request, Step, Positions
  <1>5. ASSUME NEW t \in Clients, Run(Take(t))
        PROVE  Bookkept'
    BY <1>0, <1>5, TakeBookkept
  <1>6. ASSUME NEW t \in Clients, Run(Count(t)) \/ Run(Recount(t))
        PROVE  Bookkept'
    BY <1>0, <1>6, CountBookkept
  <1>7. ASSUME NEW t \in Clients, Run(Execute(t))
        PROVE  Bookkept'
    BY <1>1, <1>7 DEF Run, Execute, Step, Positions
  <1>8. ASSUME NEW t \in Clients, Run(Release(t))
        PROVE  Bookkept'
    BY <1>0, <1>8, ReleaseBookkept
  <1>9. ASSUME NEW t \in Clients, Run(Decrement(t))
        PROVE  Bookkept'
    BY <1>0, <1>9, DecrementBookkept
  <1>10. ASSUME NEW t \in Clients, NEW u \in Clients, Run(Wait(t)) \/ Run(Collide(t, u))
         PROVE  Bookkept'
    BY <1>2, <1>10 DEF Run, Wait, Collide, clientVars
  <1>11. ASSUME NEW c, Run(ServerCloses(c))
         PROVE  FALSE
    BY <1>11 DEF Run, ServerCloses
  <1>12. CASE UNCHANGED vars
    BY <1>2, <1>12 DEF vars, clientVars
  <1>. QED
    BY <1>3, <1>4, <1>5, <1>6, <1>7, <1>8, <1>9, <1>10, <1>11, <1>12 DEF Next

LEMMA BoundInit ==
  ASSUME Init
  PROVE  BoundInv
  <1>1. opened = 0 /\ Opened = {}
    BY DEF Init, opened, Opened
  <1>2. Entries(activeConnections) = {} /\ Releasing = {}
    BY DEF Init, Entries, Releasing
  <1>3. /\ config.initConnections \in Nat /\ config.maxActiveConnections \in Nat
    BY PoolAssumption DEF Init, PoolAssumption, Config
  <1>4. opened <= Limit
    BY <1>1, <1>3 DEF Limit
  <1>5. /\ IsFiniteSet(Releasing)
        /\ Cardinality(Entries(activeConnections)) + Cardinality(Releasing) <= countActive
    <2>1. Cardinality(Entries(activeConnections)) = 0 /\ Cardinality(Releasing) = 0
      BY <1>2, FS_EmptySet
    <2>2. countActive = 0 /\ IsFiniteSet(Releasing)
      BY <1>2, FS_EmptySet DEF Init
    <2>. QED  BY <2>1, <2>2
  <1>. QED  BY <1>1, <1>4, <1>5 DEF BoundInv, Bookkept

-----------------------------------------------------------------------------
(* The count.                                                              *)

\* As long as nobody has waited every connection is in one place: free,
\* listed as active, or with the one client that is counting it; the other
\* levels of the recursion are what lists one again.
OnePlace ==
  /\ \A t \in Clients : depth[t] = 0
  /\ \A t, u \in Counting : t = u
  /\ NoDuplicate(freeConnections)
  /\ Entries(freeConnections) \cap Entries(activeConnections) = {}
  /\ \A t \in Counting :
       conn[t] \notin Entries(freeConnections) \cup Entries(activeConnections)
  /\ IsFiniteSet(Releasing)
  /\ Cardinality(Entries(activeConnections)) + Cardinality(Releasing) = countActive

ExactInv == blame \subseteq {"order"} => OnePlace

LEMMA OnePlaceSame ==
  ASSUME TypeInv, OnePlace, UNCHANGED <<listVars, conn>>,
         \A t \in Clients : depth'[t] = 0,
         Counting' = Counting, Releasing' = Releasing
  PROVE  OnePlace'
  <1>1. /\ Entries(freeConnections)' = Entries(freeConnections)
        /\ Entries(activeConnections)' = Entries(activeConnections)
        /\ NoDuplicate(freeConnections)' = NoDuplicate(freeConnections)
    BY DEF listVars, Entries, NoDuplicate
  <1>. QED  BY <1>1 DEF OnePlace, listVars

LEMMA TakeOnePlace ==
  ASSUME TypeInv, OnePlace, NEW t \in Clients, Take(t)
  PROVE  OnePlace'
  <1>1. /\ pc' = [pc EXCEPT ![t] = "count"] /\ pc[t] = "get"
        /\ pc \in [Clients -> Positions] /\ Counting = {}
        /\ UNCHANGED <<activeConnections, countActive, depth>>
        /\ freeConnections \in Seq(Opened) /\ activeConnections \in Seq(Opened)
        /\ conn \in [Clients -> Opened \cup {NULL}] /\ opened \in Nat
    BY LenProperties DEF Take, Step, Unlocked, Counting, TypeInv, ClientTypeOK, ListTypeOK,
       opened
  <1>2. /\ Releasing' = Releasing /\ Counting' = {t}
        /\ Entries(activeConnections)' = Entries(activeConnections)
        /\ Entries(freeConnections)' = Entries(freeConnections')
    BY <1>1 DEF Releasing, Counting, Entries
  <1>3. ASSUME NEW c, conn' = [conn EXCEPT ![t] = c],
               c \notin Entries(freeConnections') \cup Entries(activeConnections),
               Entries(freeConnections') \subseteq Entries(freeConnections),
               NoDuplicate(freeConnections')
        PROVE  OnePlace'
    <2>1. conn'[t] = c
      BY <1>1, <1>3
    <2>2. NoDuplicate(freeConnections)'
      BY <1>3 DEF NoDuplicate
    <2>. QED  BY <1>1, <1>2, <1>3, <2>1, <2>2 DEF OnePlace
  <1>4. CASE freeConnections # <<>> /\ freeConnections' = PopFront
               /\ conn' = [conn EXCEPT ![t] = Head(freeConnections)]
    <2>1. /\ Head(freeConnections) \in Entries(freeConnections)
          /\ freeConnections' = Tail(freeConnections)
          /\ Entries(freeConnections') \subseteq Entries(freeConnections)
      BY <1>1, <1>4, EntriesTail DEF PopFront
    <2>2. /\ NoDuplicate(freeConnections')
          /\ Head(freeConnections) \notin Entries(freeConnections')
      BY <1>1, <1>4, <2>1, NoDuplicateTail DEF OnePlace
    <2>3. Head(freeConnections) \notin Entries(activeConnections)
      BY <2>1 DEF OnePlace
    <2>. QED  BY <1>3, <1>4, <2>1, <2>2, <2>3
  <1>5. ASSUME NEW c, freeConnections = <<>>, UNCHANGED freeConnections,
               conn' = [conn EXCEPT ![t] = c], c \notin Opened
        PROVE  OnePlace'
    <2>1. c \notin Entries(freeConnections') \cup Entries(activeConnections)
      BY <1>1, <1>5, EntriesOf
    <2>. QED  BY <1>3, <1>5, <2>1 DEF OnePlace
  <1>6. opened + 1 \notin Opened /\ NULL \notin Opened
    BY <1>1 DEF Opened, NULL
  <1>. QED  BY <1>4, <1>5, <1>6 DEF Take

LEMMA CountOnePlace ==
  ASSUME TypeInv, OnePlace, NEW t \in Clients, Count(t), blame' \subseteq {"order"}
  PROVE  OnePlace'
  <1>1. /\ pc[t] = "count" /\ pc \in [Clients -> Positions]
        /\ \E to \in {"use", "recount"} : pc' = [pc EXCEPT ![t] = to]
        /\ UNCHANGED <<freeConnections, conn, depth>>
        /\ activeConnections \in Seq(Opened) /\ conn[t] \in Opened \cup {NULL}
        /\ CountConnection(t)
    BY DEF Count, Step, CountConnection, TypeInv, ClientTypeOK, ListTypeOK
  <1>2. /\ Releasing' = Releasing /\ t \in Counting /\ Counting' = {}
        /\ Entries(freeConnections)' = Entries(freeConnections)
        /\ NoDuplicate(freeConnections)' = NoDuplicate(freeConnections)
    <2>1. Releasing' = Releasing /\ t \in Counting /\ Counting' = Counting \ {t}
      BY <1>1 DEF Releasing, Counting
    <2>2. Counting = {t}
      BY <2>1 DEF OnePlace
    <2>. QED  BY <1>1, <2>1, <2>2 DEF Entries, NoDuplicate
  <1>3. CASE ~IsValid(conn[t])
    <2>1. /\ UNCHANGED <<activeConnections, countActive>>
          /\ Entries(activeConnections)' = Entries(activeConnections)
      BY <1>1, <1>3 DEF CountConnection, Entries
    <2>. QED  BY <1>1, <1>2, <2>1 DEF OnePlace
  <1>4. CASE IsValid(conn[t])
    <2>1. activeConnections' = Append(activeConnections, conn[t]) /\ Add(t, 1)
      BY <1>1, <1>4 DEF CountConnection
    <2>2. countActive' = countActive + 1
      BY <2>1 DEF Add
    <2>3. conn[t] \in Opened /\ conn[t] \notin Entries(freeConnections)
            /\ conn[t] \notin Entries(activeConnections)
      BY <1>1, <1>2, <1>4 DEF IsValid, OnePlace
    <2>4. Entries(activeConnections)' = Entries(activeConnections) \cup {conn[t]}
      BY <1>1, <2>1, <2>3, EntriesAppend DEF Entries
    <2>5. Cardinality(Entries(activeConnections) \cup {conn[t]})
            = Cardinality(Entries(activeConnections)) + 1
      BY <1>1, <2>3, EntriesOf, FS_AddElement
    <2>6. Cardinality(Entries(activeConnections)) \in Nat /\ IsFiniteSet(Entries(activeConnections))
      BY <1>1, EntriesOf, FS_CardinalityType
    <2>7. Cardinality(Entries(activeConnections)') + Cardinality(Releasing') = countActive'
      <3>1. Cardinality(Releasing') = Cardinality(Releasing)
        BY <1>2
      <3>2. Cardinality(Releasing) \in Nat /\ countActive \in Int
        BY FS_CardinalityType DEF OnePlace, TypeInv, ListTypeOK
      <3>. QED  BY <2>2, <2>4, <2>5, <2>6, <3>1, <3>2 DEF OnePlace
    <2>. QED  BY <1>1, <1>2, <2>3, <2>4, <2>7 DEF OnePlace
  <1>. QED  BY <1>3, <1>4

LEMMA ReleaseOnePlace ==
  ASSUME TypeInv, OnePlace, NEW t \in Clients, Release(t)
  PROVE  OnePlace'
  <1>1. /\ pc[t] = "release" /\ pc \in [Clients -> Positions]
        /\ UNCHANGED <<conn, countActive, depth>>
        /\ activeConnections \in Seq(Opened) /\ freeConnections \in Seq(Opened)
    BY DEF Release, Step, listVars, TypeInv, ClientTypeOK, ListTypeOK
  <1>2. CASE activeConnections = <<>>
    <2>1. pc' = [pc EXCEPT ![t] = "idle"] /\ UNCHANGED listVars
      BY <1>2 DEF Release, Step
    <2>2. Releasing' = Releasing /\ Counting' = Counting
      BY <1>1, <2>1 DEF Releasing, Counting
    <2>3. \A u \in Clients : depth'[u] = 0
      BY <1>1 DEF OnePlace
    <2>. QED  BY <1>1, <2>1, <2>2, <2>3, OnePlaceSame
  <1>3. CASE activeConnections # <<>>
    <2> DEFINE c == Head(activeConnections)
    <2>1. /\ pc' = [pc EXCEPT ![t] = "decrement"]
          /\ freeConnections' = Append(freeConnections, c)
          /\ activeConnections' = ListRemove(activeConnections, c)
      BY <1>3 DEF Release, Step, PushBack
    <2>2. c \in Entries(activeConnections) /\ c \in Opened
      BY <1>1, <1>3, EntriesTail, EntriesOf
    <2> HIDE DEF c
    <2>3. Releasing' = Releasing \cup {t} /\ t \notin Releasing /\ Counting' = Counting
      BY <1>1, <2>1 DEF Releasing, Counting
    <2>4. /\ Entries(freeConnections)' = Entries(freeConnections) \cup {c}
          /\ Entries(activeConnections)' = Entries(activeConnections) \ {c}
      <3>1. /\ Entries(freeConnections)' = Entries(freeConnections')
            /\ Entries(activeConnections)' = Entries(activeConnections')
        BY DEF Entries
      <3>. QED  BY <1>1, <2>1, <2>2, <3>1, EntriesAppend, EntriesRemove
    <2>5. c \notin Entries(freeConnections) /\ NoDuplicate(freeConnections)
      BY <2>2 DEF OnePlace
    <2>6. NoDuplicate(freeConnections)'
      <3>1. NoDuplicate(Append(freeConnections, c))
        BY <1>1, <2>2, <2>5, NoDuplicateAppend
      <3>. QED  BY <2>1, <3>1 DEF NoDuplicate
    <2>7. /\ IsFiniteSet(Releasing \cup {t})
          /\ Cardinality(Releasing \cup {t}) = Cardinality(Releasing) + 1
      BY <2>3, FS_AddElement DEF OnePlace
    <2>8. /\ Cardinality(Entries(activeConnections) \ {c})
               = Cardinality(Entries(activeConnections)) - 1
          /\ Cardinality(Entries(activeConnections)) \in Nat
      BY <1>1, <2>2, EntriesOf, FS_RemoveElement, FS_CardinalityType
    <2>9. Cardinality(Releasing) \in Nat
      BY FS_CardinalityType DEF OnePlace
    <2>10. Cardinality(Entries(activeConnections)') + Cardinality(Releasing') = countActive'
      BY <1>1, <2>3, <2>4, <2>7, <2>8, <2>9 DEF OnePlace
    <2>11. \A u \in Counting' :
             conn'[u] \notin Entries(freeConnections)' \cup Entries(activeConnections)'
      BY <1>1, <2>2, <2>3, <2>4 DEF OnePlace
    <2>12. Entries(freeConnections)' \cap Entries(activeConnections)' = {}
      BY <2>4 DEF OnePlace
    <2>. QED  BY <1>1, <2>3, <2>6, <2>7, <2>10, <2>11, <2>12 DEF OnePlace
  <1>. QED  BY <1>2, <1>3

LEMMA DecrementOnePlace ==
  ASSUME TypeInv, OnePlace, NEW t \in Clients, Decrement(t), blame' \subseteq {"order"}
  PROVE  OnePlace'
  <1>1. /\ pc[t] = "decrement" /\ pc \in [Clients -> Positions]
        /\ pc' = [pc EXCEPT ![t] = "idle"]
        /\ UNCHANGED <<freeConnections, activeConnections, conn, depth>>
        /\ countActive' = countActive - 1
    <2>1. Add(t, -1) /\ countActive \in Int
      BY DEF Decrement, TypeInv, ListTypeOK
    <2>2. countActive' = countActive - 1
      BY <2>1 DEF Add
    <2>. QED  BY <2>2 DEF Decrement, Step, TypeInv, ClientTypeOK
  <1>2. Releasing' = Releasing \ {t} /\ t \in Releasing /\ Counting' = Counting
    BY <1>1 DEF Releasing, Counting
  <1>3. /\ Entries(activeConnections)' = Entries(activeConnections)
        /\ Entries(freeConnections)' = Entries(freeConnections)
        /\ NoDuplicate(freeConnections)' = NoDuplicate(freeConnections)
    BY <1>1 DEF Entries, NoDuplicate
  <1>4. /\ IsFiniteSet(Releasing \ {t})
        /\ Cardinality(Releasing \ {t}) = Cardinality(Releasing) - 1
        /\ Cardinality(Releasing) \in Nat
    BY <1>2, FS_RemoveElement, FS_CardinalityType DEF OnePlace
  <1>5. /\ Cardinality(Entries(activeConnections)) \in Nat /\ countActive \in Int
    BY EntriesOf, FS_CardinalityType DEF TypeInv, ListTypeOK
  <1>6. Cardinality(Entries(activeConnections)') + Cardinality(Releasing') = countActive'
    BY <1>1, <1>2, <1>3, <1>4, <1>5 DEF OnePlace
  <1>. QED  BY <1>1, <1>2, <1>3, <1>4, <1>6 DEF OnePlace

LEMMA ExactStep ==
  ASSUME TypeInv, ExactInv, [Next]_vars
  PROVE  ExactInv'
  <1> SUFFICES ASSUME blame' \subseteq {"order"}
               PROVE  OnePlace'
    BY DEF ExactInv
  <1>0. OnePlace
    BY BlameStays DEF ExactInv
  <1>1. ASSUME NEW t \in Clients, NEW to \in Positions \ {"count", "decrement"},
               pc' = [pc EXCEPT ![t] = to], pc[t] \notin {"count", "decrement"},
               \A u \in Clients : depth'[u] = 0, UNCHANGED <<listVars, conn>>
        PROVE  OnePlace'
    <2>1. Releasing' = Releasing /\ Counting' = Counting
      BY <1>1 DEF Releasing, Counting, TypeInv, ClientTypeOK
    <2>. QED  BY <1>0, <1>1, <2>1, OnePlaceSame
  <1>2. CASE UNCHANGED <<listVars, clientVars>>
    <2>1. /\ UNCHANGED <<listVars, conn, depth>>
          /\ Releasing' = Releasing /\ Counting' = Counting
      BY <1>2 DEF clientVars, Releasing, Counting
    <2>. QED  BY <1>0, <2>1, OnePlaceSame DEF OnePlace
  <1>3. CASE Make
    <2>1. ASSUME NEW r \in OpenResults,
                 freeConnections' = Append(freeConnections, opened + 1),
                 UNCHANGED <<activeConnections, countActive, pc, conn, depth>>
          PROVE  OnePlace'
      <3>1. /\ freeConnections \in Seq(Opened) /\ opened \in Nat
            /\ activeConnections \in Seq(Opened)
            /\ conn \in [Clients -> Opened \cup {NULL}]
        BY LenProperties DEF TypeInv, ListTypeOK, opened
      <3>2. opened + 1 \notin Opened /\ opened + 1 # NULL
        BY <3>1 DEF Opened, NULL
      <3>3. freeConnections \in Seq(Opened \cup {opened + 1})
        BY <3>1, SeqMonotonic
      <3>4. /\ opened + 1 \notin Entries(freeConnections)
            /\ opened + 1 \notin Entries(activeConnections)
        BY <3>1, <3>2, EntriesOf
      <3>5. /\ Entries(freeConnections') = Entries(freeConnections) \cup {opened + 1}
            /\ NoDuplicate(freeConnections')
        BY <1>0, <2>1, <3>3, <3>4, EntriesAppend, NoDuplicateAppend DEF OnePlace
      <3>6. /\ Entries(freeConnections)' = Entries(freeConnections')
            /\ Entries(activeConnections)' = Entries(activeConnections)
            /\ Releasing' = Releasing /\ Counting' = Counting
            /\ NoDuplicate(freeConnections)'
        BY <2>1, <3>5 DEF Entries, Releasing, Counting, NoDuplicate
      <3>7. \A u \in Counting : conn[u] # opened + 1
        BY <3>1, <3>2 DEF Counting
      <3>8. \A u \in Counting' :
              conn'[u] \notin Entries(freeConnections)' \cup Entries(activeConnections)'
        BY <1>0, <2>1, <3>5, <3>6, <3>7 DEF OnePlace
      <3>9. Entries(freeConnections)' \cap Entries(activeConnections)' = {}
        BY <1>0, <3>4, <3>5, <3>6 DEF OnePlace
      <3>. QED  BY <1>0, <2>1, <3>6, <3>8, <3>9 DEF OnePlace
    <2>. QED  BY <1>2, <1>3, <2>1 DEF Make, clientVars, listVars
  <1>4. ASSUME NEW t \in Clients, Run(Request(t))
        PROVE  OnePlace'
    <2>1. \A u \in Clients : depth'[u] = 0
      BY <1>0, <1>4 DEF Run, Request, OnePlace, TypeInv, ClientTypeOK
    <2>. QED  BY <1>1, <1>4, <2>1 DEF Run, Request, Step, Positions
  <1>5. ASSUME NEW t \in Clients, Run(Take(t))
        PROVE  OnePlace'
    BY <1>0, <1>5, TakeOnePlace DEF Run
  <1>6. ASSUME NEW t \in Clients, Run(Wait(t))
        PROVE  FALSE
    BY <1>6 DEF Run, Wait
  <1>7. ASSUME NEW t \in Clients, Run(Count(t))
        PROVE  OnePlace'
    BY <1>0, <1>7, CountOnePlace DEF Run
  <1>8. ASSUME NEW t \in Clients, Run(Recount(t))
        PROVE  FALSE
    BY <1>0, <1>8 DEF Run, Recount, Step, OnePlace, TypeInv, ClientTypeOK
  <1>9. ASSUME NEW t \in Clients, Run(Execute(t))
        PROVE  OnePlace'
    <2>1. \A u \in Clients : depth'[u] = 0
      BY <1>0, <1>9 DEF Run, Execute, OnePlace
    <2>. QED  BY <1>1, <1>9, <2>1 DEF Run, Execute, Step, Positions
  <1>10. ASSUME NEW t \in Clients, Run(Release(t))
         PROVE  OnePlace'
    BY <1>0, <1>10, ReleaseOnePlace DEF Run
  <1>11. ASSUME NEW t \in Clients, Run(Decrement(t))
         PROVE  OnePlace'
    BY <1>0, <1>11, DecrementOnePlace DEF Run
  <1>12. ASSUME NEW t \in Clients, NEW u \in Clients, Run(Collide(t, u))
         PROVE  OnePlace'
    BY <1>2, <1>12 DEF Run, Collide
  <1>13. ASSUME NEW c, Run(ServerCloses(c))
         PROVE  FALSE
    BY <1>13 DEF Run, ServerCloses
  <1>14. CASE UNCHANGED vars
    BY <1>2, <1>14 DEF vars
  <1>. QED
    BY <1>3, <1>4, <1>5, <1>6, <1>7, <1>8, <1>9, <1>10, <1>11, <1>12, <1>13, <1>14
    DEF Next

\* getConnection: unless an update of countActive is lost or the server closes
\* a connection, the pool never has more connections than its limit, or than
\* it was told to open at the start, and countActive is at least the number in
\* use; giving back the wrong connection and counting one once per level of
\* the recursion do not change that.  And as long as nobody waited, so that
\* there are no levels, countActive is exactly that number.
THEOREM PoolStaysBounded == Spec => []PoolBounded
  <1>1. Init => BoundInv /\ ExactInv
    <2>1. ASSUME Init PROVE BoundInv
      BY <2>1, BoundInit
    <2>2. ASSUME Init PROVE OnePlace
      <3>1. /\ Entries(activeConnections) = {} /\ Entries(freeConnections) = {}
            /\ Releasing = {} /\ Counting = {} /\ NoDuplicate(freeConnections)
            /\ countActive = 0 /\ \A t \in Clients : depth[t] = 0
        BY <2>2 DEF Init, Entries, Releasing, Counting, NoDuplicate
      <3>. QED  BY <3>1, FS_EmptySet DEF OnePlace
    <2>. QED  BY <2>1, <2>2 DEF ExactInv
  <1>2. TypeInv /\ BoundInv /\ [Next]_vars => BoundInv'
    BY BoundStep
  <1>3. TypeInv /\ ExactInv /\ [Next]_vars => ExactInv'
    BY ExactStep
  <1>4. InUse = Cardinality(Entries(activeConnections)) + Cardinality(Releasing)
    BY DEF InUse, Entries, Releasing
  <1>5. BoundInv /\ ExactInv => PoolBounded
    BY <1>4 DEF BoundInv, ExactInv, Bookkept, OnePlace, PoolBounded, Limit
  <1>. QED  BY <1>1, <1>2, <1>3, <1>5, PoolTypeCorrect, PTL DEF Spec
=============================================================================
