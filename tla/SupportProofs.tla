---------------------------- MODULE SupportProofs ----------------------------
(***************************************************************************)
(* Theorems about the parts of the library that stand on their own: the    *)
(* storm managers (StormManager), the HTTP server and client (Http), the   *)
(* declarations of services (Declarations), the timer (Timer) and the      *)
(* audio encoders (Audio).                                                 *)
(***************************************************************************)
EXTENDS StormManager, Http, Declarations, Timer, Audio, SequenceTheorems,
        FiniteSetTheorems, NaturalsInduction, WellFoundedInduction, TLAPS

\* A nonempty set of numbers has a least one.
LEMMA Least ==
  ASSUME NEW S \in SUBSET Nat, S # {}
  PROVE  \E c \in S : \A d \in S : c <= d
  <1> DEFINE Less == {pair \in Nat \X Nat : pair[1] < pair[2]}
  <1>1. IsWellFoundedOn(Less, Nat)
    <2>1. Less = OpToRel(<, Nat)
      BY DEF OpToRel
    <2>. QED  BY <2>1, NatLessThanWellFounded
  <1>2. PICK c \in S : \A d \in S : <<d, c>> \notin Less
    <2> HIDE DEF Less
    <2>. QED  BY <1>1, WFMin
  <1>3. ASSUME NEW d \in S
        PROVE  c <= d
    <2>1. ~(d < c)
      BY <1>2
    <2>. QED  BY <2>1
  <1>. QED  BY <1>3

-----------------------------------------------------------------------------
(* StormManager: the names.                                                *)

\* Slash is the position of the last "/", or 0.
LEMMA SlashIsLast ==
  ASSUME NEW n \in Seq(STRING)
  PROVE  /\ Slash(n) \in 0 .. Len(n)
         /\ Slash(n) = 0 \/ n[Slash(n)] = "/"
         /\ \A j \in Slash(n) + 1 .. Len(n) : n[j] # "/"
  <1> DEFINE S == {0} \union {i \in DOMAIN n : n[i] = "/"}
             T == {k \in 0 .. Len(n) : \A j \in k + 1 .. Len(n) : n[j] # "/"}
  <1>1. Len(n) \in Nat /\ DOMAIN n = 1 .. Len(n)
    OBVIOUS
  <1>2. PICK k \in T : \A d \in T : k <= d
    <2>1. T \in SUBSET Nat
      BY <1>1
    <2>2. Len(n) \in T
      BY <1>1
    <2>. QED  BY <2>1, <2>2, Least
  <1>3. k \in S
    <2>1. CASE k = 0
      BY <2>1
    <2>2. CASE k # 0
      <3>1. k - 1 \in 0 .. Len(n) /\ k - 1 \notin T
        <4>1. k \in 0 .. Len(n)
          BY <1>2
        <4>2. k - 1 \in 0 .. Len(n) /\ ~(k <= k - 1)
          BY <1>1, <2>2, <4>1
        <4> HIDE DEF T
        <4>. QED  BY <1>2, <4>2
      <3>2. PICK j \in (k - 1) + 1 .. Len(n) : n[j] = "/"
        BY <3>1
      <3>3. j = k
        BY <1>1, <1>2, <3>2
      <3>. QED  BY <1>1, <1>2, <2>2, <3>2, <3>3
    <2>. QED  BY <2>1, <2>2
  <1>4. \A i \in S : k >= i
    BY <1>1, <1>2
  <1>5. Slash(n) \in S /\ \A i \in S : Slash(n) >= i
    <2> DEFINE Top(x) == \A y \in S : x >= y
    <2>1. \E x \in S : Top(x)
      BY <1>3, <1>4
    <2>2. Slash(n) = CHOOSE x \in S : Top(x)
      BY DEF Slash, Max
    <2> HIDE DEF Top, S
    <2>3. Slash(n) \in S /\ Top(Slash(n))
      BY <2>1, <2>2
    <2>. QED  BY <2>3 DEF Top
  <1>6. \A i \in S : i \in Nat
    BY <1>1
  <1>7. Slash(n) = k
    <2>1. Slash(n) >= k /\ k >= Slash(n)
      BY <1>3, <1>4, <1>5
    <2>. QED  BY <1>3, <1>5, <1>6, <2>1
  <1>. QED  BY <1>1, <1>2, <1>3, <1>7

\* IsNode names the path of Node.
LEMMA NodePath ==
  ASSUME NEW n \in Seq(STRING), NEW p
  PROVE  IsNode(p, n) <=> p = Path(Node(n))
  <1>1. /\ Slash(n) \in 0 .. Len(n)
        /\ Slash(n) = 0 \/ n[Slash(n)] = "/"
        /\ \A j \in Slash(n) + 1 .. Len(n) : n[j] # "/"
    BY SlashIsLast
  <1>2. Len(n) \in Nat
    OBVIOUS
  <1>3. ASSUME NEW i \in 0 .. Len(n), i = 0 \/ n[i] = "/",
               \A j \in i + 1 .. Len(n) : n[j] # "/"
        PROVE  i = Slash(n)
    <2>1. CASE i < Slash(n)
      <3>1. Slash(n) \in i + 1 .. Len(n) /\ Slash(n) # 0
        BY <1>1, <1>2, <1>3, <2>1
      <3>. QED  BY <1>1, <1>3, <3>1
    <2>2. CASE Slash(n) < i
      <3>1. i \in Slash(n) + 1 .. Len(n) /\ i # 0
        BY <1>1, <1>2, <1>3, <2>2
      <3>. QED  BY <1>1, <1>3, <3>1
    <2>. QED  BY <1>1, <1>2, <1>3, <2>1, <2>2
  <1>4. IsNode(p, n) => p = Path(Node(n))
    BY <1>3 DEF IsNode, Node
  <1>5. p = Path(Node(n)) => IsNode(p, n)
    BY <1>1 DEF IsNode, Node
  <1>. QED  BY <1>4, <1>5

-----------------------------------------------------------------------------
(* StormManager: lists of registrations.                                   *)

Registrations == [m : Managers, name : Names, object : BOOLEAN, id : Nat]

CallbacksFor(rs, n, p) == {i \in CallbacksAt(rs, n) : Path(rs[i].name) = p}
ObjectsFor(rs, n, p) == {i \in ObjectsAt(rs, n) : Path(rs[i].name) = p}

LEMMA Kept ==
  ASSUME NEW rs \in Seq(Registrations), NEW r \in Registrations,
         NEW i \in 1 .. Len(rs)
  PROVE  Append(rs, r)[i] = rs[i]
  OBVIOUS

\* A list of registrations stays one when another is made.
LEMMA ListsStay ==
  ASSUME NEW rs \in Seq(Registrations), NEW r \in Registrations,
         NEW ids \in Seq(Nat), NEW S \in SUBSET (1 .. Len(rs)), Lists(rs, ids, S)
  PROVE  Lists(Append(rs, r), ids, S)
  <1>1. PICK p \in [1 .. Len(ids) -> S] :
          /\ \A i \in S : \E j \in 1 .. Len(ids) : p[j] = i
          /\ \A j, k \in 1 .. Len(ids) : j < k => p[j] < p[k]
          /\ \A j \in 1 .. Len(ids) : ids[j] = rs[p[j]].id
    BY DEF Lists
  <1>2. \A j \in 1 .. Len(ids) : Append(rs, r)[p[j]] = rs[p[j]]
    <2>1. \A i \in S : i \in 1 .. Len(rs)
      OBVIOUS
    <2>. QED  BY <2>1, Kept
  <1>3. \A j \in 1 .. Len(ids) : ids[j] = Append(rs, r)[p[j]].id
    BY <1>1, <1>2
  <1>. QED  BY <1>1, <1>3 DEF Lists

\* The new registration is the last of the list it is in.
LEMMA ListsAppend ==
  ASSUME NEW rs \in Seq(Registrations), NEW r \in Registrations,
         NEW ids \in Seq(Nat), NEW S \in SUBSET (1 .. Len(rs)), Lists(rs, ids, S)
  PROVE  Lists(Append(rs, r), Append(ids, r.id), S \union {Len(rs) + 1})
  <1>1. PICK p \in [1 .. Len(ids) -> S] :
          /\ \A i \in S : \E j \in 1 .. Len(ids) : p[j] = i
          /\ \A j, k \in 1 .. Len(ids) : j < k => p[j] < p[k]
          /\ \A j \in 1 .. Len(ids) : ids[j] = rs[p[j]].id
    BY DEF Lists
  <1> DEFINE n == Len(ids)
             more == Append(ids, r.id)
             U == S \union {Len(rs) + 1}
             q == [j \in 1 .. n + 1 |-> IF j = n + 1 THEN Len(rs) + 1 ELSE p[j]]
  <1>2. n \in Nat /\ Len(more) = n + 1 /\ Len(rs) \in Nat /\ r.id \in Nat
    BY DEF Registrations
  <1>3. \A j \in 1 .. n : j # n + 1 /\ j \in 1 .. n + 1 /\ q[j] = p[j] /\ p[j] \in 1 .. Len(rs)
    <2>1. \A i \in S : i \in 1 .. Len(rs)
      OBVIOUS
    <2>2. \A j \in 1 .. n : p[j] \in S
      OBVIOUS
    <2>3. \A j \in 1 .. n : j # n + 1 /\ j \in 1 .. n + 1
      BY <1>2
    <2>. QED  BY <2>1, <2>2, <2>3
  <1>4. n + 1 \in 1 .. n + 1 /\ q[n + 1] = Len(rs) + 1
    BY <1>2
  <1>5. \A j \in 1 .. n + 1 : j = n + 1 \/ j \in 1 .. n
    BY <1>2
  <1>6. q \in [1 .. Len(more) -> U]
    BY <1>2
  <1>7. \A i \in U : \E j \in 1 .. Len(more) : q[j] = i
    BY <1>1, <1>2, <1>3, <1>4
  <1>8. ASSUME NEW j \in 1 .. Len(more), NEW k \in 1 .. Len(more), j < k
        PROVE  q[j] < q[k]
    <2>1. j \in 1 .. n
      BY <1>2, <1>8
    <2>2. CASE k = n + 1
      <3>1. q[j] \in 1 .. Len(rs) /\ q[k] = Len(rs) + 1
        BY <1>3, <1>4, <2>1, <2>2
      <3> HIDE DEF q
      <3>. QED  BY <1>2, <3>1
    <2>3. CASE k \in 1 .. n
      BY <1>1, <1>3, <1>8, <2>1, <2>3
    <2>. QED  BY <1>2, <1>5, <2>2, <2>3
  <1>9. ASSUME NEW j \in 1 .. Len(more)
        PROVE  more[j] = Append(rs, r)[q[j]].id
    <2>1. CASE j = n + 1
      BY <1>2, <1>4, <2>1
    <2>2. CASE j \in 1 .. n
      <3>1. more[j] = ids[j]
        BY <1>2, <2>2
      <3>2. Append(rs, r)[p[j]] = rs[p[j]]
        BY <1>3, <2>2, Kept
      <3>. QED  BY <1>1, <1>3, <2>2, <3>1, <3>2
    <2>. QED  BY <1>2, <1>5, <2>1, <2>2
  <1> HIDE DEF q, more, U
  <1>. QED  BY <1>6, <1>7, <1>8, <1>9 DEF Lists, more, U

\* No registration at all.
LEMMA ListsNone ==
  ASSUME NEW rs
  PROVE  Lists(rs, <<>>, {})
  <1>1. Len(<<>>) = 0 /\ 1 .. 0 = {}
    OBVIOUS
  <1>2. \E p : p \in [{} -> {}]
    <2>1. [i \in {} |-> i] \in [{} -> {}]
      OBVIOUS
    <2>. QED  BY <2>1
  <1>. QED  BY <1>1, <1>2 DEF Lists

\* A registration that follows the first n changes nothing about them.
LEMMA FirstKept ==
  ASSUME NEW rs \in Seq(Registrations), NEW r \in Registrations,
         NEW n \in 0 .. Len(rs), NEW p
  PROVE  /\ CallbacksFor(Append(rs, r), n, p) = CallbacksFor(rs, n, p)
         /\ ObjectsFor(Append(rs, r), n, p) = ObjectsFor(rs, n, p)
         /\ CallbacksFor(rs, n, p) \subseteq 1 .. Len(rs)
         /\ ObjectsFor(rs, n, p) \subseteq 1 .. Len(rs)
  <1>1. \A i \in 1 .. n : i \in 1 .. Len(rs) /\ Append(rs, r)[i] = rs[i]
    <2>1. Len(rs) \in Nat
      OBVIOUS
    <2>2. \A i \in 1 .. n : i \in 1 .. Len(rs)
      BY <2>1
    <2>. QED  BY <2>2, Kept
  <1>. QED  BY <1>1 DEF CallbacksFor, ObjectsFor, CallbacksAt, ObjectsAt

\* The positions with the new registration.
LEMMA OneMore ==
  ASSUME NEW rs \in Seq(Registrations), NEW r \in Registrations, NEW p
  PROVE  /\ r.m = Delivering /\ ~r.object /\ Path(r.name) = p
              => CallbacksFor(Append(rs, r), Len(rs) + 1, p) =
                   CallbacksFor(rs, Len(rs), p) \union {Len(rs) + 1}
         /\ ~(r.m = Delivering /\ ~r.object /\ Path(r.name) = p)
              => CallbacksFor(Append(rs, r), Len(rs) + 1, p) =
                   CallbacksFor(rs, Len(rs), p)
         /\ r.m = Delivering /\ r.object /\ Path(r.name) = p
              => ObjectsFor(Append(rs, r), Len(rs) + 1, p) =
                   ObjectsFor(rs, Len(rs), p) \union {Len(rs) + 1}
         /\ ~(r.m = Delivering /\ r.object /\ Path(r.name) = p)
              => ObjectsFor(Append(rs, r), Len(rs) + 1, p) =
                   ObjectsFor(rs, Len(rs), p)
  <1> DEFINE n == Len(rs)
             more == Append(rs, r)
  <1>1. n \in Nat /\ more[n + 1] = r /\ n + 1 \notin 1 .. n
    OBVIOUS
  <1>2. \A i : i \in 1 .. n + 1 <=> i \in 1 .. n \/ i = n + 1
    BY <1>1
  <1>3. \A i \in 1 .. n : more[i] = rs[i]
    BY Kept
  <1> HIDE DEF n, more
  <1>4. /\ r.m = Delivering /\ ~r.object /\ Path(r.name) = p
             => CallbacksFor(more, n + 1, p) = CallbacksFor(rs, n, p) \union {n + 1}
        /\ ~(r.m = Delivering /\ ~r.object /\ Path(r.name) = p)
             => CallbacksFor(more, n + 1, p) = CallbacksFor(rs, n, p)
    BY <1>1, <1>2, <1>3 DEF CallbacksFor, CallbacksAt
  <1>5. /\ r.m = Delivering /\ r.object /\ Path(r.name) = p
             => ObjectsFor(more, n + 1, p) = ObjectsFor(rs, n, p) \union {n + 1}
        /\ ~(r.m = Delivering /\ r.object /\ Path(r.name) = p)
             => ObjectsFor(more, n + 1, p) = ObjectsFor(rs, n, p)
    BY <1>1, <1>2, <1>3 DEF ObjectsFor, ObjectsAt
  <1>. QED  BY <1>4, <1>5 DEF n, more

-----------------------------------------------------------------------------
(* StormManager: type correctness.                                         *)

Kinds == {"callback", "object", "remote"}
InCalls == [at : {"lock", "socket", "identity", "store"}, m : Managers,
            kind : Kinds, name : Names, id : Nat]
Ended == [at |-> "ended"]
CrashedUpdate == [at |-> "crashed"]
Updates == [at : {"callbacks", "done"}, name : Names, clean : BOOLEAN,
            called : Seq(Nat), seen : Nat, after : Nat]

\* A map of callbacks has no empty list.
IsIdMap(map) == \A q \in DOMAIN map : map[q] \in Seq(Nat) /\ map[q] # <<>>
Mutexes == [holder : Apps \cup {0}, count : Nat]

ManagerTypeOK ==
  /\ lan \in BOOLEAN /\ made \in Nat
  /\ m_subscriberSocket \in [Managers -> BOOLEAN]
  /\ mgrMutex \in [Managers -> Mutexes]
  /\ DOMAIN m_callbacks = Managers /\ DOMAIN m_subscriberCallBack = Managers
  /\ \A m \in Managers : IsIdMap(m_callbacks[m]) /\ IsIdMap(m_subscriberCallBack[m])
  /\ call \in [Apps -> {Idle, Ended} \cup InCalls]
  /\ registered \in Seq(Registrations)
  /\ update \in {NoUpdate, CrashedUpdate} \cup Updates

\* What PushBack makes of a map.
LEMMA Pushed ==
  ASSUME NEW map, IsIdMap(map), NEW p, NEW id \in Nat
  PROVE  /\ IsIdMap(PushBack(map, p, id))
         /\ Lookup(map, p) \in Seq(Nat)
         /\ Lookup(PushBack(map, p, id), p) = Append(Lookup(map, p), id)
         /\ \A q : q # p => Lookup(PushBack(map, p, id), q) = Lookup(map, q)
  <1> DEFINE old == Lookup(map, p)
             new == PushBack(map, p, id)
  <1>1. old \in Seq(Nat)
    BY DEF IsIdMap, Lookup
  <1>2. Append(old, id) \in Seq(Nat) /\ Append(old, id) # <<>>
    <2>1. Append(old, id) \in Seq(Nat) /\ Len(Append(old, id)) = Len(old) + 1 /\ Len(old) \in Nat
      BY <1>1
    <2>. QED  BY <2>1
  <1>3. DOMAIN new = DOMAIN map \cup {p}
    BY DEF PushBack
  <1>4. new[p] = Append(old, id)
    BY DEF PushBack
  <1>5. \A q \in DOMAIN map : q # p => new[q] = map[q]
    BY DEF PushBack
  <1> HIDE DEF new, old
  <1>6. IsIdMap(new)
    BY <1>2, <1>3, <1>4, <1>5 DEF IsIdMap
  <1>7. Lookup(new, p) = Append(old, id)
    BY <1>3, <1>4 DEF Lookup
  <1>8. \A q : q # p => Lookup(new, q) = Lookup(map, q)
    BY <1>3, <1>5 DEF Lookup
  <1>. QED  BY <1>1, <1>6, <1>7, <1>8 DEF new, old

\* The record of the last update stays or is dropped.
LEMMA Settled ==
  ASSUME ManagerTypeOK, Settle
  PROVE  /\ update' \in {NoUpdate, CrashedUpdate} \cup Updates
         /\ update' = NoUpdate \/ update' = update
  BY DEF ManagerTypeOK, Settle

LEMMA UnlockedTyped ==
  ASSUME NEW mutex \in Mutexes, mutex.count >= 1
  PROVE  /\ Unlocked1(mutex) \in Mutexes
         /\ \/ Unlocked1(mutex) = Free
            \/ /\ Unlocked1(mutex).holder = mutex.holder
               /\ mutex.count >= 2 /\ Unlocked1(mutex).count >= 1
  <1>1. CASE mutex.count = 1
    BY <1>1 DEF Unlocked1, Free, Mutexes
  <1>2. CASE mutex.count # 1
    <2>1. mutex.count - 1 \in Nat
      BY <1>2 DEF Mutexes
    <2>. QED  BY <1>2, <2>1 DEF Unlocked1, Mutexes
  <1>. QED  BY <1>1, <1>2

-----------------------------------------------------------------------------
(* StormManager: the mutex of a manager.                                   *)

\* t is between the lock and the end of a call at m.
Inside(t, m) == call[t].at \in {"socket", "identity", "store"} /\ call[t].m = m

\* t holds the mutex of m.
Held(m, t) == mgrMutex[m] # Free /\ mgrMutex[m].holder = t

\* The mutex is held by who is inside a call, or kept it; more than once only
\* by who kept it.
MutexInv ==
  /\ \A m \in Managers : mgrMutex[m] # Free =>
       mgrMutex[m].holder \in Apps /\ mgrMutex[m].count >= 1
  /\ \A m \in Managers, t \in Apps :
       Held(m, t) /\ (mgrMutex[m].count >= 2 \/ ~Inside(t, m)) => <<t, m>> \in kept
  /\ \A t \in Apps, m \in Managers : Inside(t, m) => Held(m, t)

LEMMA CallTyped ==
  ASSUME ManagerTypeOK, NEW t \in Apps, call[t].at \in {"lock", "socket", "identity", "store"}
  PROVE  call[t] \in InCalls
  BY DEF ManagerTypeOK, Idle, Ended

\* Steps that leave the mutex alone, and who is inside.
LEMMA MutexSame ==
  ASSUME MutexInv, UNCHANGED mutexVars,
         \A t \in Apps, m \in Managers : Inside(t, m)' <=> Inside(t, m)
  PROVE  MutexInv'
  BY DEF MutexInv, mutexVars, Held

\* A call at m ends and keeps the mutex.
LEMMA MutexStays ==
  ASSUME ManagerTypeOK, MutexInv, NEW t \in Apps, NEW m \in Managers, Inside(t, m),
         ReturnLocked(t), call' = [call EXCEPT ![t] = Idle]
  PROVE  MutexInv'
  <1>1. call[t].m = m /\ kept' = kept \cup {<<t, m>>} /\ mgrMutex' = mgrMutex
    BY DEF ReturnLocked, Inside
  <1>2. \A u \in Apps, k \in Managers : Inside(u, k)' <=> Inside(u, k) /\ u # t
    BY DEF ManagerTypeOK, Inside, Idle
  <1>3. ASSUME NEW k \in Managers, NEW u \in Apps, Held(k, u),
               mgrMutex[k].count >= 2 \/ ~Inside(u, k)'
        PROVE  <<u, k>> \in kept'
    <2>1. mgrMutex[k].count >= 2 \/ ~Inside(u, k) => <<u, k>> \in kept
      BY <1>3 DEF MutexInv
    <2>2. CASE u # t
      BY <1>1, <1>2, <1>3, <2>1, <2>2
    <2>3. CASE u = t /\ k = m
      BY <1>1, <2>3
    <2>4. CASE u = t /\ k # m
      <3>1. ~Inside(t, k)
        BY <2>4 DEF Inside
      <3>. QED  BY <1>1, <2>1, <2>4, <3>1
    <2>. QED  BY <2>2, <2>3, <2>4
  <1>4. \A u \in Apps, k \in Managers : Inside(u, k)' => Held(k, u)
    BY <1>2 DEF MutexInv
  <1>. QED  BY <1>1, <1>3, <1>4 DEF MutexInv, Held

\* A call at m ends and unlocks the mutex.
LEMMA MutexLeft ==
  ASSUME ManagerTypeOK, MutexInv, NEW t \in Apps, NEW m \in Managers, Inside(t, m),
         UnlockManager(m), UNCHANGED kept, call' = [call EXCEPT ![t] = Idle]
  PROVE  /\ MutexInv'
         /\ mgrMutex' \in [Managers -> Mutexes]
  <1>1. mgrMutex[m] # Free /\ mgrMutex[m].holder = t /\ mgrMutex[m].count >= 1
    BY DEF MutexInv, Held
  <1>2. /\ mgrMutex' = [mgrMutex EXCEPT ![m] = Unlocked1(mgrMutex[m])]
        /\ mgrMutex[m] \in Mutexes
        /\ kept' = kept
    BY DEF UnlockManager, ManagerTypeOK
  <1>3. /\ Unlocked1(mgrMutex[m]) \in Mutexes
        /\ \/ Unlocked1(mgrMutex[m]) = Free
           \/ /\ Unlocked1(mgrMutex[m]).holder = t
              /\ mgrMutex[m].count >= 2 /\ Unlocked1(mgrMutex[m]).count >= 1
    BY <1>1, <1>2, UnlockedTyped
  <1>4. mgrMutex' \in [Managers -> Mutexes]
    BY <1>2, <1>3 DEF ManagerTypeOK
  <1>5. mgrMutex'[m] = Unlocked1(mgrMutex[m]) /\ \A k \in Managers \ {m} : mgrMutex'[k] = mgrMutex[k]
    BY <1>2 DEF ManagerTypeOK
  <1>6. \A u \in Apps, k \in Managers : Inside(u, k)' <=> Inside(u, k) /\ u # t
    BY DEF ManagerTypeOK, Inside, Idle
  <1>7. ASSUME NEW k \in Managers, mgrMutex'[k] # Free
        PROVE  mgrMutex'[k].holder \in Apps /\ mgrMutex'[k].count >= 1
    BY <1>3, <1>5, <1>7 DEF MutexInv
  <1>8. ASSUME NEW k \in Managers, NEW u \in Apps, Held(k, u)',
               mgrMutex'[k].count >= 2 \/ ~Inside(u, k)'
        PROVE  <<u, k>> \in kept'
    <2>1. CASE k = m
      <3>1. u = t /\ mgrMutex[m].count >= 2
        BY <1>3, <1>5, <1>8, <2>1 DEF Held
      <3>2. Held(m, t)
        BY <1>1 DEF Held
      <3>. QED  BY <1>2, <2>1, <3>1, <3>2 DEF MutexInv
    <2>2. CASE k # m
      <3>1. mgrMutex'[k] = mgrMutex[k] /\ Held(k, u)
        BY <1>5, <1>8, <2>2 DEF Held
      <3>2. ~Inside(u, k)' => ~Inside(u, k)
        BY <1>6, <2>2 DEF Inside
      <3>. QED  BY <1>2, <1>8, <3>1, <3>2 DEF MutexInv
    <2>. QED  BY <2>1, <2>2
  <1>9. ASSUME NEW u \in Apps, NEW k \in Managers, Inside(u, k)'
        PROVE  Held(k, u)'
    <2>1. Inside(u, k) /\ u # t
      BY <1>6, <1>9
    <2>2. Held(k, u)
      BY <2>1 DEF MutexInv
    <2>3. k # m
      BY <1>1, <2>1, <2>2 DEF Held
    <2>. QED  BY <1>5, <2>2, <2>3 DEF Held
  <1>. QED  BY <1>4, <1>7, <1>8, <1>9 DEF MutexInv

LEMMA LockSafe ==
  ASSUME ManagerTypeOK, MutexInv, NEW t \in Apps, Lock(t)
  PROVE  ManagerTypeOK' /\ MutexInv'
  <1> DEFINE m == call[t].m
             c == [call[t] EXCEPT !.at = IF call[t].kind = "remote"
                                         THEN "identity" ELSE "socket"]
             x == [holder |-> t, count |-> mgrMutex[m].count + 1]
  <1>1. call[t] \in InCalls /\ m \in Managers
    <2>1. call[t] \in InCalls
      BY CallTyped DEF Lock
    <2>. QED  BY <2>1 DEF InCalls
  <1>2. /\ mgrMutex[m] = Free \/ mgrMutex[m].holder = t
        /\ mgrMutex' = [mgrMutex EXCEPT ![m] = x]
        /\ call' = [call EXCEPT ![t] = c]
        /\ kept' = kept
    BY DEF Lock
  <1>3. c \in InCalls /\ c.at \in {"socket", "identity"} /\ c.m = m
    BY <1>1 DEF InCalls
  <1>4. mgrMutex[m] \in Mutexes /\ mgrMutex[m].count \in Nat
    BY <1>1 DEF ManagerTypeOK, Mutexes
  <1>5. x \in Mutexes /\ x.holder = t /\ x.count = mgrMutex[m].count + 1
    BY <1>4 DEF Mutexes
  <1>6. call[t].at = "lock"
    BY DEF Lock
  <1> HIDE DEF c, x, m
  <1>7. call' \in [Apps -> {Idle, Ended} \cup InCalls]
    BY <1>2, <1>3 DEF ManagerTypeOK
  <1>8. mgrMutex' \in [Managers -> Mutexes]
    BY <1>1, <1>2, <1>5 DEF ManagerTypeOK
  <1>9. mgrMutex'[m] = x /\ \A k \in Managers \ {m} : mgrMutex'[k] = mgrMutex[k]
    BY <1>1, <1>2 DEF ManagerTypeOK
  <1>10. call'[t] = c /\ \A u \in Apps \ {t} : call'[u] = call[u]
    BY <1>2 DEF ManagerTypeOK
  <1>11. \A k \in Managers : ~Inside(t, k) /\ (Inside(t, k)' <=> k = m)
    BY <1>3, <1>6, <1>10 DEF Inside
  <1>12. \A u \in Apps \ {t}, k \in Managers : Inside(u, k)' <=> Inside(u, k)
    BY <1>10 DEF Inside
  <1>13. x # Free
    BY <1>4, <1>5 DEF Free
  <1>14. \A k \in Managers : mgrMutex'[k] # Free =>
           mgrMutex'[k].holder \in Apps /\ mgrMutex'[k].count >= 1
    BY <1>4, <1>5, <1>9 DEF MutexInv
  <1>15. ASSUME NEW k \in Managers, NEW u \in Apps, Held(k, u)',
                mgrMutex'[k].count >= 2 \/ ~Inside(u, k)'
         PROVE  <<u, k>> \in kept'
    <2>1. CASE k = m
      <3>1. u = t /\ Inside(u, k)'
        BY <1>1, <1>5, <1>9, <1>11, <1>15, <2>1 DEF Held
      <3>2. mgrMutex[m].count >= 1
        <4>1. mgrMutex'[k].count >= 2 /\ mgrMutex'[k] = x
          BY <1>9, <1>15, <2>1, <3>1
        <4>. QED  BY <1>4, <1>5, <4>1
      <3>3. mgrMutex[m] # Free
        BY <3>2 DEF Free
      <3>4. Held(m, t) /\ ~Inside(t, m)
        BY <1>1, <1>2, <1>11, <3>3 DEF Held
      <3>. QED  BY <1>1, <1>2, <2>1, <3>1, <3>4 DEF MutexInv
    <2>2. CASE k # m
      <3>1. mgrMutex'[k] = mgrMutex[k] /\ Held(k, u)
        BY <1>9, <1>15, <2>2 DEF Held
      <3>2. ~Inside(u, k)' => ~Inside(u, k)
        BY <1>11, <1>12
      <3>. QED  BY <1>2, <1>15, <3>1, <3>2 DEF MutexInv
    <2>. QED  BY <2>1, <2>2
  <1>16. ASSUME NEW u \in Apps, NEW k \in Managers, Inside(u, k)'
         PROVE  Held(k, u)'
    <2>1. CASE u = t
      <3>1. k = m
        BY <1>11, <1>16, <2>1
      <3>. QED  BY <1>5, <1>9, <1>13, <2>1, <3>1 DEF Held
    <2>2. CASE u # t
      <3>1. Held(k, u)
        BY <1>12, <1>16, <2>2 DEF MutexInv
      <3>2. k # m
        BY <1>2, <2>2, <3>1 DEF Held
      <3>. QED  BY <1>9, <3>1, <3>2 DEF Held
    <2>. QED  BY <2>1, <2>2
  <1>17. MutexInv'
    BY <1>14, <1>15, <1>16 DEF MutexInv
  <1>18. update' \in {NoUpdate, CrashedUpdate} \cup Updates
    BY Settled DEF Lock
  <1>19. UNCHANGED <<socketVars, mapVars, made>>
    BY DEF Lock
  <1>20. ManagerTypeOK'
    BY <1>7, <1>8, <1>18, <1>19 DEF ManagerTypeOK, socketVars, mapVars
  <1>. QED  BY <1>17, <1>20

LEMMA BeginCallSafe ==
  ASSUME ManagerTypeOK, MutexInv, NEW t \in Apps, NEW m \in Managers,
         NEW kind \in Kinds, NEW n \in Names, NEW null \in BOOLEAN,
         BeginCall(t, m, kind, n, null)
  PROVE  ManagerTypeOK' /\ MutexInv'
  <1> DEFINE c == [at |-> "lock", m |-> m, kind |-> kind, name |-> n,
                   id |-> IF null THEN 0 ELSE made']
  <1>1. call[t] = Idle /\ made' = made + 1 /\ made \in Nat
    BY DEF BeginCall, ManagerTypeOK
  <1>2. call' = [call EXCEPT ![t] = c] /\ UNCHANGED <<socketVars, mapVars, mutexVars>>
    BY DEF BeginCall
  <1>3. (IF null THEN 0 ELSE made') \in Nat
    BY <1>1
  <1>4. c \in InCalls /\ c.at = "lock"
    BY <1>3 DEF InCalls
  <1> HIDE DEF c
  <1>5. call' \in [Apps -> {Idle, Ended} \cup InCalls]
    BY <1>2, <1>4 DEF ManagerTypeOK
  <1>6. call'[t] = c /\ \A u \in Apps \ {t} : call'[u] = call[u]
    BY <1>2 DEF ManagerTypeOK
  <1>7. \A u \in Apps, k \in Managers : Inside(u, k)' <=> Inside(u, k)
    BY <1>1, <1>4, <1>6 DEF Inside, Idle
  <1>8. MutexInv'
    BY <1>2, <1>7, MutexSame
  <1>9. update' \in {NoUpdate, CrashedUpdate} \cup Updates
    BY Settled DEF BeginCall
  <1>10. ManagerTypeOK'
    BY <1>1, <1>2, <1>5, <1>9 DEF ManagerTypeOK, socketVars, mapVars, mutexVars
  <1>. QED  BY <1>8, <1>10

\* Steps that change neither calls nor maps.
LEMMA OtherSafe ==
  ASSUME ManagerTypeOK, MutexInv, UNCHANGED <<mapVars, mutexVars, call, lan>>,
         m_subscriberSocket' \in [Managers -> BOOLEAN], made' \in Nat,
         update' \in {NoUpdate, CrashedUpdate} \cup Updates
  PROVE  ManagerTypeOK' /\ MutexInv'
  <1>1. \A u \in Apps, k \in Managers : Inside(u, k)' <=> Inside(u, k)
    BY DEF Inside
  <1>2. MutexInv'
    BY <1>1, MutexSame
  <1>3. ManagerTypeOK'
    BY DEF ManagerTypeOK, mapVars, mutexVars
  <1>. QED  BY <1>2, <1>3

LEMMA SetSocketSafe ==
  ASSUME ManagerTypeOK, MutexInv, NEW m \in Managers, SetIckStormSubscriberSocket(m)
  PROVE  ManagerTypeOK' /\ MutexInv'
  <1>1. m_subscriberSocket' \in [Managers -> BOOLEAN] /\ made' \in Nat
    BY DEF SetIckStormSubscriberSocket, ManagerTypeOK, callVars
  <1>2. UNCHANGED <<mapVars, mutexVars, call, lan>> /\ Settle
    BY DEF SetIckStormSubscriberSocket, callVars
  <1>. QED  BY <1>1, <1>2, Settled, OtherSafe

LEMMA GetNodeInfoListSafe ==
  ASSUME ManagerTypeOK, MutexInv, NEW m \in Managers, NEW n \in Names,
         GetNodeInfoList(m, n)
  PROVE  ManagerTypeOK' /\ MutexInv'
  <1>1. m_subscriberSocket' \in [Managers -> BOOLEAN] /\ made' \in Nat
    BY DEF GetNodeInfoList, ManagerTypeOK, socketVars
  <1>2. UNCHANGED <<mapVars, mutexVars, call, lan>> /\ Settle
    BY DEF GetNodeInfoList, socketVars
  <1>. QED  BY <1>1, <1>2, Settled, OtherSafe

\* A call ends: its thread is idle, the maps are as they were.
LEMMA EndSafe ==
  ASSUME ManagerTypeOK, NEW t \in Apps, call' = [call EXCEPT ![t] = Idle], Settle,
         UNCHANGED <<socketVars, mapVars, made>>,
         mgrMutex' \in [Managers -> Mutexes]
  PROVE  ManagerTypeOK'
  <1>1. call' \in [Apps -> {Idle, Ended} \cup InCalls]
    BY DEF ManagerTypeOK
  <1>. QED  BY <1>1, Settled DEF ManagerTypeOK, socketVars, mapVars

LEMMA RefusedSafe ==
  ASSUME ManagerTypeOK, MutexInv, NEW t \in Apps, Refused(t)
  PROVE  ManagerTypeOK' /\ MutexInv'
  <1>0. PICK m \in Managers : m = call[t].m
    BY CallTyped DEF Refused, InCalls
  <1>1. Inside(t, m) /\ call' = [call EXCEPT ![t] = Idle]
    BY <1>0 DEF Refused, Inside
  <1>2. UNCHANGED <<socketVars, mapVars, made>> /\ Settle
    BY DEF Refused
  <1>3. CASE ObjectRefused(t)
    <2>1. MutexInv' /\ mgrMutex' \in [Managers -> Mutexes]
      BY <1>0, <1>1, <1>3, MutexLeft DEF ObjectRefused
    <2>. QED  BY <1>1, <1>2, <2>1, EndSafe
  <1>4. CASE CallbackRefused(t)
    <2>1. MutexInv' /\ mgrMutex' = mgrMutex
      BY <1>1, <1>4, MutexStays DEF CallbackRefused, ReturnLocked
    <2>2. mgrMutex' \in [Managers -> Mutexes]
      BY <2>1 DEF ManagerTypeOK
    <2>. QED  BY <1>1, <1>2, <2>1, <2>2, EndSafe
  <1>. QED  BY <1>3, <1>4 DEF Refused

\* A call goes on to its next step.
LEMMA GoesOnSafe ==
  ASSUME ManagerTypeOK, MutexInv, NEW t \in Apps,
         call[t].at \in {"socket", "identity"},
         call' = [call EXCEPT ![t].at = "store"], Settle,
         UNCHANGED <<socketVars, mapVars, mutexVars, made>>
  PROVE  ManagerTypeOK' /\ MutexInv'
  <1> DEFINE c == [call[t] EXCEPT !.at = "store"]
  <1>1. c \in InCalls /\ c.m = call[t].m /\ c.at = "store"
    BY CallTyped DEF InCalls
  <1>2. call' = [call EXCEPT ![t] = c]
    OBVIOUS
  <1> HIDE DEF c
  <1>3. call' \in [Apps -> {Idle, Ended} \cup InCalls]
    BY <1>1, <1>2 DEF ManagerTypeOK
  <1>4. call'[t] = c /\ \A u \in Apps \ {t} : call'[u] = call[u]
    BY <1>2 DEF ManagerTypeOK
  <1>5. \A u \in Apps, k \in Managers : Inside(u, k)' <=> Inside(u, k)
    BY <1>1, <1>4 DEF Inside
  <1>6. MutexInv'
    BY <1>5, MutexSame
  <1>7. ManagerTypeOK'
    BY <1>3, Settled DEF ManagerTypeOK, socketVars, mapVars, mutexVars
  <1>. QED  BY <1>6, <1>7

LEMMA RequestsSafe ==
  ASSUME ManagerTypeOK, MutexInv, NEW t \in Apps, Requests(t)
  PROVE  ManagerTypeOK' /\ MutexInv'
  BY GoesOnSafe DEF Requests

LEMMA IdentitySafe ==
  ASSUME ManagerTypeOK, MutexInv, NEW t \in Apps, Identity(t)
  PROVE  ManagerTypeOK' /\ MutexInv'
  <1>0. PICK m \in Managers : m = call[t].m
    BY CallTyped DEF Identity, InCalls
  <1>1. Inside(t, m)
    BY <1>0 DEF Identity, Inside
  <1>2. UNCHANGED <<socketVars, mapVars, made>> /\ Settle /\ call[t].at = "identity"
    BY DEF Identity
  <1>3. CASE ReturnLocked(t) /\ call' = [call EXCEPT ![t] = Idle]
    <2>1. MutexInv' /\ mgrMutex' = mgrMutex
      BY <1>1, <1>3, MutexStays DEF ReturnLocked
    <2>2. mgrMutex' \in [Managers -> Mutexes]
      BY <2>1 DEF ManagerTypeOK
    <2>. QED  BY <1>2, <1>3, <2>1, <2>2, EndSafe
  <1>4. CASE call' = [call EXCEPT ![t].at = "store"] /\ UNCHANGED <<mutexVars>>
    BY <1>2, <1>4, GoesOnSafe
  <1>. QED  BY <1>3, <1>4 DEF Identity

LEMMA StoreSafe ==
  ASSUME ManagerTypeOK, MutexInv, NEW t \in Apps, Store(t)
  PROVE  ManagerTypeOK' /\ MutexInv'
  <1>0. PICK m \in Managers : m = call[t].m
    BY CallTyped DEF Store, InCalls
  <1>1. Inside(t, m) /\ call' = [call EXCEPT ![t] = Idle] /\ UNCHANGED kept /\ UnlockManager(m)
    BY <1>0 DEF Store, Inside
  <1>2. MutexInv' /\ mgrMutex' \in [Managers -> Mutexes]
    BY <1>1, MutexLeft
  <1>3. UNCHANGED <<socketVars, made>> /\ Settle
    BY DEF Store
  <1>4. CASE call[t].id = 0
    <2>1. UNCHANGED mapVars
      BY <1>4 DEF Store
    <2>. QED  BY <1>1, <1>2, <1>3, <2>1, EndSafe
  <1>5. CASE call[t].id # 0
    <2> DEFINE c == call[t]
               p == Path(c.name)
    <2>1. c \in InCalls /\ c.id \in Nat
      BY CallTyped DEF Store, InCalls
    <2>2. registered' \in Seq(Registrations)
      <3>1. [m |-> c.m, name |-> c.name, object |-> c.kind = "object", id |-> c.id]
              \in Registrations
        BY <2>1 DEF InCalls, Registrations
      <3>2. registered' = Append(registered, [m |-> c.m, name |-> c.name,
                                   object |-> c.kind = "object", id |-> c.id])
        BY <1>5 DEF Store
      <3>. QED  BY <3>1, <3>2 DEF ManagerTypeOK
    <2>3. /\ DOMAIN m_callbacks' = Managers /\ DOMAIN m_subscriberCallBack' = Managers
          /\ \A k \in Managers : IsIdMap(m_callbacks'[k]) /\ IsIdMap(m_subscriberCallBack'[k])
      <3>1. IsIdMap(PushBack(m_callbacks[m], p, c.id))
        BY <2>1, Pushed DEF ManagerTypeOK
      <3>2. IsIdMap(PushBack(m_subscriberCallBack[m], p, c.id))
        BY <2>1, Pushed DEF ManagerTypeOK
      <3>3. \/ /\ m_subscriberCallBack' = [m_subscriberCallBack EXCEPT ![m] =
                                             PushBack(m_subscriberCallBack[m], p, c.id)]
               /\ UNCHANGED m_callbacks
            \/ /\ m_callbacks' = [m_callbacks EXCEPT ![m] =
                                    PushBack(m_callbacks[m], p, c.id)]
               /\ UNCHANGED m_subscriberCallBack
        BY <1>0, <1>5 DEF Store
      <3> HIDE DEF c, p
      <3>. QED  BY <3>1, <3>2, <3>3 DEF ManagerTypeOK
    <2>4. call' \in [Apps -> {Idle, Ended} \cup InCalls]
      BY <1>1 DEF ManagerTypeOK
    <2>. QED  BY <1>2, <1>3, <2>2, <2>3, <2>4, Settled DEF ManagerTypeOK, socketVars
  <1>. QED  BY <1>4, <1>5

LEMMA ThreadEndsSafe ==
  ASSUME ManagerTypeOK, MutexInv, NEW t \in Apps, ThreadEnds(t)
  PROVE  ManagerTypeOK' /\ MutexInv'
  <1>1. /\ call[t] = Idle /\ call' = [call EXCEPT ![t].at = "ended"]
        /\ mgrMutex' = [m \in Managers |-> IF mgrMutex[m].holder = t THEN Free
                                           ELSE mgrMutex[m]]
        /\ kept' = {k \in kept : k[1] # t}
        /\ UNCHANGED <<socketVars, mapVars, made>> /\ Settle
    BY DEF ThreadEnds
  <1>2. [call[t] EXCEPT !.at = "ended"] = Ended
    BY <1>1 DEF Idle, Ended
  <1>3. call' = [call EXCEPT ![t] = Ended]
    BY <1>1, <1>2
  <1>4. call'[t] = Ended /\ \A u \in Apps \ {t} : call'[u] = call[u]
    BY <1>3 DEF ManagerTypeOK
  <1>5. \A u \in Apps, m \in Managers : Inside(u, m)' <=> Inside(u, m)
    BY <1>1, <1>4 DEF Inside, Idle, Ended
  <1>6. \A u \in Apps, m \in Managers : Held(m, u)' <=> Held(m, u) /\ u # t
    BY <1>1 DEF Held
  <1>7. \A u \in Apps, m \in Managers : u # t /\ <<u, m>> \in kept => <<u, m>> \in kept'
    BY <1>1
  <1>8. \A m \in Managers : mgrMutex'[m] # Free => mgrMutex'[m] = mgrMutex[m]
    BY <1>1
  <1>9. \A m \in Managers : ~Inside(t, m)
    BY <1>1 DEF Inside, Idle
  <1>10. MutexInv'
    <2>1. \A m \in Managers : mgrMutex'[m] # Free =>
            mgrMutex'[m].holder \in Apps /\ mgrMutex'[m].count >= 1
      BY <1>8 DEF MutexInv
    <2>2. ASSUME NEW m \in Managers, NEW u \in Apps, Held(m, u)',
                 mgrMutex'[m].count >= 2 \/ ~Inside(u, m)'
          PROVE  <<u, m>> \in kept'
      <3>1. Held(m, u) /\ u # t /\ mgrMutex'[m] = mgrMutex[m]
        BY <1>6, <1>8, <2>2 DEF Held
      <3>. QED  BY <1>5, <1>7, <2>2, <3>1 DEF MutexInv
    <2>3. \A u \in Apps, m \in Managers : Inside(u, m)' => Held(m, u)'
      BY <1>5, <1>6, <1>9 DEF MutexInv
    <2>. QED  BY <2>1, <2>2, <2>3 DEF MutexInv
  <1>11. mgrMutex' \in [Managers -> Mutexes]
    BY <1>1 DEF ManagerTypeOK, Free, Mutexes
  <1>12. call' \in [Apps -> {Idle, Ended} \cup InCalls]
    BY <1>3 DEF ManagerTypeOK
  <1>13. ManagerTypeOK'
    BY <1>1, <1>11, <1>12, Settled DEF ManagerTypeOK, socketVars, mapVars
  <1>. QED  BY <1>10, <1>13

\* What the lookups return.
LEMMA Found ==
  ASSUME ManagerTypeOK, NEW p
  PROVE  /\ Lookup(m_callbacks[Delivering], p) \in Seq(Nat)
         /\ Lookup(m_subscriberCallBack[Delivering], p) \in Seq(Nat)
  <1>1. Delivering \in Managers
    BY DEF Delivering, Managers
  <1>. QED  BY <1>1 DEF ManagerTypeOK, IsIdMap, Lookup

LEMMA HandleUpdateSafe ==
  ASSUME ManagerTypeOK, MutexInv, NEW n \in Names, HandleUpdate(n)
  PROVE  ManagerTypeOK' /\ MutexInv'
  <1>1. GetSubscriberCallBackList(n) \in Seq(Nat)
    <2>1. Delivering \in Managers
      BY DEF Delivering, Managers
    <2>. QED  BY <2>1, Found DEF GetSubscriberCallBackList, ManagerTypeOK, IsIdMap
  <1>2. Len(registered) \in Nat /\ (~Racing) \in BOOLEAN
    BY DEF ManagerTypeOK, Racing
  <1>3. update' \in {NoUpdate, CrashedUpdate} \cup Updates
    <2>1. CASE update' = [at |-> "crashed"]
      BY <2>1 DEF CrashedUpdate
    <2>2. CASE update' = [at |-> "callbacks", name |-> n, clean |-> ~Racing,
                          called |-> GetSubscriberCallBackList(n),
                          seen |-> Len(registered), after |-> Len(registered)]
      <3>1. PICK clean \in BOOLEAN : clean = ~Racing
        BY <1>2
      <3>2. update' = [at |-> "callbacks", name |-> n, clean |-> clean,
                       called |-> GetSubscriberCallBackList(n),
                       seen |-> Len(registered), after |-> Len(registered)]
        BY <2>2, <3>1, Zenon
      <3>. QED  BY <1>1, <1>2, <3>2 DEF Updates
    <2>. QED  BY <2>1, <2>2 DEF HandleUpdate
  <1>4. /\ UNCHANGED <<mapVars, mutexVars, call, lan>>
        /\ m_subscriberSocket' \in [Managers -> BOOLEAN] /\ made' \in Nat
    BY DEF HandleUpdate, ManagerTypeOK, socketVars, callVars
  <1>. QED  BY <1>3, <1>4, OtherSafe

LEMMA HandleObjectsSafe ==
  ASSUME ManagerTypeOK, MutexInv, HandleObjects
  PROVE  ManagerTypeOK' /\ MutexInv'
  <1>1. update \in Updates
    BY DEF HandleObjects, ManagerTypeOK, NoUpdate, CrashedUpdate
  <1>2. GetSubscriberList(update.name) \in Seq(Nat)
    BY Found DEF GetSubscriberList
  <1>3. Len(registered) \in Nat /\ (update.clean /\ ~Racing) \in BOOLEAN
    BY DEF ManagerTypeOK, Racing
  <1>4. update.called \o GetSubscriberList(update.name) \in Seq(Nat)
    BY <1>1, <1>2 DEF Updates
  <1>5. update' \in Updates
    BY <1>1, <1>3, <1>4 DEF HandleObjects, Updates
  <1>6. /\ UNCHANGED <<mapVars, mutexVars, call, lan>>
        /\ m_subscriberSocket' \in [Managers -> BOOLEAN] /\ made' \in Nat
    BY DEF HandleObjects, ManagerTypeOK, socketVars, callVars
  <1>. QED  BY <1>5, <1>6, OtherSafe

-----------------------------------------------------------------------------
(* StormManager: who is called.                                            *)

\* The paths that are looked up.
LookupPaths == {Path(n) : n \in Names} \cup {Path(Node(n)) : n \in Names}

\* The lists of the manager are those of the registrations, path by path.
ListInv ==
  \A p \in LookupPaths :
    /\ Lists(registered, Lookup(m_callbacks[Delivering], p),
             CallbacksFor(registered, Len(registered), p))
    /\ Lists(registered, Lookup(m_subscriberCallBack[Delivering], p),
             ObjectsFor(registered, Len(registered), p))

\* The callbacks of a channel, or those of its node.
Wanted(rs, n, name) ==
  IF CallbacksFor(rs, n, Path(name)) # {} THEN CallbacksFor(rs, n, Path(name))
  ELSE CallbacksFor(rs, n, Path(Node(name)))

\* What an update has called so far.
UpdateInv ==
  /\ update.at = "callbacks" =>
       /\ update.seen \in 0 .. Len(registered)
       /\ Lists(registered, update.called,
                Wanted(registered, update.seen, update.name))
  /\ update.at = "done" =>
       \E k \in 0 .. Len(update.called) :
         /\ Lists(registered, SubSeq(update.called, 1, k),
                  Wanted(registered, update.seen, update.name))
         /\ Lists(registered, SubSeq(update.called, k + 1, Len(update.called)),
                  ObjectsFor(registered, update.after, Path(update.name)))

ManagerInv == ManagerTypeOK /\ MutexInv /\ ListInv /\ UpdateInv

LEMMA NamesAreTexts ==
  ASSUME NEW n \in Names
  PROVE  n \in Seq(STRING) /\ Path(n) \in LookupPaths /\ Path(Node(n)) \in LookupPaths
  BY StormManagerAssumption DEF LookupPaths

\* Registrations that are not changed, and an update that stays or is dropped.
LEMMA ListsSame ==
  ASSUME ManagerTypeOK, ListInv, UpdateInv, Settle, UNCHANGED mapVars
  PROVE  ListInv' /\ UpdateInv'
  <1>1. ListInv'
    BY DEF ListInv, mapVars
  <1>2. CASE update' = update
    BY <1>1, <1>2 DEF UpdateInv, mapVars
  <1>3. CASE update' = NoUpdate
    BY <1>1, <1>3 DEF UpdateInv, NoUpdate
  <1>. QED  BY <1>1, <1>2, <1>3, Settled

\* An empty list names no registration, any other list does.
LEMMA ListsEmpty ==
  ASSUME NEW rs, NEW ids \in Seq(Nat), NEW S, Lists(rs, ids, S)
  PROVE  S = {} <=> ids = <<>>
  <1>1. PICK p \in [1 .. Len(ids) -> S] :
          \A i \in S : \E j \in 1 .. Len(ids) : p[j] = i
    BY DEF Lists
  <1>2. CASE ids = <<>>
    <2>1. 1 .. Len(ids) = {}
      BY <1>2
    <2>. QED  BY <1>1, <1>2, <2>1
  <1>3. CASE ids # <<>>
    <2>1. 1 \in 1 .. Len(ids)
      BY <1>3
    <2>. QED  BY <1>1, <1>3, <2>1
  <1>. QED  BY <1>2, <1>3

LEMMA StoreLists ==
  ASSUME ManagerTypeOK, ListInv, UpdateInv, NEW t \in Apps, Store(t)
  PROVE  ListInv' /\ UpdateInv'
  <1>1. CASE call[t].id = 0
    BY <1>1, ListsSame DEF Store
  <1>2. CASE call[t].id # 0
    <2>0. call[t] \in InCalls
      BY CallTyped DEF Store
    <2>1. PICK r : r = [m |-> call[t].m, name |-> call[t].name,
                        object |-> call[t].kind = "object", id |-> call[t].id]
      OBVIOUS
    <2>2. r \in Registrations /\ r.id = call[t].id /\ r.m = call[t].m /\ r.name = call[t].name
      BY <2>0, <2>1 DEF InCalls, Registrations
    <2>3. r.object <=> call[t].kind = "object"
      BY <2>1
    <2>4. registered' = Append(registered, r) /\ registered \in Seq(Registrations)
      BY <1>2, <2>1 DEF Store, ManagerTypeOK
    <2>5. Len(registered') = Len(registered) + 1 /\ Len(registered) \in Nat
      BY <2>2, <2>4
    <2>6. Delivering \in Managers
      BY DEF Delivering, Managers
    <2>7. /\ IsIdMap(m_callbacks[Delivering]) /\ IsIdMap(m_subscriberCallBack[Delivering])
          /\ r.id \in Nat
      BY <2>2, <2>6 DEF ManagerTypeOK, Registrations
    <2>8. /\ r.m = Delivering /\ ~r.object
               => m_callbacks'[Delivering] =
                    PushBack(m_callbacks[Delivering], Path(r.name), r.id)
          /\ ~(r.m = Delivering /\ ~r.object)
               => m_callbacks'[Delivering] = m_callbacks[Delivering]
      BY <1>2, <2>2, <2>3, <2>6 DEF Store, ManagerTypeOK
    <2>9. /\ r.m = Delivering /\ r.object
               => m_subscriberCallBack'[Delivering] =
                    PushBack(m_subscriberCallBack[Delivering], Path(r.name), r.id)
          /\ ~(r.m = Delivering /\ r.object)
               => m_subscriberCallBack'[Delivering] = m_subscriberCallBack[Delivering]
      BY <1>2, <2>2, <2>3, <2>6 DEF Store, ManagerTypeOK
    <2>10. ASSUME NEW p \in LookupPaths
           PROVE  Lists(registered', Lookup(m_callbacks'[Delivering], p),
                        CallbacksFor(registered', Len(registered'), p))
      <3> DEFINE old == Lookup(m_callbacks[Delivering], p)
                 S == CallbacksFor(registered, Len(registered), p)
      <3>1. Lists(registered, old, S) /\ old \in Seq(Nat)
        BY Found DEF ListInv
      <3>2. S \in SUBSET (1 .. Len(registered))
        BY <2>2, <2>4, <2>5, FirstKept
      <3>3. /\ r.m = Delivering /\ ~r.object /\ Path(r.name) = p
                 => CallbacksFor(registered', Len(registered'), p) =
                      S \union {Len(registered) + 1}
            /\ ~(r.m = Delivering /\ ~r.object /\ Path(r.name) = p)
                 => CallbacksFor(registered', Len(registered'), p) = S
        <4>1. CallbacksFor(registered', Len(registered'), p) =
                CallbacksFor(Append(registered, r), Len(registered) + 1, p)
          BY <2>4, <2>5
        <4>2. /\ r.m = Delivering /\ ~r.object /\ Path(r.name) = p
                   => CallbacksFor(Append(registered, r), Len(registered) + 1, p) =
                        S \union {Len(registered) + 1}
              /\ ~(r.m = Delivering /\ ~r.object /\ Path(r.name) = p)
                   => CallbacksFor(Append(registered, r), Len(registered) + 1, p) = S
          <5> HIDE DEF S
          <5>. QED  BY <2>2, <2>4, OneMore DEF S
        <4> HIDE DEF S
        <4>. QED  BY <4>1, <4>2
      <3> HIDE DEF S
      <3>4. CASE r.m = Delivering /\ ~r.object /\ Path(r.name) = p
        <4>1. Lookup(m_callbacks'[Delivering], p) = Append(old, r.id)
          BY <2>7, <2>8, <3>4, Pushed
        <4>2. Lists(Append(registered, r), Append(old, r.id),
                    S \union {Len(registered) + 1})
          BY <2>2, <2>4, <3>1, <3>2, ListsAppend
        <4>. QED  BY <2>4, <3>3, <3>4, <4>1, <4>2
      <3>5. CASE ~(r.m = Delivering /\ ~r.object /\ Path(r.name) = p)
        <4>1. Lookup(m_callbacks'[Delivering], p) = old
          BY <2>7, <2>8, <3>5, Pushed
        <4>. QED  BY <2>2, <2>4, <3>1, <3>2, <3>3, <3>5, <4>1, ListsStay
      <3>. QED  BY <3>4, <3>5
    <2>11. ASSUME NEW p \in LookupPaths
           PROVE  Lists(registered', Lookup(m_subscriberCallBack'[Delivering], p),
                        ObjectsFor(registered', Len(registered'), p))
      <3> DEFINE old == Lookup(m_subscriberCallBack[Delivering], p)
                 S == ObjectsFor(registered, Len(registered), p)
      <3>1. Lists(registered, old, S) /\ old \in Seq(Nat)
        BY Found DEF ListInv
      <3>2. S \in SUBSET (1 .. Len(registered))
        BY <2>2, <2>4, <2>5, FirstKept
      <3>3. /\ r.m = Delivering /\ r.object /\ Path(r.name) = p
                 => ObjectsFor(registered', Len(registered'), p) =
                      S \union {Len(registered) + 1}
            /\ ~(r.m = Delivering /\ r.object /\ Path(r.name) = p)
                 => ObjectsFor(registered', Len(registered'), p) = S
        <4>1. ObjectsFor(registered', Len(registered'), p) =
                ObjectsFor(Append(registered, r), Len(registered) + 1, p)
          BY <2>4, <2>5
        <4>2. /\ r.m = Delivering /\ r.object /\ Path(r.name) = p
                   => ObjectsFor(Append(registered, r), Len(registered) + 1, p) =
                        S \union {Len(registered) + 1}
              /\ ~(r.m = Delivering /\ r.object /\ Path(r.name) = p)
                   => ObjectsFor(Append(registered, r), Len(registered) + 1, p) = S
          <5> HIDE DEF S
          <5>. QED  BY <2>2, <2>4, OneMore DEF S
        <4> HIDE DEF S
        <4>. QED  BY <4>1, <4>2
      <3> HIDE DEF S
      <3>4. CASE r.m = Delivering /\ r.object /\ Path(r.name) = p
        <4>1. Lookup(m_subscriberCallBack'[Delivering], p) = Append(old, r.id)
          BY <2>7, <2>9, <3>4, Pushed
        <4>2. Lists(Append(registered, r), Append(old, r.id),
                    S \union {Len(registered) + 1})
          BY <2>2, <2>4, <3>1, <3>2, ListsAppend
        <4>. QED  BY <2>4, <3>3, <3>4, <4>1, <4>2
      <3>5. CASE ~(r.m = Delivering /\ r.object /\ Path(r.name) = p)
        <4>1. Lookup(m_subscriberCallBack'[Delivering], p) = old
          BY <2>7, <2>9, <3>5, Pushed
        <4>. QED  BY <2>2, <2>4, <3>1, <3>2, <3>3, <3>5, <4>1, ListsStay
      <3>. QED  BY <3>4, <3>5
    <2>12. ListInv'
      BY <2>10, <2>11 DEF ListInv
    <2>13. UpdateInv'
      <3>1. CASE update.at = "callbacks"
        <4>1. update \in Updates /\ update' = update
          BY <3>1 DEF ManagerTypeOK, NoUpdate, CrashedUpdate, Store, Settle
        <4>2. /\ update.called \in Seq(Nat) /\ update.seen \in 0 .. Len(registered)
              /\ Lists(registered, update.called,
                       Wanted(registered, update.seen, update.name))
          BY <3>1, <4>1 DEF UpdateInv, Updates
        <4>3. /\ Wanted(registered', update.seen, update.name) =
                   Wanted(registered, update.seen, update.name)
              /\ Wanted(registered, update.seen, update.name) \in SUBSET (1 .. Len(registered))
          BY <2>2, <2>4, <4>2, FirstKept DEF Wanted
        <4>4. Lists(registered', update.called,
                    Wanted(registered, update.seen, update.name))
          BY <2>2, <2>4, <4>2, <4>3, ListsStay
        <4>5. update.seen \in 0 .. Len(registered')
          BY <2>5, <4>2
        <4>. QED  BY <3>1, <4>1, <4>3, <4>4, <4>5 DEF UpdateInv
      <3>2. CASE update.at # "callbacks"
        <4>1. update'.at \notin {"callbacks", "done"}
          BY <3>2 DEF ManagerTypeOK, NoUpdate, CrashedUpdate, Store, Settle, Updates
        <4>. QED  BY <4>1 DEF UpdateInv
      <3>. QED  BY <3>1, <3>2
    <2>. QED  BY <2>12, <2>13
  <1>. QED  BY <1>1, <1>2

LEMMA HandleUpdateLists ==
  ASSUME ManagerTypeOK, ListInv, NEW n \in Names, HandleUpdate(n)
  PROVE  ListInv' /\ UpdateInv'
  <1>1. registered' = registered /\ ListInv'
    BY DEF HandleUpdate, ListInv, mapVars
  <1>2. CASE update' = [at |-> "crashed"]
    BY <1>1, <1>2 DEF UpdateInv
  <1>3. CASE update' = [at |-> "callbacks", name |-> n, clean |-> ~Racing,
                        called |-> GetSubscriberCallBackList(n),
                        seen |-> Len(registered), after |-> Len(registered)]
    <2> DEFINE map == m_callbacks[Delivering]
               len == Len(registered)
    <2>1. Path(n) \in LookupPaths /\ Path(Node(n)) \in LookupPaths
      BY NamesAreTexts
    <2>2. /\ Lists(registered, Lookup(map, Path(n)), CallbacksFor(registered, len, Path(n)))
          /\ Lists(registered, Lookup(map, Path(Node(n))),
                   CallbacksFor(registered, len, Path(Node(n))))
      BY <2>1 DEF ListInv
    <2>3. Lookup(map, Path(n)) \in Seq(Nat)
      BY Found
    <2>4. CallbacksFor(registered, len, Path(n)) = {} <=> Lookup(map, Path(n)) = <<>>
      BY <2>2, <2>3, ListsEmpty
    <2>5. Path(n) \in DOMAIN map <=> Lookup(map, Path(n)) # <<>>
      <3>1. Delivering \in Managers
        BY DEF Delivering, Managers
      <3>. QED  BY <3>1 DEF ManagerTypeOK, IsIdMap, Lookup
    <2>6. Lists(registered, GetSubscriberCallBackList(n), Wanted(registered, len, n))
      BY <2>2, <2>4, <2>5 DEF GetSubscriberCallBackList, Lookup, Wanted
    <2>7. len \in 0 .. len
      BY DEF ManagerTypeOK
    <2>. QED  BY <1>1, <1>3, <2>6, <2>7 DEF UpdateInv
  <1>. QED  BY <1>2, <1>3 DEF HandleUpdate

\* A list and what follows it are found again in the two together.
LEMMA Parts ==
  ASSUME NEW a \in Seq(Nat), NEW b \in Seq(Nat)
  PROVE  /\ SubSeq(a \o b, 1, Len(a)) = a
         /\ SubSeq(a \o b, Len(a) + 1, Len(a \o b)) = b
         /\ Len(a) \in 0 .. Len(a \o b)
  OBVIOUS

LEMMA HandleObjectsLists ==
  ASSUME ManagerTypeOK, ListInv, UpdateInv, HandleObjects
  PROVE  ListInv' /\ UpdateInv'
  <1>1. registered' = registered /\ ListInv'
    BY DEF HandleObjects, ListInv, mapVars
  <1>2. update \in Updates /\ update.at = "callbacks"
    BY DEF HandleObjects, ManagerTypeOK, NoUpdate, CrashedUpdate
  <1>3. PICK a \in Seq(Nat), b \in Seq(Nat) :
          a = update.called /\ b = GetSubscriberList(update.name)
    BY <1>2, Found DEF GetSubscriberList, Updates
  <1>4. /\ update'.at = "done" /\ update'.name = update.name /\ update'.seen = update.seen
        /\ update'.called = a \o b /\ update'.after = Len(registered)
    BY <1>2, <1>3 DEF HandleObjects, Updates
  <1>5. Lists(registered, a, Wanted(registered, update.seen, update.name))
    BY <1>2, <1>3 DEF UpdateInv
  <1>6. Lists(registered, b, ObjectsFor(registered, Len(registered), Path(update.name)))
    <2>1. Path(update.name) \in LookupPaths
      BY <1>2, NamesAreTexts DEF Updates
    <2>. QED  BY <1>3, <2>1 DEF ListInv, GetSubscriberList
  <1>7. /\ SubSeq(a \o b, 1, Len(a)) = a
        /\ SubSeq(a \o b, Len(a) + 1, Len(a \o b)) = b
        /\ Len(a) \in 0 .. Len(a \o b)
    BY Parts
  <1>8. \E k \in 0 .. Len(update'.called) :
          /\ Lists(registered, SubSeq(update'.called, 1, k),
                   Wanted(registered, update.seen, update.name))
          /\ Lists(registered, SubSeq(update'.called, k + 1, Len(update'.called)),
                   ObjectsFor(registered, Len(registered), Path(update.name)))
    <2>1. /\ Lists(registered, SubSeq(update'.called, 1, Len(a)),
                   Wanted(registered, update.seen, update.name))
          /\ Lists(registered, SubSeq(update'.called, Len(a) + 1, Len(update'.called)),
                   ObjectsFor(registered, Len(registered), Path(update.name)))
          /\ Len(a) \in 0 .. Len(update'.called)
      BY <1>4, <1>5, <1>6, <1>7
    <2>. QED  BY <2>1
  <1>9. "done" # "callbacks"
    OBVIOUS
  <1>. QED  BY <1>1, <1>4, <1>8, <1>9 DEF UpdateInv

-----------------------------------------------------------------------------
(* StormManager: the invariant and the theorems.                           *)

LEMMA ManagerInvInit ==
  ASSUME ManagerInit
  PROVE  ManagerInv
  <1>1. Free \in Mutexes
    BY DEF Free, Mutexes
  <1>2. IsIdMap(<<>>)
    BY DEF IsIdMap
  <1>3. Delivering \in Managers
    BY DEF Delivering, Managers
  <1>4. ManagerTypeOK
    BY <1>1, <1>2 DEF ManagerInit, ManagerTypeOK
  <1>5. MutexInv
    BY DEF ManagerInit, MutexInv, Held, Inside, Idle
  <1>6. ListInv
    <2>1. registered = <<>> /\ Len(registered) = 0
      BY DEF ManagerInit
    <2>2. \A p : CallbacksFor(registered, 0, p) = {} /\ ObjectsFor(registered, 0, p) = {}
      BY DEF CallbacksFor, ObjectsFor, CallbacksAt, ObjectsAt
    <2>3. \A p : /\ Lookup(m_callbacks[Delivering], p) = <<>>
                 /\ Lookup(m_subscriberCallBack[Delivering], p) = <<>>
      BY <1>3 DEF ManagerInit, Lookup
    <2>. QED  BY <2>1, <2>2, <2>3, ListsNone DEF ListInv
  <1>7. UpdateInv
    BY DEF ManagerInit, UpdateInv, NoUpdate
  <1>. QED  BY <1>4, <1>5, <1>6, <1>7 DEF ManagerInv

LEMMA ManagerInvNext ==
  ASSUME ManagerInv, [ManagerNext]_managerVars
  PROVE  ManagerInv'
  <1> USE DEF ManagerInv
  <1>0. Delivering \in Managers /\ "IckStormManager" \in Managers
    BY DEF Delivering, Managers
  <1>1. ASSUME NEW t \in Apps, NEW m \in Managers, NEW kind \in Kinds,
               NEW n \in Names, NEW null \in BOOLEAN, BeginCall(t, m, kind, n, null)
        PROVE  ManagerInv'
    <2>1. UNCHANGED mapVars /\ Settle
      BY <1>1 DEF BeginCall
    <2>. QED  BY <1>1, <2>1, BeginCallSafe, ListsSame
  <1>2. ASSUME NEW m \in Managers, SetIckStormSubscriberSocket(m)
        PROVE  ManagerInv'
    <2>1. UNCHANGED mapVars /\ Settle
      BY <1>2 DEF SetIckStormSubscriberSocket
    <2>. QED  BY <1>2, <2>1, SetSocketSafe, ListsSame
  <1>3. ASSUME NEW t \in Apps, NEW n \in Names, NEW null \in BOOLEAN,
               SubscribeWithCallBack(t, n, null)
        PROVE  ManagerInv'
    BY <1>0, <1>1, <1>3 DEF SubscribeWithCallBack, SubscribeCallback, SubscribeRemote, Kinds
  <1>4. ASSUME NEW t \in Apps, NEW n \in Names, SubscribeObject(t, n)
        PROVE  ManagerInv'
    BY <1>0, <1>1, <1>4 DEF SubscribeObject, Kinds
  <1>5. ASSUME NEW t \in Apps, NEW n \in CopyNames,
               ManagerCallback(t, n) \/ ManagerObject(t, n) \/ ManagerRemote(t, n)
        PROVE  ManagerInv'
    <2>1. n \in Names
      BY StormManagerAssumption
    <2>. QED  BY <1>0, <1>1, <1>5, <2>1 DEF ManagerCallback, ManagerObject, ManagerRemote, Kinds
  <1>6. ASSUME NEW t \in Apps, Lock(t)
        PROVE  ManagerInv'
    <2>1. UNCHANGED mapVars /\ Settle
      BY <1>6 DEF Lock
    <2>. QED  BY <1>6, <2>1, LockSafe, ListsSame
  <1>7. ASSUME NEW t \in Apps, Refused(t)
        PROVE  ManagerInv'
    <2>1. UNCHANGED mapVars /\ Settle
      BY <1>7 DEF Refused
    <2>. QED  BY <1>7, <2>1, RefusedSafe, ListsSame
  <1>8. ASSUME NEW t \in Apps, Requests(t)
        PROVE  ManagerInv'
    <2>1. UNCHANGED mapVars /\ Settle
      BY <1>8 DEF Requests
    <2>. QED  BY <1>8, <2>1, RequestsSafe, ListsSame
  <1>9. ASSUME NEW t \in Apps, Identity(t)
        PROVE  ManagerInv'
    <2>1. UNCHANGED mapVars /\ Settle
      BY <1>9 DEF Identity
    <2>. QED  BY <1>9, <2>1, IdentitySafe, ListsSame
  <1>10. ASSUME NEW t \in Apps, Store(t)
         PROVE  ManagerInv'
    BY <1>10, StoreSafe, StoreLists
  <1>11. ASSUME NEW m \in Managers, NEW n \in Names, GetNodeInfoList(m, n)
         PROVE  ManagerInv'
    <2>1. UNCHANGED mapVars /\ Settle
      BY <1>11 DEF GetNodeInfoList
    <2>. QED  BY <1>11, <2>1, GetNodeInfoListSafe, ListsSame
  <1>12. ASSUME NEW t \in Apps, ThreadEnds(t)
         PROVE  ManagerInv'
    <2>1. UNCHANGED mapVars /\ Settle
      BY <1>12 DEF ThreadEnds
    <2>. QED  BY <1>12, <2>1, ThreadEndsSafe, ListsSame
  <1>13. ASSUME NEW n \in Names, HandleUpdate(n)
         PROVE  ManagerInv'
    BY <1>13, HandleUpdateSafe, HandleUpdateLists
  <1>14. CASE HandleObjects
    BY <1>14, HandleObjectsSafe, HandleObjectsLists
  <1>15. CASE UNCHANGED managerVars
    <2>1. UNCHANGED <<lan, m_subscriberSocket, m_callbacks, m_subscriberCallBack,
                      registered, mgrMutex, kept, call, made, update>>
      BY <1>15 DEF managerVars, socketVars, mapVars, mutexVars, callVars
    <2>2. ManagerTypeOK' /\ ListInv' /\ UpdateInv'
      BY <2>1 DEF ManagerTypeOK, ListInv, UpdateInv
    <2>3. MutexInv'
      BY <2>1 DEF MutexInv, Held, Inside
    <2>. QED  BY <2>2, <2>3
  <1> HIDE DEF ManagerInv
  <1>. QED  BY <1>2, <1>3, <1>4, <1>5, <1>6, <1>7, <1>8, <1>9, <1>10, <1>11,
               <1>12, <1>13, <1>14, <1>15 DEF ManagerNext

LEMMA ManagerInvariant == ManagerSpec => []ManagerInv
  <1>1. ManagerInit => ManagerInv
    BY ManagerInvInit
  <1>2. ManagerInv /\ [ManagerNext]_managerVars => ManagerInv'
    BY ManagerInvNext
  <1>. QED  BY <1>1, <1>2, PTL DEF ManagerSpec

\* Calls and the maps of both managers keep their types, whoever registers
\* what.
THEOREM ManagersTypeCorrect == ManagerSpec => []ManagerTypeOK
  <1>1. ManagerInv => ManagerTypeOK
    BY DEF ManagerInv
  <1>. QED  BY <1>1, ManagerInvariant, PTL

\* getSubscriberCallBackList, getSubscriberList: for any number of threads,
\* names and registrations, an update calls exactly the callbacks and objects
\* registered for it, in the order of registration.
THEOREM RegisteredAreCalled == ManagerSpec => []Heard
  <1>1. ManagerInv => Heard
    <2> SUFFICES ASSUME ManagerInv, update.at = "done"
                 PROVE  Heard
      BY DEF Heard
    <2>1. update \in Updates /\ update.name \in Names
      BY DEF ManagerInv, ManagerTypeOK, NoUpdate, CrashedUpdate, Updates
    <2> DEFINE rs == registered
               own == {i \in CallbacksAt(rs, update.seen) :
                         Path(rs[i].name) = Path(update.name)}
               node == {i \in CallbacksAt(rs, update.seen) :
                          IsNode(Path(rs[i].name), update.name)}
               objects == {i \in ObjectsAt(rs, update.after) :
                             Path(rs[i].name) = Path(update.name)}
    <2>2. own = CallbacksFor(rs, update.seen, Path(update.name))
      BY DEF CallbacksFor
    <2>3. node = CallbacksFor(rs, update.seen, Path(Node(update.name)))
      BY <2>1, NamesAreTexts, NodePath DEF CallbacksFor
    <2>4. objects = ObjectsFor(rs, update.after, Path(update.name))
      BY DEF ObjectsFor
    <2>5. (IF own # {} THEN own ELSE node) = Wanted(rs, update.seen, update.name)
      BY <2>2, <2>3 DEF Wanted
    <2> HIDE DEF own, node, objects
    <2>6. \E k \in 0 .. Len(update.called) :
            /\ Lists(rs, SubSeq(update.called, 1, k), IF own # {} THEN own ELSE node)
            /\ Lists(rs, SubSeq(update.called, k + 1, Len(update.called)), objects)
      BY <2>4, <2>5 DEF ManagerInv, UpdateInv
    <2>. QED  BY <2>6 DEF Heard, own, node, objects
  <1>. QED  BY <1>1, ManagerInvariant, PTL

\* m_mutex: at most one thread is in the locked part of a call at a manager,
\* and a mutex that is not free is held by that thread, or by one that a call
\* left with the mutex locked.
HeldByOne ==
  \A m \in Managers :
    /\ \A t, u \in Apps : Inside(t, m) /\ Inside(u, m) => t = u
    /\ mgrMutex[m] # Free =>
         \E t \in Apps : Held(m, t) /\ (Inside(t, m) \/ <<t, m>> \in kept)

\* IMutex in subscriber, both managers: the maps are changed by one thread at a
\* time, and a mutex that stays locked is one that a refused call kept.
THEOREM MapsChangeInTurn == ManagerSpec => []HeldByOne
  <1>1. ManagerInv => HeldByOne
    BY DEF ManagerInv, MutexInv, HeldByOne, Held
  <1>. QED  BY <1>1, ManagerInvariant, PTL

-----------------------------------------------------------------------------
(* Http: the call of the application and the tables of the threads.        *)

Ops == {"insert", "callback", "generic", "start", "stop", "delete", "deleted"}
Answers == Paths \cup {"generic", "crash", "default", "404"}
Generics == {"never", "before", "after"}

NoPath == ""
Calls == [op : Ops, path : Paths \cup {NoPath}, i : 1 .. ThreadNum + 1]
Tables == [cbs : SUBSET Paths, gencb : {"none", "server", "default"}, loop : BOOLEAN]

ServerTypeOK ==
  /\ callbacks \subseteq Paths /\ set \subseteq Paths
  /\ genericCallback \in BOOLEAN /\ isRunning \in BOOLEAN /\ listening \in BOOLEAN
  /\ starts \in Nat /\ lastGeneric \in Generics
  /\ httpCall = NoCall \/ httpCall \in Calls
  /\ tables \in [HttpThreads -> Tables]

\* How far a call has come: the threads before its own have been reached.
Reached == {j \in HttpThreads : j < httpCall.i}

CallInv ==
  /\ httpCall.op = "insert" => httpCall.i = 1 /\ httpCall.path \in Paths
  /\ httpCall.op = "callback" =>
       /\ httpCall.path \in callbacks
       /\ \A j \in Reached : httpCall.path \in tables[j].cbs
  /\ httpCall.op = "generic" =>
       /\ genericCallback /\ lastGeneric # "after"
       /\ \A j \in Reached : tables[j].gencb = "server"
  /\ httpCall.op = "start" =>
       /\ ~isRunning /\ lastGeneric # "after"
       /\ \A j \in HttpThreads \ Reached : ~tables[j].loop
  /\ httpCall.op \in {"stop", "delete"} => \A j \in Reached : ~tables[j].loop
  /\ httpCall.op = "deleted" => httpCall.i = ThreadNum + 1

\* The paths set are known to the server and to every thread, a thread knows
\* no others; a server that does not run has no loop.  A thread that was
\* started after SetGenericCallback has the default callback again.
TableInv ==
  /\ \A j \in HttpThreads : set \subseteq tables[j].cbs /\ tables[j].cbs \subseteq callbacks
  /\ set \subseteq callbacks
  /\ ~isRunning /\ httpCall.op # "start" => \A j \in HttpThreads : ~tables[j].loop
  /\ lastGeneric = "after" =>
       genericCallback /\ \A j \in HttpThreads : tables[j].gencb = "server"
  /\ lastGeneric # "after" /\ httpCall.op # "generic" =>
       \A j \in HttpThreads : tables[j].loop => tables[j].gencb = "default"

HttpInv == ServerTypeOK /\ CallInv /\ TableInv

\* A call that was begun has a position, and none has been reached yet.
LEMMA Begun ==
  ASSUME NEW op \in Ops, NEW path \in Paths \cup {NoPath}, BeginHttp(op, path)
  PROVE  /\ httpCall' \in Calls /\ httpCall'.op = op /\ httpCall'.path = path
         /\ httpCall'.i = 1 /\ Reached' = {}
  <1>1. ThreadNum \in Nat /\ ThreadNum >= 1
    BY HttpAssumption DEF HttpAssumption
  <1>2. 1 \in 1 .. ThreadNum + 1
    BY <1>1
  <1>3. httpCall' = [op |-> op, path |-> path, i |-> 1]
    BY DEF BeginHttp
  <1>4. Reached' = {}
    BY <1>1, <1>3 DEF Reached, HttpThreads
  <1>. QED  BY <1>2, <1>3, <1>4 DEF Calls

\* The application begins a call.
LEMMA BeginInv ==
  ASSUME HttpInv,
         \/ \E p \in Paths : SetCallback(p)
         \/ SetGenericCallback \/ HttpStart \/ HttpStop
  PROVE  HttpInv'
  <1> USE DEF HttpInv
  <1>1. ASSUME NEW p \in Paths, SetCallback(p)
        PROVE  HttpInv'
    <2>1. /\ httpCall' \in Calls /\ httpCall'.op = "insert" /\ httpCall'.path = p
          /\ httpCall'.i = 1 /\ Reached' = {} /\ httpCall.op = "none"
          /\ UNCHANGED <<callbacks, genericCallback, isRunning, listening, starts, set,
                         lastGeneric, tables>>
      <3>1. BeginHttp("insert", p) /\ "insert" \in Ops
        BY <1>1 DEF SetCallback, Ops
      <3>. QED  BY <1>1, <3>1, Begun DEF SetCallback, NoCall, tableVars, runVars, setVars
    <2>2. ServerTypeOK'
      BY <2>1 DEF ServerTypeOK
    <2>3. CallInv'
      BY <2>1 DEF CallInv
    <2>4. TableInv'
      BY <2>1 DEF TableInv
    <2>. QED  BY <2>2, <2>3, <2>4
  <1>2. CASE SetGenericCallback
    <2>1. /\ httpCall' \in Calls /\ httpCall'.op = "generic"
          /\ httpCall'.i = 1 /\ Reached' = {} /\ httpCall.op = "none"
          /\ genericCallback' = TRUE /\ ~genericCallback
          /\ UNCHANGED <<callbacks, isRunning, listening, starts, set, lastGeneric, tables>>
      <3>1. BeginHttp("generic", NoPath) /\ "generic" \in Ops
        BY <1>2 DEF SetGenericCallback, Ops, NoPath
      <3>. QED  BY <1>2, <3>1, Begun DEF SetGenericCallback, NoCall, runVars, setVars
    <2>2. ServerTypeOK'
      BY <2>1 DEF ServerTypeOK
    <2>3. CallInv'
      BY <2>1 DEF CallInv, TableInv
    <2>4. TableInv'
      BY <2>1 DEF TableInv
    <2>. QED  BY <2>2, <2>3, <2>4
  <1>3. CASE HttpStart
    <2>1. CASE UNCHANGED <<listening, httpCall, lastGeneric>>
      <3>1. UNCHANGED <<callbacks, genericCallback, isRunning, set, tables>>
              /\ starts' = starts + 1
        BY <1>3 DEF HttpStart, tableVars
      <3>. QED  BY <2>1, <3>1 DEF ServerTypeOK, CallInv, TableInv, Reached
    <2>2. CASE /\ listening' = TRUE /\ BeginHttp("start", NoPath)
               /\ lastGeneric' = IF lastGeneric = "after" THEN "before" ELSE lastGeneric
      <3>1. /\ httpCall' \in Calls /\ httpCall'.op = "start"
            /\ httpCall'.i = 1 /\ Reached' = {}
        BY <2>2, Begun DEF Ops
      <3>2. /\ httpCall.op = "none" /\ ~isRunning /\ starts' = starts + 1
            /\ UNCHANGED <<callbacks, genericCallback, isRunning, set, tables>>
        BY <1>3 DEF HttpStart, NoCall, tableVars
      <3>3. lastGeneric' # "after" /\ lastGeneric' \in Generics
        BY <2>2 DEF ServerTypeOK, Generics
      <3>4. \A j \in HttpThreads : ~tables[j].loop
        BY <3>2 DEF TableInv
      <3>7. ServerTypeOK'
        BY <2>2, <3>1, <3>2, <3>3 DEF ServerTypeOK
      <3>5. CallInv'
        BY <3>1, <3>2, <3>3, <3>4 DEF CallInv
      <3>6. TableInv'
        BY <3>1, <3>2, <3>3, <3>4 DEF TableInv
      <3>. QED  BY <3>5, <3>6, <3>7
    <2>. QED  BY <1>3, <2>1, <2>2 DEF HttpStart, NoPath
  <1>4. CASE HttpStop
    <2>1. /\ httpCall' \in Calls /\ httpCall'.op \in {"stop", "delete"}
          /\ httpCall'.i = 1 /\ Reached' = {} /\ httpCall.op = "none"
          /\ UNCHANGED <<callbacks, genericCallback, isRunning, listening, starts, set,
                         lastGeneric, tables>>
      <3>1. /\ BeginHttp("stop", NoPath) \/ BeginHttp("delete", NoPath)
            /\ "stop" \in Ops /\ "delete" \in Ops
        BY <1>4 DEF HttpStop, Ops, NoPath
      <3>. QED  BY <1>4, <3>1, Begun DEF HttpStop, NoCall, tableVars, runVars, setVars
    <2>2. ServerTypeOK'
      BY <2>1 DEF ServerTypeOK
    <2>3. CallInv'
      BY <2>1 DEF CallInv
    <2>4. TableInv'
      BY <2>1 DEF TableInv
    <2>. QED  BY <2>2, <2>3, <2>4
  <1>. QED  BY <1>1, <1>2, <1>3, <1>4

LEMMA InsertedInv ==
  ASSUME HttpInv, Inserted
  PROVE  HttpInv'
  <1> USE DEF HttpInv
  <1>1. /\ httpCall.path \in Paths /\ httpCall.op = "insert"
        /\ callbacks' = callbacks \cup {httpCall.path}
        /\ UNCHANGED <<genericCallback, isRunning, listening, starts, set, lastGeneric, tables>>
    BY DEF Inserted, CallInv, runVars, setVars
  <1>2. /\ httpCall' \in Calls /\ httpCall'.op = "callback"
        /\ httpCall'.path = httpCall.path /\ httpCall'.i = 1 /\ Reached' = {}
    BY <1>1, Begun DEF Inserted, Ops
  <1>3. ServerTypeOK'
    BY <1>1, <1>2 DEF ServerTypeOK
  <1>4. CallInv'
    BY <1>1, <1>2 DEF CallInv
  <1>5. TableInv'
    BY <1>1, <1>2 DEF TableInv
  <1>. QED  BY <1>3, <1>4, <1>5

\* One more thread is reached.
LEMMA ReachedNext ==
  ASSUME ServerTypeOK, httpCall # NoCall, httpCall.i \in HttpThreads, ForEachThread(httpCall.i)
  PROVE  /\ httpCall' \in Calls /\ httpCall'.op = httpCall.op
         /\ httpCall'.path = httpCall.path /\ httpCall'.i = httpCall.i + 1
         /\ Reached' = Reached \cup {httpCall.i} /\ httpCall.i \notin Reached
  <1>1. ThreadNum \in Nat /\ httpCall.i \in 1 .. ThreadNum /\ httpCall \in Calls
    BY HttpAssumption DEF HttpAssumption, HttpThreads, ServerTypeOK
  <1>2. httpCall' = [httpCall EXCEPT !.i = httpCall.i + 1]
    BY DEF ForEachThread
  <1>3. httpCall.i + 1 \in 1 .. ThreadNum + 1
    BY <1>1
  <1>4. /\ httpCall' \in Calls /\ httpCall'.op = httpCall.op
        /\ httpCall'.path = httpCall.path /\ httpCall'.i = httpCall.i + 1
    BY <1>1, <1>2, <1>3 DEF Calls
  <1>5. \A j \in HttpThreads : j < httpCall.i + 1 <=> j < httpCall.i \/ j = httpCall.i
    BY <1>1 DEF HttpThreads
  <1>6. ~(httpCall.i < httpCall.i)
    BY <1>1
  <1>. QED  BY <1>4, <1>5, <1>6 DEF Reached

LEMMA ThreadStepInv ==
  ASSUME HttpInv, HttpThreadStep
  PROVE  HttpInv'
  <1> USE DEF HttpInv
  <1> DEFINE i == httpCall.i
  <1>1. /\ httpCall # NoCall /\ httpCall.op # "insert" /\ i \in HttpThreads
        /\ UNCHANGED <<callbacks, genericCallback, isRunning, listening, starts, set,
                       lastGeneric>>
        /\ ForEachThread(i)
    BY DEF HttpThreadStep, tableVars, runVars, setVars
  <1>2. /\ httpCall' \in Calls /\ httpCall'.op = httpCall.op
        /\ httpCall'.path = httpCall.path
        /\ Reached' = Reached \cup {i} /\ i \notin Reached
    BY <1>1, ReachedNext
  <1>3. httpCall.op \in {"callback", "generic", "start", "stop", "delete"}
    <2>1. httpCall.op \in Ops
      BY <1>1 DEF ServerTypeOK, Calls
    <2>2. httpCall.op # "deleted"
      <3>1. ThreadNum \in Nat /\ i \in 1 .. ThreadNum
        BY <1>1, HttpAssumption DEF HttpAssumption, HttpThreads
      <3>2. i # ThreadNum + 1
        BY <3>1
      <3>. QED  BY <3>2 DEF CallInv
    <2>. QED  BY <1>1, <2>1, <2>2 DEF Ops
  <1>4. tables \in [HttpThreads -> Tables] /\ Reached \subseteq HttpThreads
    BY DEF ServerTypeOK, Reached
  <1> HIDE DEF i
  <1>5. ASSUME NEW t \in Tables, tables' = [tables EXCEPT ![i] = t]
        PROVE  /\ ServerTypeOK' /\ tables'[i] = t
               /\ \A j \in HttpThreads : j # i => tables'[j] = tables[j]
    BY <1>1, <1>2, <1>4, <1>5 DEF ServerTypeOK
  <1>6. CASE httpCall.op = "callback"
    <2> DEFINE t == [tables[i] EXCEPT !.cbs = @ \cup {httpCall.path}]
    <2>1. tables' = [tables EXCEPT ![i] = t]
      BY <1>6 DEF HttpThreadStep, i
    <2>2. httpCall.path \in callbacks /\ httpCall.path \in Paths
      BY <1>6 DEF CallInv, ServerTypeOK
    <2>3. /\ t \in Tables /\ t.cbs = tables[i].cbs \cup {httpCall.path}
          /\ t.gencb = tables[i].gencb /\ t.loop = tables[i].loop
      BY <1>1, <1>4, <2>2 DEF Tables
    <2> HIDE DEF t
    <2>4. /\ ServerTypeOK' /\ tables'[i] = t
          /\ \A j \in HttpThreads : j # i => tables'[j] = tables[j]
      BY <1>5, <2>1, <2>3
    <2>5. CallInv'
      BY <1>1, <1>2, <1>4, <1>6, <2>2, <2>3, <2>4 DEF CallInv
    <2>6. TableInv'
      BY <1>1, <1>2, <1>6, <2>2, <2>3, <2>4 DEF TableInv
    <2>. QED  BY <2>4, <2>5, <2>6
  <1>7. CASE httpCall.op = "generic"
    <2> DEFINE t == [tables[i] EXCEPT !.gencb = "server"]
    <2>1. tables' = [tables EXCEPT ![i] = t]
      BY <1>7 DEF HttpThreadStep, i
    <2>2. /\ t \in Tables /\ t.cbs = tables[i].cbs
          /\ t.gencb = "server" /\ t.loop = tables[i].loop
      BY <1>1, <1>4 DEF Tables
    <2> HIDE DEF t
    <2>3. /\ ServerTypeOK' /\ tables'[i] = t
          /\ \A j \in HttpThreads : j # i => tables'[j] = tables[j]
      BY <1>5, <2>1, <2>2
    <2>4. CallInv'
      BY <1>1, <1>2, <1>4, <1>7, <2>2, <2>3 DEF CallInv
    <2>5. TableInv'
      BY <1>1, <1>2, <1>7, <2>2, <2>3 DEF TableInv, CallInv
    <2>. QED  BY <2>3, <2>4, <2>5
  <1>8. CASE httpCall.op = "start"
    <2>1. PICK t \in ThreadStart(tables[i]) : tables' = [tables EXCEPT ![i] = t]
      BY <1>8 DEF HttpThreadStep, i
    <2>2. /\ t \in Tables /\ t.cbs = tables[i].cbs
          /\ \/ t.gencb = tables[i].gencb /\ t.loop = tables[i].loop
             \/ t.gencb = "default" /\ t.loop
      BY <1>1, <1>4 DEF ThreadStart, Tables
    <2>3. /\ ServerTypeOK' /\ tables'[i] = t
          /\ \A j \in HttpThreads : j # i => tables'[j] = tables[j]
      BY <1>5, <2>1, <2>2
    <2>4. CallInv'
      BY <1>1, <1>2, <1>4, <1>8, <2>3 DEF CallInv
    <2>5. TableInv'
      BY <1>1, <1>2, <1>8, <2>2, <2>3 DEF TableInv, CallInv
    <2>. QED  BY <2>3, <2>4, <2>5
  <1>9. CASE httpCall.op \in {"stop", "delete"}
    <2> DEFINE t == [tables[i] EXCEPT !.loop = FALSE]
    <2>1. tables' = [tables EXCEPT ![i] = t]
      BY <1>9 DEF HttpThreadStep, i
    <2>2. /\ t \in Tables /\ t.cbs = tables[i].cbs
          /\ t.gencb = tables[i].gencb /\ ~t.loop
      BY <1>1, <1>4 DEF Tables
    <2> HIDE DEF t
    <2>3. /\ ServerTypeOK' /\ tables'[i] = t
          /\ \A j \in HttpThreads : j # i => tables'[j] = tables[j]
      BY <1>5, <2>1, <2>2
    <2>4. CallInv'
      BY <1>1, <1>2, <1>4, <1>9, <2>2, <2>3 DEF CallInv
    <2>5. TableInv'
      BY <1>1, <1>2, <1>9, <2>2, <2>3 DEF TableInv
    <2>. QED  BY <2>3, <2>4, <2>5
  <1>. QED  BY <1>3, <1>6, <1>7, <1>8, <1>9

LEMMA ReturnInv ==
  ASSUME HttpInv, HttpReturn
  PROVE  HttpInv'
  <1> USE DEF HttpInv
  <1> DEFINE op == httpCall.op
  <1>1. /\ httpCall \in Calls /\ op # "deleted" /\ httpCall.i > ThreadNum
        /\ UNCHANGED <<callbacks, genericCallback, tables, starts>>
    BY DEF HttpReturn, ServerTypeOK, tableVars
  <1>2. ThreadNum \in Nat /\ ThreadNum >= 1 /\ httpCall.i = ThreadNum + 1
    <2>1. ThreadNum \in Nat /\ ThreadNum >= 1 /\ httpCall.i \in 1 .. ThreadNum + 1
      BY <1>1, HttpAssumption DEF HttpAssumption, Calls
    <2>. QED  BY <1>1, <2>1
  <1>3. Reached = HttpThreads
    BY <1>2 DEF Reached, HttpThreads
  <1>4. op \in {"callback", "generic", "start", "stop", "delete"}
    <2>1. op # "insert"
      BY <1>2 DEF CallInv
    <2>. QED  BY <1>1, <2>1 DEF Calls, Ops
  <1>5. /\ \/ op # "delete" /\ httpCall' = NoCall /\ httpCall'.op = "none"
           \/ /\ op = "delete" /\ httpCall' = [httpCall EXCEPT !.op = "deleted"]
              /\ httpCall' \in Calls /\ httpCall'.op = "deleted"
              /\ httpCall'.i = ThreadNum + 1
    <2>1. "deleted" \in Ops
      BY DEF Ops
    <2>2. [httpCall EXCEPT !.op = "deleted"] \in Calls
      BY <1>1, <2>1 DEF Calls
    <2>3. /\ [httpCall EXCEPT !.op = "deleted"].op = "deleted"
          /\ [httpCall EXCEPT !.op = "deleted"].i = ThreadNum + 1
      BY <1>1, <1>2 DEF Calls
    <2>. QED  BY <2>2, <2>3 DEF HttpReturn, NoCall
  <1>6. /\ isRunning' = IF op \in {"start", "stop", "delete"} THEN op = "start"
                        ELSE isRunning
        /\ listening' = (listening /\ op \notin {"stop", "delete"})
        /\ set' = IF op = "callback" THEN set \cup {httpCall.path} ELSE set
        /\ lastGeneric' = IF op = "generic" THEN "after" ELSE lastGeneric
    BY DEF HttpReturn
  <1>7. ServerTypeOK'
    <2>1. set' \subseteq Paths
      BY <1>6 DEF CallInv, ServerTypeOK
    <2>2. lastGeneric' \in Generics
      BY <1>6 DEF ServerTypeOK, Generics
    <2>3. isRunning' \in BOOLEAN /\ listening' \in BOOLEAN
      BY <1>6 DEF ServerTypeOK
    <2> HIDE DEF op
    <2>. QED  BY <1>1, <1>5, <2>1, <2>2, <2>3 DEF ServerTypeOK
  <1>8. CallInv'
    BY <1>5 DEF CallInv
  <1>9. TableInv'
    <2>1. /\ set' \subseteq callbacks
          /\ \A j \in HttpThreads : set' \subseteq tables[j].cbs
      BY <1>3, <1>6 DEF TableInv, CallInv
    <2>2. ~isRunning' => \A j \in HttpThreads : ~tables[j].loop
      BY <1>3, <1>4, <1>6 DEF TableInv, CallInv
    <2>3. lastGeneric' = "after" =>
            genericCallback /\ \A j \in HttpThreads : tables[j].gencb = "server"
      BY <1>3, <1>6 DEF TableInv, CallInv
    <2>4. lastGeneric' # "after" =>
            \A j \in HttpThreads : tables[j].loop => tables[j].gencb = "default"
      BY <1>6 DEF TableInv
    <2>. QED  BY <1>1, <2>1, <2>2, <2>3, <2>4 DEF TableInv
  <1>. QED  BY <1>7, <1>8, <1>9

LEMMA HttpInvStep ==
  ASSUME HttpInv, [HttpNext]_httpVars
  PROVE  HttpInv'
  <1>1. CASE UNCHANGED <<tableVars, runVars, setVars, httpCall, tables>>
    BY <1>1 DEF HttpInv, ServerTypeOK, CallInv, TableInv, Reached, tableVars, runVars,
       setVars
  <1>2. ASSUME NEW i \in HttpThreads, NEW c \in Clients, TakeRequest(i, c)
        PROVE  HttpInv'
    BY <1>1, <1>2 DEF TakeRequest
  <1>3. ASSUME NEW c \in Clients, NEW p \in Paths, FetchUrl(c, p)
        PROVE  HttpInv'
    BY <1>1, <1>3 DEF FetchUrl
  <1>4. ASSUME NEW c \in Clients, FetchFails(c)
        PROVE  HttpInv'
    BY <1>1, <1>4 DEF FetchFails
  <1>5. ASSUME NEW i \in HttpThreads, CallbackReturns(i)
        PROVE  HttpInv'
    BY <1>1, <1>5 DEF CallbackReturns
  <1>6. CASE UNCHANGED httpVars
    BY <1>1, <1>6 DEF httpVars
  <1>. QED
    BY <1>2, <1>3, <1>4, <1>5, <1>6, BeginInv, InsertedInv, ThreadStepInv, ReturnInv
    DEF HttpNext

LEMMA HttpInvInit ==
  ASSUME HttpInit
  PROVE  HttpInv
  <1>1. /\ callbacks = {} /\ genericCallback = FALSE /\ isRunning = FALSE
        /\ listening = FALSE /\ httpCall = NoCall /\ starts = 0
        /\ tables = [i \in HttpThreads |-> [cbs |-> {}, gencb |-> "none", loop |-> FALSE]]
        /\ set = {} /\ lastGeneric = "never" /\ httpCall.op = "none"
    BY Zenon DEF HttpInit, NoCall
  <1>2. [cbs |-> {}, gencb |-> "none", loop |-> FALSE] \in Tables
    BY DEF Tables
  <1>3. ServerTypeOK
    BY <1>1, <1>2 DEF ServerTypeOK, Generics
  <1>4. CallInv /\ TableInv
    BY <1>1 DEF CallInv, TableInv
  <1>. QED  BY <1>3, <1>4 DEF HttpInv

\* Every call of the application reaches the threads one after the other while
\* they serve; the tables agree with what has been set at each of its steps.
THEOREM TablesAgree == HttpSpec => []HttpInv
  <1>1. HttpInit => HttpInv
    BY HttpInvInit
  <1>2. HttpInv /\ [HttpNext]_httpVars => HttpInv'
    BY HttpInvStep
  <1>. QED  BY <1>1, <1>2, PTL DEF HttpSpec

-----------------------------------------------------------------------------
(* Http: the requests.                                                     *)

Served == [client : Clients, path : Paths \cup {NoPath}, by : Answers,
           calling : Ops \cup {"none"}, set : SUBSET Paths, generic : Generics]
Fetches == [at : {"idle", "sent", "taken", "forgotten"}, timeout : Timeouts,
            n : 0 .. MaxFetches, path : Paths \cup {NoPath}, ok : BOOLEAN]

RequestTypeOK ==
  /\ serving \in [HttpThreads -> Served \cup {Nobody}]
  /\ fetch \in [Clients -> Fetches]

LEMMA RequestTypeStep ==
  ASSUME HttpInv, RequestTypeOK, [HttpNext]_httpVars
  PROVE  RequestTypeOK'
  <1>1. CASE UNCHANGED <<serving, fetch>>
    BY <1>1 DEF RequestTypeOK
  <1>2. ASSUME NEW i \in HttpThreads, NEW c \in Clients, TakeRequest(i, c)
        PROVE  RequestTypeOK'
    <2>1. PICK by \in Dispatched(i, fetch[c].path) :
            serving' = [serving EXCEPT ![i] =
              [client |-> c, path |-> fetch[c].path, by |-> by,
               calling |-> httpCall.op, set |-> set, generic |-> lastGeneric]]
      BY <1>2 DEF TakeRequest
    <2>2. by \in Answers
      BY DEF Dispatched, CallbackHandler, Answers, HttpInv, ServerTypeOK
    <2>3. httpCall.op \in Ops \cup {"none"}
      BY DEF HttpInv, ServerTypeOK, NoCall, Calls
    <2>4. fetch[c].path \in Paths \cup {NoPath}
      BY DEF RequestTypeOK, Fetches
    <2>5. set \subseteq Paths /\ lastGeneric \in Generics
      BY DEF HttpInv, ServerTypeOK
    <2>6. serving' \in [HttpThreads -> Served \cup {Nobody}]
      BY <2>1, <2>2, <2>3, <2>4, <2>5 DEF RequestTypeOK, Served
    <2>7. fetch' \in [Clients -> Fetches]
      BY <1>2 DEF TakeRequest, RequestTypeOK, Fetches
    <2>. QED  BY <2>6, <2>7 DEF RequestTypeOK
  <1>3. ASSUME NEW i \in HttpThreads, CallbackReturns(i)
        PROVE  RequestTypeOK'
    <2>1. serving[i] \in Served /\ serving[i].client \in Clients
      BY <1>3 DEF CallbackReturns, RequestTypeOK, Served
    <2>2. serving' \in [HttpThreads -> Served \cup {Nobody}]
      BY <1>3 DEF CallbackReturns, RequestTypeOK
    <2> DEFINE c == serving[i].client
    <2>3. \/ fetch' = [fetch EXCEPT ![c].at = "idle", ![c].ok = serving[i].by # "404"]
          \/ fetch' = [fetch EXCEPT ![c].at = "forgotten"]
          \/ UNCHANGED fetch
      BY <1>3 DEF CallbackReturns, Answered
    <2> HIDE DEF c
    <2>4. fetch' \in [Clients -> Fetches]
      BY <2>1, <2>3 DEF RequestTypeOK, Fetches, c
    <2>. QED  BY <2>2, <2>4 DEF RequestTypeOK
  <1>4. ASSUME NEW c \in Clients, NEW p \in Paths, FetchUrl(c, p)
        PROVE  RequestTypeOK'
    <2>1. fetch[c].n + 1 \in 0 .. MaxFetches
      BY <1>4, HttpAssumption DEF FetchUrl, RequestTypeOK, Fetches, HttpAssumption
    <2>. QED  BY <1>4, <2>1 DEF FetchUrl, RequestTypeOK, Fetches
  <1>5. ASSUME NEW c \in Clients, FetchFails(c)
        PROVE  RequestTypeOK'
    <2>1. fetch' = [fetch EXCEPT ![c].at = "idle", ![c].ok = FALSE] /\ UNCHANGED serving
      BY <1>5 DEF FetchFails
    <2>2. fetch[c] \in Fetches
      BY DEF RequestTypeOK
    <2>3. [fetch[c] EXCEPT !.at = "idle", !.ok = FALSE] \in Fetches
      BY <2>2 DEF Fetches
    <2>4. fetch' = [fetch EXCEPT ![c] = [fetch[c] EXCEPT !.at = "idle", !.ok = FALSE]]
      BY <2>1
    <2>5. fetch' \in [Clients -> Fetches]
      BY <2>3, <2>4 DEF RequestTypeOK
    <2>. QED  BY <2>1, <2>5 DEF RequestTypeOK
  <1>6. ASSUME \/ \E p \in Paths : SetCallback(p)
               \/ Inserted \/ SetGenericCallback \/ HttpStart \/ HttpStop
               \/ HttpThreadStep \/ HttpReturn \/ UNCHANGED httpVars
        PROVE  RequestTypeOK'
    <2>1. ASSUME NEW p \in Paths, SetCallback(p)
          PROVE  UNCHANGED <<serving, fetch>>
      BY <2>1 DEF SetCallback
    <2>2. (Inserted \/ SetGenericCallback) => UNCHANGED <<serving, fetch>>
      BY DEF Inserted, SetGenericCallback
    <2>3. (HttpStart \/ HttpStop) => UNCHANGED <<serving, fetch>>
      BY DEF HttpStart, HttpStop
    <2>4. (HttpThreadStep \/ HttpReturn) => UNCHANGED <<serving, fetch>>
      BY DEF HttpThreadStep, HttpReturn
    <2>5. (UNCHANGED httpVars) => UNCHANGED <<serving, fetch>>
      BY DEF httpVars
    <2>. QED  BY <1>1, <1>6, <2>1, <2>2, <2>3, <2>4, <2>5, Zenon
  <1>. QED  BY <1>1, <1>2, <1>3, <1>4, <1>5, <1>6 DEF HttpNext

\* The server's tables, the requests that are served and the clients' calls
\* keep their types; a request that is served belongs to a client.
THEOREM HttpTypeCorrect == HttpSpec => [](ServerTypeOK /\ RequestTypeOK)
  <1>1. HttpInit => RequestTypeOK
    <2> SUFFICES ASSUME HttpInit PROVE RequestTypeOK
      OBVIOUS
    <2>1. serving \in [HttpThreads -> Served \cup {Nobody}]
      BY Zenon DEF HttpInit
    <2>2. 0 \in 0 .. MaxFetches
      BY HttpAssumption DEF HttpAssumption
    <2>3. fetch \in [Clients -> [at : {"idle"}, timeout : Timeouts, n : {0},
                                 path : {NoPath}, ok : {FALSE}]]
      BY Zenon DEF HttpInit, NoPath
    <2>4. fetch \in [Clients -> Fetches]
      BY <2>2, <2>3 DEF Fetches
    <2>. QED  BY <2>1, <2>4 DEF RequestTypeOK
  <1>2. HttpInv /\ RequestTypeOK /\ [HttpNext]_httpVars => RequestTypeOK'
    BY RequestTypeStep
  <1>3. HttpInv => ServerTypeOK
    BY DEF HttpInv
  <1>. QED  BY <1>1, <1>2, <1>3, TablesAgree, PTL DEF HttpSpec

-----------------------------------------------------------------------------
(* Http: who answers.                                                      *)

\* What the tables say of a request that is taken now.
LEMMA RightAnswer ==
  ASSUME HttpInv, NEW i \in HttpThreads, NEW p, tables[i].loop,
         NEW by \in Dispatched(i, p), httpCall.op # "insert"
  PROVE  /\ p \in set => by = p
         /\ p \notin callbacks /\ httpCall.op \notin {"generic", "start"} =>
              by = IF lastGeneric = "after" THEN "generic" ELSE "default"
  <1> USE DEF HttpInv
  <1>1. ASSUME p \in set
        PROVE  by = p
    <2>1. p \in callbacks /\ p \in tables[i].cbs
      BY <1>1 DEF TableInv
    <2>. QED  BY <2>1 DEF Dispatched, CallbackHandler
  <1>2. ASSUME p \notin callbacks, httpCall.op \notin {"generic", "start"},
               lastGeneric = "after"
        PROVE  by = "generic"
    <2>1. genericCallback /\ tables[i].gencb = "server"
      BY <1>2 DEF TableInv
    <2>. QED  BY <1>2, <2>1 DEF Dispatched, CallbackHandler
  <1>3. ASSUME p \notin callbacks, httpCall.op \notin {"generic", "start"},
               lastGeneric # "after"
        PROVE  by = "default"
    <2>1. tables[i].gencb = "default" /\ p \notin tables[i].cbs
      BY <1>3 DEF TableInv
    <2>. QED  BY <2>1 DEF Dispatched
  <1>. QED  BY <1>1, <1>2, <1>3

LEMMA CallbacksStay ==
  ASSUME [HttpNext]_httpVars
  PROVE  callbacks \subseteq callbacks'
  BY Zenon DEF HttpNext, httpVars, tableVars, SetCallback, Inserted, SetGenericCallback, HttpStart,
     HttpStop, HttpThreadStep, HttpReturn, TakeRequest, CallbackReturns, FetchUrl,
     FetchFails

\* A request stays right while callbacks are added.
LEMMA AnswersStay ==
  ASSUME AnsweredRight, [HttpNext]_httpVars,
         \A i \in HttpThreads : serving'[i] = serving[i] \/ serving'[i] = Nobody
  PROVE  AnsweredRight'
  BY CallbacksStay DEF AnsweredRight

LEMMA AnsweredStep ==
  ASSUME HttpInv, RequestTypeOK, AnsweredRight, [HttpNext]_httpVars
  PROVE  AnsweredRight'
  <1>0. serving \in [HttpThreads -> Served \cup {Nobody}]
    BY DEF RequestTypeOK
  <1>1. CASE UNCHANGED serving
    BY <1>1, AnswersStay
  <1>2. ASSUME NEW i \in HttpThreads, NEW c \in Clients, TakeRequest(i, c)
        PROVE  AnsweredRight'
    <2>1. PICK by \in Dispatched(i, fetch[c].path) :
            serving' = [serving EXCEPT ![i] =
              [client |-> c, path |-> fetch[c].path, by |-> by,
               calling |-> httpCall.op, set |-> set, generic |-> lastGeneric]]
      BY <1>2 DEF TakeRequest
    <2> DEFINE s == serving'[i]
    <2>2. /\ s.path = fetch[c].path /\ s.by = by /\ s.calling = httpCall.op
          /\ s.set = set /\ s.generic = lastGeneric
          /\ \A j \in HttpThreads : j # i => serving'[j] = serving[j]
      BY <1>0, <2>1
    <2>3. tables[i].loop /\ callbacks' = callbacks
      BY <1>2 DEF TakeRequest, tableVars
    <2>4. s.calling # "insert" =>
            /\ s.path \in s.set => s.by = s.path
            /\ s.path \notin callbacks /\ s.calling \notin {"generic", "start"} =>
                 s.by = IF s.generic = "after" THEN "generic" ELSE "default"
      BY <2>2, <2>3, RightAnswer
    <2> HIDE DEF s
    <2>5. ASSUME NEW j \in HttpThreads, j = i
          PROVE  serving'[j] = s
      BY <2>5 DEF s
    <2>. QED  BY <2>2, <2>3, <2>4, <2>5 DEF AnsweredRight
  <1>3. ASSUME NEW i \in HttpThreads, CallbackReturns(i)
        PROVE  AnsweredRight'
    BY <1>0, <1>3, AnswersStay DEF CallbackReturns
  <1>. QED
    BY <1>1, <1>2, <1>3, Zenon DEF HttpNext, httpVars, SetCallback, Inserted, SetGenericCallback,
       HttpStart, HttpStop, HttpThreadStep, HttpReturn, FetchUrl, FetchFails

\* SetCallback, SetGenericCallback, Start and callbackHandler: at every thread,
\* whatever call of the application is under way and however often the server
\* was stopped and started, a request is answered by the callback set for its
\* path, and without one by the generic callback exactly when that was set
\* after the last start.
THEOREM RequestsAnsweredRight == HttpSpec => []AnsweredRight
  <1>1. HttpInit => AnsweredRight
    <2> SUFFICES ASSUME HttpInit, NEW i \in HttpThreads
                 PROVE  serving[i] = Nobody
      BY Zenon DEF AnsweredRight
    <2>. QED  BY Zenon DEF HttpInit
  <1>2. HttpInv /\ RequestTypeOK /\ AnsweredRight /\ [HttpNext]_httpVars => AnsweredRight'
    BY AnsweredStep
  <1>. QED  BY <1>1, <1>2, TablesAgree, HttpTypeCorrect, PTL DEF HttpSpec

-----------------------------------------------------------------------------
(* Declarations: the services and their parameters.                        *)

ParamMaps == UNION {[S -> Nat] : S \in SUBSET ParamNames}
Services == [name : ServiceNames, params : ParamMaps]

DeclarationsTypeOK ==
  /\ declared \in Seq(Macros)
  /\ info \in [ServiceNames -> ParamMaps]
  /\ \A s \in ServiceNames : IsFiniteSet(DOMAIN info[s])
  /\ list \in Seq(Services)

\* A service has the parameters that were declared for it,
InfoInv ==
  \A s \in ServiceNames :
    /\ DOMAIN info[s] = NamesOf(s)
    /\ \A k \in LastOf(s) : info[s][declared[k].param] = Number(s, k)
    /\ \A p \in NamesOf(s) : \E k \in LastOf(s) : declared[k].param = p

\* and is once in the list, with them.
ServicesInv ==
  /\ \A i, j \in DOMAIN list : list[i].name = list[j].name => i = j
  /\ \A i \in DOMAIN list : list[i].params = info[list[i].name]
  /\ \A s \in ServiceNames : ParamsOf(s) # {} => Named(list, s) # {}

DeclarationsInv == DeclarationsTypeOK /\ InfoInv /\ ServicesInv

LEMMA ParamsFinite ==
  ASSUME DeclarationsTypeOK, NEW s \in ServiceNames
  PROVE  /\ IsFiniteSet(ParamsOf(s)) /\ Cardinality(ParamsOf(s)) \in Nat
         /\ ParamsOf(s) \subseteq 1 .. Len(declared)
         /\ \A k \in ParamsOf(s) : declared[k].param \in ParamNames
  <1>1. DOMAIN declared = 1 .. Len(declared) /\ Len(declared) \in Nat
    BY DEF DeclarationsTypeOK
  <1>2. ParamsOf(s) \subseteq 1 .. Len(declared)
    BY <1>1 DEF ParamsOf
  <1>3. IsFiniteSet(ParamsOf(s))
    <2>1. IsFiniteSet(1 .. Len(declared))
      BY <1>1, FS_Interval
    <2>. QED  BY <1>2, <2>1, FS_Subset
  <1>4. Cardinality(ParamsOf(s)) \in Nat
    BY <1>3, FS_CardinalityType
  <1>5. \A k \in ParamsOf(s) : declared[k].param \in ParamNames
    <2>1. \A k \in 1 .. Len(declared) : declared[k] \in Macros
      BY <1>1 DEF DeclarationsTypeOK
    <2>2. \A d \in Macros : d.param # NoParam => d.param \in ParamNames
      BY DEF Macros
    <2>. QED  BY <1>2, <2>1, <2>2 DEF ParamsOf
  <1>. QED  BY <1>2, <1>3, <1>4, <1>5

\* How the declarations of a service's parameters change with one more.
LEMMA ParamsGrow ==
  ASSUME DeclarationsTypeOK, NEW s \in ServiceNames, NEW d \in Macros,
         declared' = Append(declared, d), NEW n, n = Len(declared) + 1
  PROVE  LET S == ParamsOf(s) IN
         /\ \A k \in S : k \in 1 .. n - 1 /\ declared'[k] = declared[k]
         /\ declared'[n] = d /\ n \notin S /\ n \in Nat
         /\ d.service = s /\ d.param # NoParam => ParamsOf(s)' = S \cup {n}
         /\ d.service # s \/ d.param = NoParam => ParamsOf(s)' = S
         /\ \A k \in S : Number(s, k)' = Number(s, k)
         /\ Number(s, n)' = Cardinality(NamesOf(s))
  <1> DEFINE S == ParamsOf(s)
  <1>1. declared \in Seq(Macros) /\ n \in Nat /\ DOMAIN declared = 1 .. n - 1
    BY DEF DeclarationsTypeOK
  <1>2. /\ DOMAIN declared' = 1 .. n /\ declared'[n] = d
        /\ \A k \in 1 .. n - 1 : declared'[k] = declared[k]
    BY <1>1
  <1>3. S \subseteq 1 .. n - 1
    BY <1>1 DEF ParamsOf
  <1>4. n \notin S /\ \A k \in S : k \in 1 .. n - 1 /\ declared'[k] = declared[k]
    BY <1>1, <1>2, <1>3
  <1>5. d.service = s /\ d.param # NoParam => ParamsOf(s)' = S \cup {n}
    BY <1>1, <1>2 DEF ParamsOf
  <1>6. d.service # s \/ d.param = NoParam => ParamsOf(s)' = S
    BY <1>1, <1>2 DEF ParamsOf
  <1>7. ParamsOf(s)' \subseteq S \cup {n} /\ S \subseteq ParamsOf(s)'
    BY <1>5, <1>6
  <1>8. \A k \in S : Number(s, k)' = Number(s, k)
    <2> SUFFICES ASSUME NEW k \in S
                 PROVE  Number(s, k)' = Number(s, k)
      OBVIOUS
    <2>1. {h \in ParamsOf(s)' : h < k} = {h \in S : h < k}
      BY <1>1, <1>4, <1>7
    <2>2. {declared'[j].param : j \in {h \in ParamsOf(s)' : h < k}}
            = {declared[j].param : j \in {h \in S : h < k}}
      BY <1>4, <2>1
    <2>. QED  BY <2>2 DEF Number
  <1>9. Number(s, n)' = Cardinality(NamesOf(s))
    <2>1. {h \in ParamsOf(s)' : h < n} = S
      BY <1>1, <1>4, <1>7
    <2>2. {declared'[j].param : j \in {h \in ParamsOf(s)' : h < n}} = NamesOf(s)
      BY <1>4, <2>1 DEF NamesOf
    <2>. QED  BY <2>2 DEF Number
  <1>. QED  BY <1>1, <1>2, <1>4, <1>5, <1>6, <1>8, <1>9

\* Without a new declaration of the service's its names and numbers stay.
LEMMA NamesStay ==
  ASSUME NEW s \in ServiceNames, ParamsOf(s)' = ParamsOf(s),
         \A k \in ParamsOf(s) : declared'[k] = declared[k] /\ Number(s, k)' = Number(s, k)
  PROVE  /\ NamesOf(s)' = NamesOf(s) /\ LastOf(s)' = LastOf(s)
         /\ \A k \in LastOf(s) : declared'[k] = declared[k] /\ Number(s, k)' = Number(s, k)
  <1>1. NamesOf(s)' = NamesOf(s)
    BY DEF NamesOf
  <1>2. LastOf(s)' = LastOf(s)
    BY DEF LastOf
  <1>. QED  BY <1>1, <1>2 DEF LastOf

\* The first entry of a service is its only one.
LEMMA EntryFound ==
  ASSUME DeclarationsTypeOK, ServicesInv, NEW s \in ServiceNames, Named(list, s) # {}
  PROVE  \E i \in 1 .. Len(list) :
           /\ Min(Named(list, s)) = i /\ list[i].name = s /\ list[i].params = info[s]
           /\ \A j \in 1 .. Len(list) : list[j].name = s => j = i
  <1>1. DOMAIN list = 1 .. Len(list) /\ Len(list) \in Nat
    BY DEF DeclarationsTypeOK
  <1>2. PICK i \in 1 .. Len(list) : i \in Named(list, s)
    BY <1>1 DEF Named
  <1>3. list[i].name = s
    BY <1>2 DEF Named
  <1>4. \A j \in 1 .. Len(list) : list[j].name = s => j = i
    BY <1>1, <1>3 DEF ServicesInv
  <1>5. Named(list, s) = {i}
    BY <1>1, <1>2, <1>4 DEF Named
  <1>6. Min({i}) = i
    BY <1>1, <1>2 DEF Min
  <1>7. list[i].params = info[s]
    BY <1>1, <1>3 DEF ServicesInv
  <1>. QED  BY <1>3, <1>4, <1>5, <1>6, <1>7

\* addServiceParam.
LEMMA ParamAdded ==
  ASSUME NEW m \in ParamMaps, IsFiniteSet(DOMAIN m), NEW p \in ParamNames
  PROVE  LET a == AddServiceParam(m, p) IN
         /\ a \in ParamMaps /\ DOMAIN a = DOMAIN m \cup {p} /\ IsFiniteSet(DOMAIN a)
         /\ a[p] = Cardinality(DOMAIN m)
         /\ \A q \in DOMAIN m : q # p => a[q] = m[q]
  <1> DEFINE a == AddServiceParam(m, p)
  <1>1. PICK S \in SUBSET ParamNames : m \in [S -> Nat]
    BY DEF ParamMaps
  <1>2. Cardinality(S) \in Nat /\ IsFiniteSet(S \cup {p}) /\ DOMAIN m = S
    <2>1. DOMAIN m = S
      BY <1>1
    <2>. QED  BY <2>1, FS_CardinalityType, FS_AddElement
  <1>3. a \in [S \cup {p} -> Nat]
    BY <1>1, <1>2 DEF AddServiceParam
  <1>4. S \cup {p} \in SUBSET ParamNames
    OBVIOUS
  <1>5. a \in ParamMaps /\ DOMAIN a = S \cup {p}
    BY <1>3, <1>4 DEF ParamMaps
  <1>6. a[p] = Cardinality(DOMAIN m) /\ \A q \in DOMAIN m : q # p => a[q] = m[q]
    BY DEF AddServiceParam
  <1> HIDE DEF a
  <1>7. IsFiniteSet(DOMAIN a)
    BY <1>2, <1>5
  <1>8. DOMAIN a = DOMAIN m \cup {p}
    BY <1>2, <1>5
  <1>. QED  BY <1>5, <1>6, <1>7, <1>8 DEF a

\* A service is put behind the list; or it is in it.
LEMMA ServiceAppended ==
  ASSUME list \in Seq(Services), NEW e \in Services, list' = Append(list, e)
  PROVE  /\ list' \in Seq(Services) /\ DOMAIN list' = 1 .. Len(list) + 1
         /\ DOMAIN list = 1 .. Len(list) /\ list'[Len(list) + 1] = e
         /\ \A i \in 1 .. Len(list) : list'[i] = list[i]
  OBVIOUS

LEMMA DeclareServiceInv ==
  ASSUME DeclarationsInv, NEW d \in Macros, Declare(d), d.param = NoParam
  PROVE  DeclarationsInv'
  <1>1. declared' = Append(declared, d) /\ info' = info
    BY DEF Declare, DeclareService
  <1>2. PICK s \in ServiceNames : s = d.service
    BY DEF Macros
  <1>3. list' = InsertServiceInfo(list, s, info[s])
    BY <1>2 DEF Declare, DeclareService
  <1>4. PICK n : n = Len(declared) + 1
    OBVIOUS
  <1>5. ASSUME NEW t \in ServiceNames
        PROVE  /\ ParamsOf(t)' = ParamsOf(t)
               /\ \A k \in ParamsOf(t) : declared'[k] = declared[k] /\ Number(t, k)' = Number(t, k)
    BY <1>1, <1>4, ParamsGrow DEF DeclarationsInv
  <1>6. declared' \in Seq(Macros)
    BY <1>1 DEF DeclarationsInv, DeclarationsTypeOK
  <1>7. InfoInv'
    <2>1. ASSUME NEW t \in ServiceNames
          PROVE  /\ DOMAIN info[t] = NamesOf(t)
                 /\ \A k \in LastOf(t) : info[t][declared[k].param] = Number(t, k)
                 /\ \A q \in NamesOf(t) : \E k \in LastOf(t) : declared[k].param = q
      BY DEF InfoInv, DeclarationsInv
    <2>2. ASSUME NEW t \in ServiceNames
          PROVE  /\ DOMAIN info'[t] = NamesOf(t)'
                 /\ \A k \in LastOf(t)' : info'[t][declared'[k].param] = Number(t, k)'
                 /\ \A q \in NamesOf(t)' : \E k \in LastOf(t)' : declared'[k].param = q
      <3>1. /\ NamesOf(t)' = NamesOf(t) /\ LastOf(t)' = LastOf(t)
            /\ \A k \in LastOf(t) : declared'[k] = declared[k] /\ Number(t, k)' = Number(t, k)
        BY <1>5, NamesStay
      <3>2. info'[t] = info[t]
        BY <1>1
      <3>3. \A k \in LastOf(t)' : info'[t][declared'[k].param] = Number(t, k)'
        <4> TAKE k \in LastOf(t)'
        <4>1. k \in LastOf(t)
          BY <3>1
        <4>. QED  BY <2>1, <3>1, <3>2, <4>1
      <3>4. \A q \in NamesOf(t)' : \E k \in LastOf(t)' : declared'[k].param = q
        <4> TAKE q \in NamesOf(t)'
        <4>1. PICK k \in LastOf(t) : declared[k].param = q
          BY <2>1, <3>1
        <4>. QED  BY <3>1, <4>1
      <3>. QED  BY <2>1, <3>1, <3>2, <3>3, <3>4
    <2>. QED  BY <2>2 DEF InfoInv
  <1>8. CASE Named(list, s) # {}
    <2>1. list' = list
      BY <1>3, <1>8 DEF InsertServiceInfo
    <2>2. DeclarationsTypeOK'
      BY <1>1, <1>6, <2>1 DEF DeclarationsInv, DeclarationsTypeOK
    <2>3. ServicesInv'
      BY <1>1, <1>5, <2>1 DEF DeclarationsInv, ServicesInv
    <2>. QED  BY <1>7, <2>2, <2>3 DEF DeclarationsInv
  <1>9. CASE Named(list, s) = {}
    <2>1. PICK e \in Services : e.name = s /\ e.params = info[s] /\ list' = Append(list, e)
      <3>1. info[s] \in ParamMaps
        BY DEF DeclarationsInv, DeclarationsTypeOK
      <3>2. [name |-> s, params |-> info[s]] \in Services
        BY <3>1 DEF Services
      <3>. QED  BY <1>3, <1>9, <3>2 DEF InsertServiceInfo
    <2>2. /\ list' \in Seq(Services) /\ DOMAIN list' = 1 .. Len(list) + 1
          /\ DOMAIN list = 1 .. Len(list) /\ list'[Len(list) + 1] = e
          /\ \A i \in 1 .. Len(list) : list'[i] = list[i]
      BY <2>1, ServiceAppended DEF DeclarationsInv, DeclarationsTypeOK
    <2>3. DeclarationsTypeOK'
      BY <1>1, <1>6, <2>2 DEF DeclarationsInv, DeclarationsTypeOK
    <2>4. Len(list) \in Nat
      BY DEF DeclarationsInv, DeclarationsTypeOK
    <2>5. \A i \in 1 .. Len(list) : list[i].name # s
      BY <1>9, <2>2 DEF Named
    <2>6. \A i, j \in DOMAIN list' : list'[i].name = list'[j].name => i = j
      BY <2>1, <2>2, <2>4, <2>5 DEF DeclarationsInv, ServicesInv
    <2>7. \A i \in DOMAIN list' : list'[i].params = info'[list'[i].name]
      BY <1>1, <2>1, <2>2, <2>4 DEF DeclarationsInv, ServicesInv
    <2>8. \A t \in ServiceNames : ParamsOf(t)' # {} => Named(list', t) # {}
      <3> SUFFICES ASSUME NEW t \in ServiceNames, ParamsOf(t)' # {}
                   PROVE  Named(list', t) # {}
        OBVIOUS
      <3>1. PICK i \in 1 .. Len(list) : list[i].name = t
        BY <1>5, <2>2 DEF DeclarationsInv, ServicesInv, Named
      <3>. QED  BY <2>2, <2>4, <3>1 DEF Named
    <2>9. ServicesInv'
      BY <2>6, <2>7, <2>8 DEF ServicesInv
    <2>. QED  BY <1>7, <2>3, <2>9 DEF DeclarationsInv
  <1>. QED  BY <1>8, <1>9

LEMMA DeclareParamInv ==
  ASSUME DeclarationsInv, NEW d \in Macros, Declare(d), d.param # NoParam
  PROVE  DeclarationsInv'
  <1>1. PICK s \in ServiceNames, p \in ParamNames : s = d.service /\ p = d.param
    BY DEF Macros
  <1>2. PICK a : a = AddServiceParam(info[s], p)
    OBVIOUS
  <1>3. /\ declared' = Append(declared, d) /\ info' = [info EXCEPT ![s] = a]
        /\ list' = InsertParamInfo(list, s, info'[s])
    BY <1>1, <1>2 DEF Declare, DeclareParam
  <1>4. DeclarationsTypeOK /\ InfoInv /\ ServicesInv /\ info[s] \in ParamMaps
    BY DEF DeclarationsInv, DeclarationsTypeOK
  <1>5. /\ info'[s] = a /\ \A t \in ServiceNames : t # s => info'[t] = info[t]
        /\ list' = InsertParamInfo(list, s, a)
    BY <1>3, <1>4 DEF DeclarationsTypeOK
  <1>6. /\ a \in ParamMaps /\ DOMAIN a = DOMAIN info[s] \cup {p} /\ IsFiniteSet(DOMAIN a)
        /\ a[p] = Cardinality(DOMAIN info[s])
        /\ \A q \in DOMAIN info[s] : q # p => a[q] = info[s][q]
    BY <1>2, <1>4, ParamAdded DEF DeclarationsTypeOK
  <1>7. /\ declared' \in Seq(Macros) /\ info' \in [ServiceNames -> ParamMaps]
        /\ \A t \in ServiceNames : IsFiniteSet(DOMAIN info'[t])
    BY <1>3, <1>4, <1>5, <1>6 DEF DeclarationsTypeOK
  <1>8. PICK n : n = Len(declared) + 1
    OBVIOUS
  <1>9. ASSUME NEW t \in ServiceNames, t # s
        PROVE  /\ ParamsOf(t)' = ParamsOf(t)
               /\ \A k \in ParamsOf(t) : declared'[k] = declared[k] /\ Number(t, k)' = Number(t, k)
    BY <1>1, <1>3, <1>4, <1>8, <1>9, ParamsGrow
  <1>10. /\ ParamsOf(s)' = ParamsOf(s) \cup {n} /\ declared'[n] = d /\ n \notin ParamsOf(s)
         /\ \A k \in ParamsOf(s) : declared'[k] = declared[k] /\ Number(s, k)' = Number(s, k)
         /\ Number(s, n)' = Cardinality(NamesOf(s)) /\ n \in Nat
         /\ \A k \in ParamsOf(s) : k < n /\ k \in Nat
    BY <1>1, <1>3, <1>4, <1>8, ParamsGrow
  <1>11. InfoInv'
    <2>1. ASSUME NEW t \in ServiceNames, t # s
          PROVE  /\ DOMAIN info'[t] = NamesOf(t)'
                 /\ \A k \in LastOf(t)' : info'[t][declared'[k].param] = Number(t, k)'
                 /\ \A q \in NamesOf(t)' : \E k \in LastOf(t)' : declared'[k].param = q
      BY <1>4, <1>5, <1>9, <2>1, NamesStay DEF InfoInv
    <2>2. /\ DOMAIN info[s] = NamesOf(s)
          /\ \A k \in LastOf(s) : info[s][declared[k].param] = Number(s, k)
          /\ \A q \in NamesOf(s) : \E k \in LastOf(s) : declared[k].param = q
      BY <1>4 DEF InfoInv
    <2>3. NamesOf(s)' = NamesOf(s) \cup {p}
      BY <1>1, <1>10 DEF NamesOf
    <2>4. n \in LastOf(s)'
      BY <1>10 DEF LastOf
    <2>5. LastOf(s)' \subseteq LastOf(s) \cup {n}
      BY <1>10 DEF LastOf
    <2>6. \A k \in LastOf(s)' : k # n => declared[k].param # p
      BY <1>1, <1>10 DEF LastOf
    <2>7. \A k \in LastOf(s) : declared[k].param # p => k \in LastOf(s)'
      BY <1>1, <1>10 DEF LastOf
    <2>8. \A k \in LastOf(s) : k \in ParamsOf(s) /\ declared[k].param \in NamesOf(s)
      BY DEF LastOf, NamesOf
    <2>9. ASSUME NEW k \in LastOf(s)'
          PROVE  info'[s][declared'[k].param] = Number(s, k)'
      <3>1. CASE k = n
        BY <1>1, <1>5, <1>6, <1>10, <2>2, <3>1
      <3>2. CASE k # n
        <4>1. k \in LastOf(s) /\ declared[k].param # p
          BY <2>5, <2>6, <3>2
        <4>. QED  BY <1>5, <1>6, <1>10, <2>2, <2>8, <4>1
      <3>. QED  BY <3>1, <3>2
    <2>10. ASSUME NEW q \in NamesOf(s)'
           PROVE  \E k \in LastOf(s)' : declared'[k].param = q
      <3>1. CASE q = p
        BY <1>1, <1>10, <2>4, <3>1
      <3>2. CASE q # p
        <4>1. PICK k \in LastOf(s) : declared[k].param = q
          BY <2>2, <2>3, <3>2
        <4>. QED  BY <1>10, <2>7, <2>8, <3>2, <4>1
      <3>. QED  BY <3>1, <3>2
    <2>11. DOMAIN info'[s] = NamesOf(s)'
      BY <1>5, <1>6, <2>2, <2>3
    <2>. QED  BY <2>1, <2>9, <2>10, <2>11 DEF InfoInv
  <1>12. Len(list) \in Nat /\ DOMAIN list = 1 .. Len(list) /\ list \in Seq(Services)
    BY <1>4 DEF DeclarationsTypeOK
  <1>13. CASE Named(list, s) = {}
    <2>1. PICK e \in Services : e.name = s /\ e.params = a /\ list' = Append(list, e)
      <3>1. [name |-> s, params |-> a] \in Services
        BY <1>6 DEF Services
      <3>. QED  BY <1>5, <1>13, <3>1 DEF InsertParamInfo
    <2>2. /\ list' \in Seq(Services) /\ DOMAIN list' = 1 .. Len(list) + 1
          /\ DOMAIN list = 1 .. Len(list) /\ list'[Len(list) + 1] = e
          /\ \A i \in 1 .. Len(list) : list'[i] = list[i]
      BY <1>12, <2>1, ServiceAppended
    <2>3. DeclarationsTypeOK'
      BY <1>7, <2>2 DEF DeclarationsTypeOK
    <2>4. \A i \in 1 .. Len(list) : list[i].name # s /\ list[i].name \in ServiceNames
      <3>1. \A i \in 1 .. Len(list) : list[i] \in Services
        BY <1>12
      <3>2. \A i \in 1 .. Len(list) : list[i].name # s
        BY <1>12, <1>13 DEF Named
      <3>. QED  BY <3>1, <3>2 DEF Services
    <2>5. \A i, j \in DOMAIN list' : list'[i].name = list'[j].name => i = j
      BY <1>4, <1>12, <2>1, <2>2, <2>4 DEF ServicesInv
    <2>6. \A i \in DOMAIN list' : list'[i].params = info'[list'[i].name]
      BY <1>4, <1>5, <1>12, <2>1, <2>2, <2>4 DEF ServicesInv
    <2>7. \A t \in ServiceNames : ParamsOf(t)' # {} => Named(list', t) # {}
      <3> SUFFICES ASSUME NEW t \in ServiceNames, ParamsOf(t)' # {}
                   PROVE  Named(list', t) # {}
        OBVIOUS
      <3>1. CASE t = s
        BY <1>12, <2>1, <2>2, <3>1 DEF Named
      <3>2. CASE t # s
        <4>1. PICK i \in 1 .. Len(list) : list[i].name = t
          BY <1>4, <1>9, <1>12, <3>2 DEF ServicesInv, Named
        <4>. QED  BY <1>12, <2>2, <4>1 DEF Named
      <3>. QED  BY <3>1, <3>2
    <2>8. ServicesInv'
      BY <2>5, <2>6, <2>7 DEF ServicesInv
    <2>. QED  BY <1>11, <2>3, <2>8 DEF DeclarationsInv
  <1>14. CASE Named(list, s) # {}
    <2>1. PICK i \in 1 .. Len(list) :
            /\ Min(Named(list, s)) = i /\ list[i].name = s /\ list[i].params = info[s]
            /\ \A j \in 1 .. Len(list) : list[j].name = s => j = i
      BY <1>4, <1>14, EntryFound
    <2>2. list' = [list EXCEPT ![i].params = a]
      BY <1>5, <1>14, <2>1 DEF InsertParamInfo
    <2>3. list[i] \in Services
      BY <1>12, <2>1
    <2>4. PICK e \in Services : e.name = s /\ e.params = a /\ list' = [list EXCEPT ![i] = e]
      <3>1. [list[i] EXCEPT !.params = a] \in Services
        BY <1>6, <2>3 DEF Services
      <3>2. [list[i] EXCEPT !.params = a].name = s /\ [list[i] EXCEPT !.params = a].params = a
        BY <2>1, <2>3 DEF Services
      <3>. QED  BY <2>2, <3>1, <3>2
    <2>5. /\ list' \in Seq(Services) /\ DOMAIN list' = 1 .. Len(list) /\ list'[i] = e
          /\ \A j \in 1 .. Len(list) : j # i => list'[j] = list[j]
      BY <1>12, <2>1, <2>4
    <2>6. DeclarationsTypeOK'
      BY <1>7, <2>5 DEF DeclarationsTypeOK
    <2>7. \A j \in 1 .. Len(list) : list'[j].name = list[j].name
      BY <2>1, <2>4, <2>5
    <2>8. \A j, k \in DOMAIN list' : list'[j].name = list'[k].name => j = k
      BY <1>4, <1>12, <2>5, <2>7 DEF ServicesInv
    <2>9. \A j \in DOMAIN list' : list'[j].params = info'[list'[j].name]
      <3> SUFFICES ASSUME NEW j \in 1 .. Len(list)
                   PROVE  list'[j].params = info'[list'[j].name]
        BY <2>5
      <3>1. CASE j = i
        BY <1>5, <2>4, <2>5, <3>1
      <3>2. CASE j # i
        <4>1. list[j].name # s /\ list[j].name \in ServiceNames
          <5>1. list[j] \in Services
            BY <1>12
          <5>2. list[j].name # s
            BY <2>1, <3>2
          <5>. QED  BY <5>1, <5>2 DEF Services
        <4>. QED  BY <1>4, <1>5, <1>12, <2>5, <3>2, <4>1 DEF ServicesInv
      <3>. QED  BY <3>1, <3>2
    <2>10. \A t \in ServiceNames : ParamsOf(t)' # {} => Named(list', t) # {}
      <3> SUFFICES ASSUME NEW t \in ServiceNames, ParamsOf(t)' # {}
                   PROVE  Named(list', t) # {}
        OBVIOUS
      <3>1. CASE t = s
        BY <2>1, <2>5, <2>7, <3>1 DEF Named
      <3>2. CASE t # s
        <4>1. PICK j \in 1 .. Len(list) : list[j].name = t
          BY <1>4, <1>9, <1>12, <3>2 DEF ServicesInv, Named
        <4>. QED  BY <2>5, <2>7, <4>1 DEF Named
      <3>. QED  BY <3>1, <3>2
    <2>11. ServicesInv'
      BY <2>8, <2>9, <2>10 DEF ServicesInv
    <2>. QED  BY <1>11, <2>6, <2>11 DEF DeclarationsInv
  <1>. QED  BY <1>13, <1>14

\* INSERT_PARAM_INFO and call: value i of a service goes to the parameter
\* declared after i others, wherever the service itself was declared; one that
\* is declared again moves behind all names so far, its own included.
THEOREM ValuesReachTheirParams == DeclarationsSpec => []ParamsExact
  <1>1. DeclarationsInit => DeclarationsInv
    <2> SUFFICES ASSUME DeclarationsInit
                 PROVE  DeclarationsInv
      OBVIOUS
    <2>1. declared = <<>> /\ list = <<>> /\ info = [s \in ServiceNames |-> <<>>]
      BY DEF DeclarationsInit
    <2>2. DOMAIN <<>> = {} /\ <<>> \in [{} -> Nat] /\ IsFiniteSet({})
      BY FS_EmptySet
    <2>3. <<>> \in ParamMaps
      BY <2>2 DEF ParamMaps
    <2>4. DeclarationsTypeOK
      BY <2>1, <2>2, <2>3 DEF DeclarationsTypeOK
    <2>5. \A s \in ServiceNames : ParamsOf(s) = {}
      BY <2>1, <2>2 DEF ParamsOf
    <2>6. InfoInv
      BY <2>1, <2>2, <2>5 DEF InfoInv, NamesOf, LastOf
    <2>7. ServicesInv
      BY <2>1, <2>2, <2>5 DEF ServicesInv
    <2>. QED  BY <2>4, <2>6, <2>7 DEF DeclarationsInv
  <1>2. DeclarationsInv /\ [DeclarationsNext]_declarationsVars => DeclarationsInv'
    <2> SUFFICES ASSUME DeclarationsInv, [DeclarationsNext]_declarationsVars
                 PROVE  DeclarationsInv'
      OBVIOUS
    <2>1. CASE DeclarationsNext
      BY <2>1, DeclareServiceInv, DeclareParamInv DEF DeclarationsNext
    <2>2. CASE UNCHANGED declarationsVars
      <3>1. declared' = declared /\ info' = info /\ list' = list
        BY <2>2 DEF declarationsVars
      <3>2. \A s \in ServiceNames :
              /\ ParamsOf(s)' = ParamsOf(s) /\ NamesOf(s)' = NamesOf(s) /\ LastOf(s)' = LastOf(s)
              /\ \A k \in LastOf(s) : Number(s, k)' = Number(s, k)
        BY <3>1 DEF ParamsOf, NamesOf, LastOf, Number
      <3>3. InfoInv'
        BY <3>1, <3>2 DEF DeclarationsInv, InfoInv
      <3>. QED  BY <3>1, <3>2, <3>3 DEF DeclarationsInv, DeclarationsTypeOK, ServicesInv, Named
    <2>. QED  BY <2>1, <2>2
  <1>3. DeclarationsInv => ParamsExact
    <2> SUFFICES ASSUME DeclarationsInv, NEW s \in ServiceNames, ParamsOf(s) # {},
                        NEW i \in 0 .. Cardinality(NamesOf(s))
                 PROVE  ParamOf(list, s, i, Cardinality(NamesOf(s)))
                          = {declared[k].param : k \in {j \in LastOf(s) : Number(s, j) = i}}
      BY DEF ParamsExact, ServiceMap
    <2>1. PICK j \in 1 .. Len(list) :
            Min(Named(list, s)) = j /\ list[j].params = info[s]
      BY EntryFound DEF DeclarationsInv, ServicesInv
    <2>2. /\ DOMAIN info[s] = NamesOf(s)
          /\ \A k \in LastOf(s) : info[s][declared[k].param] = Number(s, k)
          /\ \A p \in NamesOf(s) : \E k \in LastOf(s) : declared[k].param = p
      BY DEF DeclarationsInv, InfoInv
    <2>3. \A k \in LastOf(s) : declared[k].param \in NamesOf(s)
      BY DEF LastOf, NamesOf
    <2>4. {p \in NamesOf(s) : info[s][p] = i}
            = {declared[k].param : k \in {j_1 \in LastOf(s) : Number(s, j_1) = i}}
      BY <2>2, <2>3
    <2>. QED  BY <2>1, <2>2, <2>4 DEF ParamOf
  <1>. QED  BY <1>1, <1>2, <1>3, PTL DEF DeclarationsSpec

-----------------------------------------------------------------------------
(* Timer.                                                                  *)

Positions == {"idle", "start", "started", "stop", "exit", "wait"}
Alive == {"new", "check", "fire", "sleep"}

TimerTypeOK ==
  /\ m_state \in {"IDLE", "RUNNING", "STOPPED"}
  /\ m_exitFlag \in BOOLEAN /\ m_thread \in BOOLEAN /\ restarted \in BOOLEAN
  /\ at \in {"none", "ended"} \cup Alive
  /\ suspended \in {0, 1} /\ calls \in Nat
  /\ pc \in [Callers -> Positions]

\* One caller at a time is in a call.
CallsExclude == \A c, d \in Callers : pc[c] # "idle" /\ pc[d] # "idle" => c = d

\* A suspended thread is one that exit and start resume.
SuspendInv ==
  /\ suspended = 1 => m_state = "STOPPED" /\ m_thread
  /\ \A c \in Callers : pc[c] \in {"started", "wait"} => suspended = 0
  /\ \A c \in Callers : pc[c] = "started" => m_state # "STOPPED"
  /\ \A c \in Callers : pc[c] = "wait" => m_exitFlag

\* There is no thread where there seems to be none; where there seems to be
\* one it lives, unless it ended before start had set m_state.
ThreadInv ==
  /\ m_state = "IDLE" /\ (\A c \in Callers : pc[c] # "started") => at \notin Alive
  /\ ~m_thread => at \notin Alive
  /\ m_state # "IDLE" => at \in Alive \/ RunningForGood
  /\ \A c \in Callers : pc[c] = "started" =>
       /\ at \in Alive \cup {"ended"}
       /\ ~restarted => ~m_exitFlag /\ at \in Alive

TimerInv == TimerTypeOK /\ CallsExclude /\ SuspendInv /\ ThreadInv

LEMMA TimerInvInit ==
  ASSUME TimerInit
  PROVE  TimerInv
  <1>1. /\ m_state = "IDLE" /\ at = "none" /\ suspended = 0 /\ calls = 0
        /\ ~m_exitFlag /\ ~m_thread /\ ~restarted
        /\ m_exitFlag \in BOOLEAN /\ m_thread \in BOOLEAN /\ restarted \in BOOLEAN
    BY DEF TimerInit
  <1>2. pc \in [Callers -> Positions] /\ \A c \in Callers : pc[c] = "idle"
    BY DEF TimerInit, Positions
  <1>. QED  BY <1>1, <1>2 DEF TimerInv, TimerTypeOK, CallsExclude, SuspendInv, ThreadInv, Alive

LEMMA TimerInvNext ==
  ASSUME TimerInv, [TimerNext]_timerVars
  PROVE  TimerInv'
  <1> USE DEF TimerInv, RunningForGood
  <1>1. ASSUME NEW c \in Callers, NEW l \in {"start", "stop", "exit"}, Call(c, l)
        PROVE  TimerInv'
    BY <1>1 DEF Call, Goto, Unlocked, TimerTypeOK, CallsExclude, SuspendInv, ThreadInv,
                Positions
  <1>2. ASSUME NEW c \in Callers, Start(c)
        PROVE  TimerInv'
    <2>1. pc[c] = "start" /\ UNCHANGED <<m_state, m_exitFlag, calls>>
      BY <1>2 DEF Start
    <2>2. \A d \in Callers \ {c} : pc[d] = "idle"
      BY <2>1 DEF CallsExclude
    <2>3. ASSUME NEW l \in Positions, Goto(c, l)
          PROVE  /\ pc' \in [Callers -> Positions] /\ pc'[c] = l /\ CallsExclude'
                 /\ \A d \in Callers \ {c} : pc'[d] = "idle"
      BY <2>2, <2>3 DEF Goto, TimerTypeOK, CallsExclude, Positions
    <2>4. CASE /\ m_state = "IDLE" /\ m_thread' = TRUE /\ at' = "new" /\ suspended' = 0
               /\ restarted' = (restarted \/ m_exitFlag)
               /\ Goto(c, "started")
      <3>1. /\ pc' \in [Callers -> Positions] /\ pc'[c] = "started" /\ CallsExclude'
            /\ \A d \in Callers \ {c} : pc'[d] = "idle"
        BY <2>3, <2>4 DEF Positions
      <3>2. ~restarted' => ~m_exitFlag
        BY <2>4
      <3>3. TimerTypeOK'
        BY <2>1, <2>4, <3>1 DEF TimerTypeOK, Alive
      <3>. QED  BY <2>1, <2>4, <3>1, <3>2, <3>3 DEF SuspendInv, ThreadInv, Alive
    <2>5. CASE /\ Goto(c, "idle") /\ UNCHANGED <<at, restarted>>
               /\ \/ m_state = "IDLE" /\ m_thread' = FALSE /\ UNCHANGED suspended
                  \/ m_state = "STOPPED" /\ m_thread /\ UNCHANGED m_thread /\ Resume
                  \/ UNCHANGED <<m_thread, suspended>>
      <3>1. /\ pc' \in [Callers -> Positions] /\ pc'[c] = "idle" /\ CallsExclude'
            /\ \A d \in Callers : pc'[d] = "idle"
        BY <2>3, <2>5 DEF Positions
      <3>2. suspended' \in {0, 1} /\ (suspended' = 1 => m_state = "STOPPED" /\ m_thread')
        BY <2>5 DEF Resume, TimerTypeOK, SuspendInv
      <3>3. \A d \in Callers : pc[d] # "started"
        BY <2>1, <2>2
      <3>4. ~m_thread' => at \notin Alive
        BY <2>5, <3>3 DEF ThreadInv
      <3>5. m_thread' \in BOOLEAN
        BY <2>5 DEF TimerTypeOK
      <3>6. TimerTypeOK'
        BY <2>1, <2>5, <3>1, <3>2, <3>5 DEF TimerTypeOK
      <3>. QED  BY <2>1, <2>5, <3>1, <3>2, <3>3, <3>4, <3>6 DEF SuspendInv, ThreadInv
    <2>. QED  BY <1>2, <2>4, <2>5 DEF Start
  <1>3. ASSUME NEW c \in Callers, Started(c)
        PROVE  TimerInv'
    BY <1>3 DEF Started, Goto, TimerTypeOK, CallsExclude, SuspendInv, ThreadInv,
                Positions
  <1>4. ASSUME NEW c \in Callers, Stop(c)
        PROVE  TimerInv'
    BY <1>4 DEF Stop, Goto, TimerTypeOK, CallsExclude, SuspendInv, ThreadInv,
                Positions, Alive
  <1>5. ASSUME NEW c \in Callers, Exit(c)
        PROVE  TimerInv'
    <2>1. pc[c] \in {"exit", "wait"} /\ UNCHANGED <<m_state, at, calls, restarted>>
      BY <1>5 DEF Exit
    <2>2. \A d \in Callers \ {c} : pc[d] = "idle"
      BY <2>1 DEF CallsExclude
    <2>3. ASSUME NEW l \in Positions, Goto(c, l)
          PROVE  /\ pc' \in [Callers -> Positions] /\ pc'[c] = l /\ CallsExclude'
                 /\ \A d \in Callers \ {c} : pc'[d] = "idle"
      BY <2>2, <2>3 DEF Goto, TimerTypeOK, CallsExclude, Positions
    <2>4. \A d \in Callers : pc[d] # "started"
      BY <2>1, <2>2
    <2>5. CASE /\ m_state = "IDLE" /\ m_thread' = (m_thread /\ pc[c] = "exit")
               /\ Goto(c, "idle") /\ UNCHANGED <<m_exitFlag, suspended>>
      <3>1. /\ pc' \in [Callers -> Positions] /\ CallsExclude'
            /\ \A d \in Callers : pc'[d] = "idle"
        BY <2>3, <2>5 DEF Positions
      <3>2. suspended = 0 /\ at \notin Alive
        BY <2>4, <2>5 DEF TimerTypeOK, SuspendInv, ThreadInv
      <3>3. m_thread' \in BOOLEAN
        BY <2>5
      <3>4. TimerTypeOK'
        BY <2>1, <2>5, <3>1, <3>3 DEF TimerTypeOK
      <3>. QED  BY <2>1, <2>5, <3>1, <3>2, <3>4 DEF SuspendInv, ThreadInv
    <2>6. CASE /\ m_state # "IDLE" /\ m_exitFlag' = TRUE /\ UNCHANGED m_thread
               /\ Goto(c, "wait")
               /\ IF m_state = "STOPPED" /\ m_thread THEN ExitStopped
                  ELSE UNCHANGED suspended
      <3>1. /\ pc' \in [Callers -> Positions] /\ CallsExclude' /\ pc'[c] = "wait"
            /\ \A d \in Callers \ {c} : pc'[d] = "idle"
        BY <2>3, <2>6 DEF Positions
      <3>2. suspended' = 0
        BY <2>6 DEF ExitStopped, Resume, TimerTypeOK, SuspendInv
      <3>3. TimerTypeOK'
        BY <2>1, <2>6, <3>1, <3>2 DEF TimerTypeOK
      <3>. QED  BY <2>1, <2>6, <3>1, <3>2, <3>3 DEF SuspendInv, ThreadInv
    <2>. QED  BY <1>5, <2>5, <2>6 DEF Exit
  <1>6. CASE Thread
    BY <1>6 DEF Thread, TimerTypeOK, CallsExclude, SuspendInv, ThreadInv, Alive
  <1>7. CASE UNCHANGED timerVars
    BY <1>7 DEF timerVars, TimerTypeOK, CallsExclude, SuspendInv, ThreadInv
  <1> HIDE DEF TimerInv, RunningForGood
  <1>. QED  BY <1>1, <1>2, <1>3, <1>4, <1>5, <1>6, <1>7 DEF TimerNext

LEMMA TimerInvariant == TimerSpec => []TimerInv
  <1>1. TimerInit => TimerInv
    BY TimerInvInit
  <1>2. TimerInv /\ [TimerNext]_timerVars => TimerInv'
    BY TimerInvNext
  <1>. QED  BY <1>1, <1>2, PTL DEF TimerSpec

\* exit: as long as it waits the thread it waits for lives, has been told to
\* end and is not suspended, unless it ended, in a timer started after an exit,
\* before start had set m_state.
NotStranded ==
  \A c \in Callers :
    pc[c] = "wait" /\ m_state # "IDLE" /\ ~RunningForGood =>
      at \in Alive /\ m_exitFlag /\ suspended = 0

\* exit, stop and start by any number of threads: exit never waits for a
\* thread that cannot end.
THEOREM ExitCanReturn == TimerSpec => []NotStranded
  <1>1. TimerInv => NotStranded
    BY DEF TimerInv, SuspendInv, ThreadInv, NotStranded
  <1>. QED  BY <1>1, TimerInvariant, PTL

\* start makes a thread only when there is none, and a handle is dropped only
\* when its thread has ended.
OneThread ==
  [][/\ at' = "new" => at \in {"none", "ended", "new"}
     /\ m_thread /\ ~m_thread' => at \notin Alive]_timerVars

\* start, exit: the timer never has two threads, and never loses a handle to
\* one that runs, also when it is started again.
THEOREM TimerHasOneThread == TimerSpec => OneThread
  <1>1. ASSUME TimerInv, TimerNext
        PROVE  /\ at' = "new" => at \in {"none", "ended", "new"}
               /\ m_thread /\ ~m_thread' => at \notin Alive
    <2>1. ASSUME NEW c \in Callers, Start(c)
          PROVE  /\ at' = "new" => at \in {"none", "ended", "new"}
                 /\ m_thread /\ ~m_thread' => at \notin Alive
      <3>1. pc[c] = "start" /\ \A d \in Callers : pc[d] # "started"
        BY <1>1, <2>1 DEF Start, TimerInv, CallsExclude
      <3>2. m_state = "IDLE" => at \in {"none", "ended"} /\ at \notin Alive
        BY <1>1, <3>1 DEF TimerInv, ThreadInv, TimerTypeOK
      <3>. QED  BY <2>1, <3>2 DEF Start
    <2>2. ASSUME NEW c \in Callers, Exit(c)
          PROVE  at' = at /\ (m_thread /\ ~m_thread' => at \notin Alive)
      <3>1. \A d \in Callers : pc[d] # "started"
        BY <1>1, <2>2 DEF Exit, TimerInv, CallsExclude
      <3>. QED  BY <1>1, <2>2, <3>1 DEF Exit, TimerInv, ThreadInv
    <2>3. ASSUME NEW c \in Callers, NEW l \in {"start", "stop", "exit"},
                 Call(c, l) \/ Started(c) \/ Stop(c)
          PROVE  UNCHANGED <<at, m_thread>>
      BY <2>3 DEF Call, Started, Stop
    <2>4. Thread => at' # "new" /\ UNCHANGED m_thread
      BY DEF Thread
    <2>. QED  BY <1>1, <2>1, <2>2, <2>3, <2>4 DEF TimerNext, Alive, TimerInv, TimerTypeOK
  <1>. QED  BY <1>1, TimerInvariant, PTL DEF TimerSpec, OneThread

-----------------------------------------------------------------------------
(* Audio: LameHelper::Encode.                                              *)

EncoderTypeOK ==
  encoder \in [at : {"init", "loop", "failed", "ended", "thrown"}, length : PcmLengths,
               cumulative : Nat, encoded : SUBSET Nat, again : BOOLEAN]

\* cumulative_read is that of whole frames, and inside of the data; behind
\* the first buffer the data has more than one.
ReadInv ==
  LET cum == encoder.cumulative IN
  /\ \E c \in Nat : cum = 4 * c
  /\ cum = 0 \/ cum < encoder.length
  /\ encoder.encoded # {} => Buffer < encoder.length

\* The buffers before cum.
Before(cum) == {k \in 0 .. cum - 1 : k % Buffer = 0}

\* The loop goes forward, buffer by buffer,
Forward ==
  /\ \E n \in Nat : encoder.cumulative = n * Buffer
  /\ encoder.encoded = Before(encoder.cumulative) /\ ~encoder.again

\* until it goes back from the last one to the end of the data.
Back ==
  /\ encoder.cumulative + Buffer = encoder.length
  /\ encoder.encoded = AllButLast(encoder.length) /\ ~encoder.again

\* At the end of the loop; and what was encoded again was encoded before.
EndedRight ==
  /\ encoder.at = "ended" =>
       ~encoder.again /\ encoder.encoded = AllButLast(encoder.length)
  /\ encoder.again => encoder.encoded # {}

EncoderInv ==
  /\ EncoderTypeOK /\ ReadInv /\ EndedRight
  /\ encoder.length % 4 = 0 => Forward \/ Back

LEMMA BufferSize == Buffer = 4 * PcmSize /\ Buffer \in Nat \ {0} /\ PcmSize \in Nat \ {0}
  BY AudioAssumption DEF Buffer, Frame

\* The powers as numbers.
LEMMA Widths ==
  /\ \E h, k \in Nat \ {0} :
       /\ 2 ^ (IntBits - 1) = h /\ 2 ^ IntBits = 2 * h /\ Buffer < h
       /\ 2 ^ SizeBits = 4 * (2 * h * k) /\ 2 * h * k \in Nat /\ 2 * h * k >= 2 * h
  <1>1. PICK h \in Nat \ {0} : 2 ^ (IntBits - 1) = h
    BY WidthAssumption
  <1>2. PICK k \in Nat \ {0} : 2 ^ (SizeBits - IntBits - 2) = k
    BY WidthAssumption
  <1>3. 2 ^ IntBits = 2 * h /\ 2 ^ SizeBits = 4 * (2 * h * k) /\ Buffer < h
    BY <1>1, <1>2, WidthAssumption, BufferSize
  <1>4. 2 * h * k \in Nat /\ 2 * h * k >= 2 * h
    OBVIOUS
  <1>. QED  BY <1>1, <1>3, <1>4

\* A number below m is its own remainder; one below 0 and not below -m has m
\* more.
LEMMA Remainder ==
  ASSUME NEW m \in Nat \ {0}, NEW q \in Int, NEW r \in 0 .. m - 1
  PROVE  (q * m + r) % m = r
  OBVIOUS

LEMMA Quarter ==
  ASSUME NEW q \in Int, NEW r \in 0 .. 3
  PROVE  (4 * q + r) \div 4 = q /\ (4 * q + r) % 4 = r
  OBVIOUS

LEMMA Fourths ==
  ASSUME NEW n \in Nat
  PROVE  \E q \in Nat, r \in 0 .. 3 : n = 4 * q + r /\ n % 4 = r
  <1>1. PICK q \in Int : q = n \div 4
    OBVIOUS
  <1>2. 4 * q <= n /\ n < 4 * q + 4
    BY <1>1
  <1>3. q \in Nat /\ n - 4 * q \in 0 .. 3 /\ n = 4 * q + (n - 4 * q)
    BY <1>2
  <1>. QED  BY <1>3, Quarter

\* read, where cumulative_read has a full buffer behind it that is not the
\* last,
LEMMA ReadFull ==
  ASSUME NEW length \in PcmLengths, NEW cum \in Nat, cum + Buffer < length
  PROVE  ReadSamples(length, cum) = PcmSize
  <1>1. PICK h, k \in Nat \ {0} :
          /\ 2 ^ (IntBits - 1) = h /\ 2 ^ IntBits = 2 * h /\ Buffer < h
          /\ 2 ^ SizeBits = 4 * (2 * h * k) /\ 2 * h * k \in Nat /\ 2 * h * k >= 2 * h
    BY Widths
  <1>2. length \in Nat /\ length < h
    BY <1>1, AudioAssumption
  <1>3. PICK m \in Nat \ {0} : m = 2 ^ SizeBits /\ m > h
    BY <1>1
  <1>4. cum + Buffer \in 0 .. m - 1
    BY <1>2, <1>3, BufferSize
  <1>5. (0 * m + (cum + Buffer)) % m = cum + Buffer
    BY <1>3, <1>4, Remainder
  <1>6. (cum + Buffer) % m = cum + Buffer
    BY <1>3, <1>4, <1>5
  <1>7. Unsigned(cum + Buffer) = cum + Buffer
    BY <1>3, <1>6 DEF Unsigned
  <1>. QED  BY <1>2, <1>7, BufferSize DEF ReadSamples

\* and where it has c frames less, rounded up; 0 is the end.
LEMMA ReadLast ==
  ASSUME NEW length \in PcmLengths, NEW cum \in Nat, cum = 0 \/ cum < length,
         NEW c \in Nat, NEW r \in 0 .. 3, cum + Buffer - length = 4 * c - r, 4 * c >= r
  PROVE  ReadSamples(length, cum) = -c
  <1>1. PICK h, k \in Nat \ {0} :
          /\ 2 ^ (IntBits - 1) = h /\ 2 ^ IntBits = 2 * h /\ Buffer < h
          /\ 2 ^ SizeBits = 4 * (2 * h * k) /\ 2 * h * k \in Nat /\ 2 * h * k >= 2 * h
    BY Widths
  <1>2. length \in Nat /\ length < h
    BY <1>1, AudioAssumption
  <1>3. PICK p \in Nat \ {0} : p = 2 * h * k
    BY <1>1
  <1>4. 2 ^ SizeBits = 4 * p /\ p >= 2 * h
    BY <1>1, <1>3
  <1>5. cum + Buffer \in 0 .. 4 * p - 1
    BY <1>1, <1>2, <1>4, BufferSize
  <1>6. Unsigned(cum + Buffer) = cum + Buffer
    <2>1. (0 * (4 * p) + (cum + Buffer)) % (4 * p) = cum + Buffer
      BY <1>5, Remainder
    <2>2. (cum + Buffer) % (4 * p) = cum + Buffer
      BY <1>5, <2>1
    <2>. QED  BY <1>4, <2>2 DEF Unsigned
  <1>7. c <= PcmSize /\ PcmSize < h
    BY <1>1, <1>2, BufferSize
  <1>8. ReadSamples(length, cum) = ToInt(Unsigned(length - (cum + Buffer)) \div 4)
    <2>1. cum + Buffer >= length
      BY <1>2, BufferSize
    <2>. QED  BY <1>6, <2>1 DEF ReadSamples, Frame
  <1>9. CASE c = 0
    <2>1. length - (cum + Buffer) = 0
      BY <1>2, <1>9, BufferSize
    <2>2. (0 * (4 * p) + 0) % (4 * p) = 0
      BY Remainder
    <2>3. Unsigned(length - (cum + Buffer)) = 0
      BY <1>4, <2>1, <2>2 DEF Unsigned
    <2>4. (4 * 0 + 0) \div 4 = 0
      BY Quarter
    <2>5. (0 * (2 * h) + 0) % (2 * h) = 0
      BY Remainder
    <2>6. ToInt(0) = 0
      BY <1>1, <2>5 DEF ToInt
    <2>. QED  BY <1>8, <1>9, <2>3, <2>4, <2>6
  <1>10. CASE c > 0
    <2>1. /\ length - (cum + Buffer) = (-1) * (4 * p) + (4 * (p - c) + r)
          /\ 4 * (p - c) + r \in 0 .. 4 * p - 1
      BY <1>2, <1>4, <1>7, <1>10, BufferSize
    <2>2. ((-1) * (4 * p) + (4 * (p - c) + r)) % (4 * p) = 4 * (p - c) + r
      BY <2>1, Remainder
    <2>3. Unsigned(length - (cum + Buffer)) = 4 * (p - c) + r
      BY <1>4, <2>1, <2>2 DEF Unsigned
    <2>4. (4 * (p - c) + r) \div 4 = p - c
      BY Quarter
    <2>5. p - c = (k - 1) * (2 * h) + (2 * h - c) /\ 2 * h - c \in 0 .. 2 * h - 1
      <3>1. (k - 1) * (2 * h) = p - 2 * h
        BY <1>3
      <3>. QED  BY <1>7, <1>10, <3>1, BufferSize
    <2>6. ((k - 1) * (2 * h) + (2 * h - c)) % (2 * h) = 2 * h - c
      <3>1. PICK m \in Nat \ {0}, q \in Int : m = 2 * h /\ q = k - 1
        OBVIOUS
      <3>2. PICK e \in 0 .. m - 1 : e = 2 * h - c
        BY <2>5, <3>1
      <3>3. (q * m + e) % m = e
        BY Remainder
      <3>. QED  BY <3>1, <3>2, <3>3
    <2>7. (p - c) % (2 * h) = 2 * h - c
      BY <2>5, <2>6
    <2>8. ~(2 * h - c < h)
      BY <1>7, BufferSize
    <2>9. ToInt(p - c) = (2 * h - c) - 2 * h
      BY <1>1, <2>7, <2>8 DEF ToInt
    <2>. QED  BY <1>8, <2>3, <2>4, <2>9
  <1>. QED  BY <1>9, <1>10

\* What there is to be read next.
LEMMA ReadCases ==
  ASSUME EncoderTypeOK, ReadInv
  PROVE  LET cum == encoder.cumulative
             read == ReadSamples(encoder.length, cum)
         IN \/ cum + Buffer < encoder.length /\ read = PcmSize /\ read > 0
            \/ cum + Buffer = encoder.length /\ read = 0 /\ encoder.length % 4 = 0
            \/ /\ cum + Buffer > encoder.length
               /\ \E c \in Nat \ {0}, r \in 0 .. 3 :
                    /\ read = -c /\ read < 0 /\ cum + Buffer - encoder.length = 4 * c - r
                    /\ encoder.length % 4 = 0 => r = 0
  <1>1. PICK length \in PcmLengths : length = encoder.length
    BY DEF EncoderTypeOK
  <1>2. length \in Nat
    BY AudioAssumption
  <1>3. PICK cum \in Nat : cum = encoder.cumulative
    BY DEF EncoderTypeOK
  <1>4. PICK b \in Nat : cum = 4 * b
    BY <1>3 DEF ReadInv
  <1>5. cum = 0 \/ cum < length
    BY <1>1, <1>3 DEF ReadInv
  <1>6. PICK q \in Nat, r \in 0 .. 3 : length = 4 * q + r /\ length % 4 = r
    BY <1>2, Fourths
  <1>7. PICK c \in Int : c = b + PcmSize - q
    BY BufferSize
  <1>8. cum + Buffer - length = 4 * c - r
    BY <1>4, <1>6, <1>7, BufferSize
  <1>9. CASE cum + Buffer < length
    <2>1. ReadSamples(length, cum) = PcmSize
      BY <1>9, ReadFull
    <2>. QED  BY <1>1, <1>3, <1>9, <2>1, BufferSize
  <1>10. CASE cum + Buffer = length
    <2>1. c = 0 /\ r = 0
      BY <1>2, <1>8, <1>10, BufferSize
    <2>2. ReadSamples(length, cum) = 0
      <3>1. c \in Nat /\ 4 * c >= r
        BY <2>1
      <3>2. ReadSamples(length, cum) = -c
        BY <1>5, <1>8, <3>1, ReadLast
      <3>3. PICK e \in Int : e = -c
        BY <1>7
      <3>4. c + e = 0
        BY <1>7, <3>3
      <3>5. e = 0
        BY <2>1, <3>4
      <3>. QED  BY <3>2, <3>3, <3>5
    <2>3. length % 4 = 0
      BY <1>6, <2>1
    <2>. QED  BY <1>1, <1>3, <1>10, <2>2, <2>3
  <1>11. CASE cum + Buffer > length
    <2>1. c \in Nat \ {0} /\ 4 * c >= r
      BY <1>2, <1>8, <1>11, BufferSize
    <2>2. ReadSamples(length, cum) = -c /\ -c < 0
      BY <1>5, <1>8, <2>1, ReadLast
    <2>3. length % 4 = 0 => r = 0
      BY <1>6
    <2>. QED  BY <1>1, <1>3, <1>8, <1>11, <2>1, <2>2, <2>3
  <1>. QED  BY <1>2, <1>9, <1>10, <1>11, BufferSize

\* Between two buffers that follow each other none begins.
LEMMA Multiples ==
  ASSUME NEW n \in Nat, NEW k \in Nat
  PROVE  /\ (n * Buffer) % Buffer = 0
         /\ k % Buffer = 0 /\ k < n * Buffer => k + Buffer <= n * Buffer
         /\ k % Buffer = 0 /\ k > n * Buffer => k >= n * Buffer + Buffer
  <1>1. PICK b \in Nat \ {0} : b = Buffer
    BY BufferSize
  <1>2. PICK m \in Nat : m = n * b
    OBVIOUS
  <1>3. (n * b + 0) % b = 0
    BY Remainder
  <1>4. ASSUME k < m, k + b > m
        PROVE  k % b # 0
    <2>1. k = (n - 1) * b + (k + b - m) /\ k + b - m \in 0 .. b - 1
      BY <1>2, <1>4
    <2>2. ((n - 1) * b + (k + b - m)) % b = k + b - m
      <3>1. PICK q \in Int, e \in 0 .. b - 1 : q = n - 1 /\ e = k + b - m
        BY <2>1
      <3>2. (q * b + e) % b = e
        BY Remainder
      <3>. QED  BY <3>1, <3>2
    <2>. QED  BY <1>4, <2>1, <2>2
  <1>5. ASSUME k > m, k < m + b
        PROVE  k % b # 0
    <2>1. k = n * b + (k - m) /\ k - m \in 0 .. b - 1
      BY <1>2, <1>5
    <2>2. (n * b + (k - m)) % b = k - m
      <3>1. PICK e \in 0 .. b - 1 : e = k - m
        BY <2>1
      <3>2. (n * b + e) % b = e
        BY Remainder
      <3>. QED  BY <3>1, <3>2
    <2>. QED  BY <1>5, <2>1, <2>2
  <1>6. /\ m % b = 0
        /\ k % b = 0 /\ k < m => k + b <= m
        /\ k % b = 0 /\ k > m => k >= m + b
    BY <1>2, <1>3, <1>4, <1>5
  <1>. QED  BY <1>1, <1>2, <1>6

\* The buffers encoded on the way forward, when the last one is reached.
LEMMA LastReached ==
  ASSUME NEW length \in Nat, NEW n \in Nat, NEW cum \in Nat, cum = n * Buffer,
         cum = 0 \/ cum < length, cum + Buffer >= length
  PROVE  Before(cum) = AllButLast(length)
  <1>1. Buffer \in Nat \ {0}
    BY BufferSize
  <1>2. ASSUME NEW k \in Before(cum)
        PROVE  k \in AllButLast(length)
    <2>1. k \in Nat /\ k < cum /\ k % Buffer = 0
      BY DEF Before
    <2>2. k + Buffer <= cum
      BY <2>1, Multiples
    <2>. QED  BY <1>1, <2>1, <2>2 DEF AllButLast
  <1>3. ASSUME NEW k \in AllButLast(length)
        PROVE  k \in Before(cum)
    BY <1>1 DEF AllButLast, Before
  <1>. QED  BY <1>2, <1>3

LEMMA EncodeBufferInv ==
  ASSUME EncoderInv, EncodeBuffer
  PROVE  EncoderInv'
  <1>1. /\ encoder.length \in PcmLengths /\ encoder.length \in Nat
        /\ encoder.encoded \in SUBSET Nat /\ encoder.at = "loop"
    BY AudioAssumption DEF EncoderInv, EncoderTypeOK, EncodeBuffer, AtEnd
  <1>2. PICK cum \in Nat : cum = encoder.cumulative
    BY DEF EncoderInv, EncoderTypeOK
  <1>3. PICK read : read = ReadSamples(encoder.length, cum)
    OBVIOUS
  <1>. DEFINE overlaps == \E c \in encoder.encoded : cum < c + Buffer
  <1>4. \/ cum + Buffer < encoder.length /\ read = PcmSize /\ read > 0
        \/ cum + Buffer = encoder.length /\ read = 0 /\ encoder.length % 4 = 0
        \/ /\ cum + Buffer > encoder.length
           /\ \E c \in Nat \ {0}, r \in 0 .. 3 :
                /\ read = -c /\ read < 0 /\ cum + Buffer - encoder.length = 4 * c - r
                /\ encoder.length % 4 = 0 => r = 0
    BY <1>2, <1>3, ReadCases DEF EncoderInv
  <1>5. (\E c \in Nat : cum = 4 * c) /\ (cum = 0 \/ cum < encoder.length)
    BY <1>2 DEF EncoderInv, ReadInv
  <1>6. CASE read = 0 /\ encoder' = [encoder EXCEPT !.at = "ended"]
    <2>1. cum + Buffer = encoder.length /\ encoder.length % 4 = 0
      BY <1>4, <1>6
    <2>2. /\ EncoderTypeOK' /\ encoder'.length = encoder.length
          /\ encoder'.cumulative = encoder.cumulative /\ encoder'.encoded = encoder.encoded
      BY <1>6 DEF EncoderInv, EncoderTypeOK
    <2>3. encoder'.again = encoder.again
      BY <1>6 DEF EncoderInv, EncoderTypeOK
    <2>4. encoder.encoded = AllButLast(encoder.length) /\ ~encoder.again
      <3>1. CASE Forward
        <4>1. PICK n \in Nat : cum = n * Buffer
          BY <1>2, <3>1 DEF Forward
        <4>2. cum + Buffer >= encoder.length
          BY <1>1, <2>1
        <4>3. Before(cum) = AllButLast(encoder.length)
          BY <1>1, <1>5, <4>1, <4>2, LastReached
        <4>. QED  BY <1>2, <3>1, <4>3 DEF Forward
      <3>2. CASE Back
        BY <3>2 DEF Back
      <3>. QED  BY <2>1, <3>1, <3>2 DEF EncoderInv
    <2>5. ReadInv'
      BY <2>2 DEF EncoderInv, ReadInv
    <2>6. Back'
      BY <1>2, <2>1, <2>2, <2>3, <2>4 DEF Back
    <2>7. EndedRight'
      BY <2>2, <2>3, <2>4 DEF EndedRight
    <2>. QED  BY <2>2, <2>5, <2>6, <2>7 DEF EncoderInv
  <1>7. CASE /\ read > 0
             /\ encoder' = [encoder EXCEPT !.cumulative = cum + Frame * read,
                                           !.encoded = @ \union {cum},
                                           !.again = @ \/ overlaps]
    <2>1. cum + Buffer < encoder.length /\ read = PcmSize
      BY <1>4, <1>7
    <2>2. cum + Frame * read = cum + Buffer /\ cum + Buffer \in Nat
      BY <2>1, BufferSize DEF Frame
    <2>3. /\ encoder'.at = "loop" /\ encoder'.length = encoder.length
          /\ encoder'.cumulative = cum + Buffer
          /\ encoder'.encoded = encoder.encoded \cup {cum}
      BY <1>1, <1>7, <2>2 DEF EncoderInv, EncoderTypeOK
    <2>4. EncoderTypeOK'
      <3>1. (encoder.again \/ overlaps) \in BOOLEAN
        OBVIOUS
      <3>. QED  BY <1>1, <1>7, <2>2, <3>1 DEF EncoderInv, EncoderTypeOK
    <2>5. ReadInv'
      <3>1. PICK c \in Nat : cum = 4 * c
        BY <1>5
      <3>2. cum + Buffer = 4 * (c + PcmSize) /\ c + PcmSize \in Nat
        BY <3>1, BufferSize
      <3>. QED  BY <1>1, <2>1, <2>3, <3>2, BufferSize DEF ReadInv
    <2>6. EndedRight'
      BY <1>2, <2>3 DEF EndedRight
    <2>7. ASSUME encoder.length % 4 = 0
          PROVE  Forward'
      <3>1. Forward
        BY <1>2, <2>1, <2>7, BufferSize, <1>1 DEF EncoderInv, Back
      <3>2. PICK n \in Nat : cum = n * Buffer
        BY <1>2, <3>1 DEF Forward
      <3>3. cum + Buffer = (n + 1) * Buffer /\ n + 1 \in Nat
        BY <3>2, BufferSize
      <3>4. \A c \in Before(cum) : c + Buffer <= cum
        BY <3>2, Multiples DEF Before
      <3>5. ~overlaps
        BY <1>2, <3>1, <3>4, BufferSize DEF Forward, Before
      <3>6. ~encoder'.again
        BY <1>7, <3>1, <3>5 DEF Forward, EncoderInv, EncoderTypeOK
      <3>7. Before(cum + Buffer) = Before(cum) \cup {cum}
        <4>1. \A k \in Nat : k % Buffer = 0 /\ k < cum + Buffer => k <= cum
          <5>1. ASSUME NEW k \in Nat, k % Buffer = 0, k > cum
                PROVE  k >= cum + Buffer
            BY <3>2, <5>1, Multiples
          <5>. QED  BY <5>1, BufferSize
        <4>2. cum % Buffer = 0
          BY <3>2, Multiples
        <4>. QED  BY <4>1, <4>2, BufferSize DEF Before
      <3>. QED  BY <1>2, <2>3, <3>1, <3>3, <3>6, <3>7 DEF Forward
    <2>. QED  BY <2>3, <2>4, <2>5, <2>6, <2>7 DEF EncoderInv
  <1>8. CASE /\ read < 0 /\ encoder.encoded # {}
             /\ encoder' = [encoder EXCEPT !.cumulative = cum + Frame * read]
    <2>1. cum + Buffer > encoder.length
      BY <1>4, <1>8, BufferSize
    <2>2. PICK c \in Nat \ {0}, r \in 0 .. 3 :
            /\ read = -c /\ cum + Buffer - encoder.length = 4 * c - r
            /\ encoder.length % 4 = 0 => r = 0
      BY <1>1, <1>4, <1>8, BufferSize
    <2>3. PICK b \in Nat : cum = 4 * b
      BY <1>5
    <2>4. Buffer < encoder.length
      BY <1>8 DEF EncoderInv, ReadInv
    <2>5. /\ cum + Frame * read = 4 * (b - c) /\ cum + Frame * read + Buffer = encoder.length - r
          /\ b - c \in Nat /\ cum + Frame * read \in Nat
      BY <1>1, <2>2, <2>3, <2>4, BufferSize DEF Frame
    <2>6. /\ encoder'.at = "loop" /\ encoder'.length = encoder.length
          /\ encoder'.cumulative = 4 * (b - c) /\ encoder'.encoded = encoder.encoded
      BY <1>1, <1>8, <2>5 DEF EncoderInv, EncoderTypeOK
    <2>7. encoder'.again = encoder.again
      BY <1>8 DEF EncoderInv, EncoderTypeOK
    <2>8. EncoderTypeOK'
      BY <1>8, <2>5 DEF EncoderInv, EncoderTypeOK
    <2>9. ReadInv'
      BY <1>1, <2>4, <2>5, <2>6, BufferSize DEF ReadInv
    <2>10. EndedRight'
      BY <1>8, <2>6, <2>7 DEF EndedRight
    <2>11. ASSUME encoder.length % 4 = 0
           PROVE  Back'
      <3>1. Forward
        BY <1>1, <1>2, <2>1, <2>11, BufferSize DEF EncoderInv, Back
      <3>2. PICK n \in Nat : cum = n * Buffer
        BY <1>2, <3>1 DEF Forward
      <3>3. encoder.encoded = AllButLast(encoder.length)
        <4>1. cum + Buffer >= encoder.length
          BY <1>1, <2>1, BufferSize
        <4>2. Before(cum) = AllButLast(encoder.length)
          BY <1>1, <1>5, <3>2, <4>1, LastReached
        <4>. QED  BY <1>2, <3>1, <4>2 DEF Forward
      <3>4. encoder'.cumulative + Buffer = encoder'.length
        BY <1>1, <2>2, <2>5, <2>6, <2>11
      <3>. QED  BY <2>6, <2>7, <3>1, <3>3, <3>4 DEF Forward, Back
    <2>. QED  BY <2>6, <2>8, <2>9, <2>10, <2>11 DEF EncoderInv
  <1>9. CASE encoder' = [encoder EXCEPT !.at = "thrown"]
    <2>1. /\ encoder'.at = "thrown" /\ encoder'.length = encoder.length
          /\ encoder'.cumulative = encoder.cumulative /\ encoder'.encoded = encoder.encoded
      BY <1>9 DEF EncoderInv, EncoderTypeOK
    <2>2. encoder'.again = encoder.again
      BY <1>9 DEF EncoderInv, EncoderTypeOK
    <2>3. EncoderTypeOK'
      BY <1>9 DEF EncoderInv, EncoderTypeOK
    <2>4. EndedRight' /\ ReadInv'
      BY <2>1, <2>2 DEF EncoderInv, ReadInv, EndedRight
    <2>5. (Forward => Forward') /\ (Back => Back')
      BY <2>1, <2>2 DEF Forward, Back
    <2>. QED  BY <2>1, <2>3, <2>4, <2>5 DEF EncoderInv
  <1>. QED  BY <1>2, <1>3, <1>6, <1>7, <1>8, <1>9 DEF EncodeBuffer, AtEnd

\* Encode, whatever the length of the data: what is encoded is encoded again
\* only if the data is longer than a buffer and does not end with a whole
\* frame, and when the loop ends it has encoded once each buffer but the last.
THEOREM BuffersEncodedOnce == EncoderSpec => []EncodedOnce
  <1>1. EncoderInit => EncoderInv
    <2> SUFFICES ASSUME EncoderInit
                 PROVE  EncoderInv
      OBVIOUS
    <2>1. /\ EncoderTypeOK /\ encoder.at = "init" /\ encoder.cumulative = 0
          /\ encoder.encoded = {}
      <3>1. PICK length \in PcmLengths :
              encoder = [at |-> "init", length |-> length, cumulative |-> 0,
                         encoded |-> {}, again |-> FALSE]
        BY DEF EncoderInit
      <3>. QED  BY <3>1 DEF EncoderTypeOK
    <2>2. ~encoder.again
      BY DEF EncoderInit
    <2>3. 0 = 0 * Buffer /\ 0 = 4 * 0 /\ Before(0) = {}
      BY BufferSize DEF Before
    <2>. QED  BY <2>1, <2>2, <2>3 DEF EncoderInv, ReadInv, EndedRight, Forward
  <1>2. EncoderInv /\ [EncoderNext]_encoderVars => EncoderInv'
    <2> SUFFICES ASSUME EncoderInv, [EncoderNext]_encoderVars
                 PROVE  EncoderInv'
      OBVIOUS
    <2>1. CASE InitParams
      <3>1. /\ encoder'.at # "ended" /\ encoder'.length = encoder.length
            /\ encoder'.cumulative = encoder.cumulative /\ encoder'.encoded = encoder.encoded
        BY <2>1 DEF InitParams, EncoderInv, EncoderTypeOK
      <3>2. encoder'.again = encoder.again
        BY <2>1 DEF InitParams, EncoderInv, EncoderTypeOK
      <3>3. EncoderTypeOK'
        BY <2>1 DEF InitParams, EncoderInv, EncoderTypeOK
      <3>4. EndedRight' /\ ReadInv'
        BY <3>1, <3>2 DEF EncoderInv, ReadInv, EndedRight
      <3>5. (Forward => Forward') /\ (Back => Back')
        BY <3>1, <3>2 DEF Forward, Back
      <3>. QED  BY <3>1, <3>3, <3>4, <3>5 DEF EncoderInv
    <2>2. CASE EncodeBuffer
      BY <2>2, EncodeBufferInv
    <2>3. CASE UNCHANGED encoderVars
      <3>1. encoder' = encoder
        BY <2>3 DEF encoderVars
      <3>. QED  BY <3>1 DEF EncoderInv, EncoderTypeOK, ReadInv, EndedRight, Forward, Back
    <2>. QED  BY <2>1, <2>2, <2>3 DEF EncoderNext
  <1>3. EncoderInv => EncodedOnce
    <2> SUFFICES ASSUME EncoderInv
                 PROVE  EncodedOnce
      OBVIOUS
    <2>1. ASSUME encoder.again
          PROVE  GoesBack(encoder.length)
      <3>1. encoder.length \in Nat /\ Buffer < encoder.length
        <4>1. PICK length \in PcmLengths : length = encoder.length
          BY DEF EncoderInv, EncoderTypeOK
        <4>2. length \in Nat
          BY AudioAssumption
        <4>3. Buffer < encoder.length
          BY <2>1 DEF EncoderInv, ReadInv, EndedRight
        <4>. QED  BY <4>1, <4>2, <4>3
      <3>2. encoder.length % 4 # 0
        BY <2>1 DEF EncoderInv, Forward, Back
      <3>. QED  BY <3>1, <3>2, BufferSize DEF GoesBack, Frame
    <2>. QED  BY <2>1 DEF EncoderInv, EndedRight, EncodedOnce
  <1>. QED  BY <1>1, <1>2, <1>3, PTL DEF EncoderSpec

-----------------------------------------------------------------------------
(* Audio: the threads of lameHelper.                                       *)

Texts == {"LH_ERROR", "LH_STARTED", "LH_COMPUTED", "LH_DONE"}
Jobs == [thread : {"NULL", "running", "ended"}, param : {"set", "deleted"},
         kind : {"encode", "decode"}, at : {"new", "open", "loop", "flushed", "return"},
         size : Nat, left : Nat, log : Seq(Texts)]

\* What a thread has reported before it is done: the start, and n times
\* progress.
Working(n) == <<"LH_STARTED">> \o [k \in 1 .. n |-> "LH_COMPUTED"]

\* What a thread that runs has reported.
Progress(job) ==
  /\ job.left <= job.size
  /\ job.at \in {"new", "open"} => job.log = <<>> /\ job.left = job.size
  /\ job.at = "loop" /\ job.kind = "encode" => job.log = Working(job.size - job.left)
  /\ job.at = "loop" /\ job.kind = "decode" =>
       \E n \in 0 .. (job.size - job.left) * MaxTurns : job.log = Working(n)
  /\ job.at = "flushed" => job.kind = "encode" /\ job.log = Working(job.size + 1)
  /\ job.at # "return"

SlotInv ==
  /\ DOMAIN slots = 1 .. MaxThreadCount
  /\ \A i \in 1 .. MaxThreadCount :
       /\ slots[i] = NoJob \/ slots[i] \in Jobs
       /\ slots[i].thread = "running" => Progress(slots[i])
       /\ slots[i].thread = "ended" => Reported(slots[i])

Running == {i \in 1 .. MaxThreadCount : slots[i].thread = "running"}

CountInv == jobs \in Nat /\ finished \in Nat /\ jobs - finished = Cardinality(Running)

HelperInv == SlotInv /\ CountInv

\* Its length and characters.
LEMMA WorkingType ==
  ASSUME NEW n \in Nat
  PROVE  /\ Working(n) \in Seq(Texts) /\ Len(Working(n)) = n + 1
         /\ \A k \in 1 .. n + 1 :
              Working(n)[k] = IF k = 1 THEN "LH_STARTED" ELSE "LH_COMPUTED"
  <1> DEFINE c == [k \in 1 .. n |-> "LH_COMPUTED"]
  <1>1. c \in Seq(Texts) /\ Len(c) = n /\ \A k \in 1 .. n : c[k] = "LH_COMPUTED"
    BY DEF Texts
  <1>2. <<"LH_STARTED">> \in Seq(Texts) /\ Len(<<"LH_STARTED">>) = 1
    BY DEF Texts
  <1> HIDE DEF c
  <1>. QED  BY <1>1, <1>2 DEF Working, c

\* More progress.
LEMMA WorkingMore ==
  ASSUME NEW n \in Nat, NEW m \in Nat
  PROVE  Working(n) \o [k \in 1 .. m |-> "LH_COMPUTED"] = Working(n + m)
  <1> DEFINE c == [k \in 1 .. m |-> "LH_COMPUTED"]
             l == Working(n) \o c
  <1>1. c \in Seq(Texts) /\ Len(c) = m /\ \A k \in 1 .. m : c[k] = "LH_COMPUTED"
    BY DEF Texts
  <1>2. /\ Working(n) \in Seq(Texts) /\ Len(Working(n)) = n + 1
        /\ \A k \in 1 .. n + 1 :
             Working(n)[k] = IF k = 1 THEN "LH_STARTED" ELSE "LH_COMPUTED"
    BY WorkingType
  <1> HIDE DEF c
  <1>3. l \in Seq(Texts) /\ Len(l) = n + m + 1
    BY <1>1, <1>2
  <1>4. ASSUME NEW k \in 1 .. n + m + 1
        PROVE  l[k] = IF k = 1 THEN "LH_STARTED" ELSE "LH_COMPUTED"
    <2>1. CASE k <= n + 1
      BY <1>1, <1>2, <2>1
    <2>2. CASE k > n + 1
      <3>1. l[k] = c[k - (n + 1)] /\ k - (n + 1) \in 1 .. m
        BY <1>1, <1>2, <2>2
      <3>. QED  BY <1>1, <2>2, <3>1
    <2> HIDE DEF l
    <2>. QED  BY <2>1, <2>2
  <1>5. /\ Working(n + m) \in Seq(Texts) /\ Len(Working(n + m)) = n + m + 1
        /\ \A k \in 1 .. n + m + 1 :
             Working(n + m)[k] = IF k = 1 THEN "LH_STARTED" ELSE "LH_COMPUTED"
    <2>1. PICK sum \in Nat : sum = n + m
      OBVIOUS
    <2>2. /\ Working(sum) \in Seq(Texts) /\ Len(Working(sum)) = sum + 1
          /\ \A k \in 1 .. sum + 1 :
               Working(sum)[k] = IF k = 1 THEN "LH_STARTED" ELSE "LH_COMPUTED"
      BY WorkingType
    <2>. QED  BY <2>1, <2>2
  <1> HIDE DEF l
  <1>6. l = Working(n + m)
    BY <1>3, <1>4, <1>5
  <1>. QED  BY <1>6 DEF l, c

LEMMA WorkingOnce ==
  ASSUME NEW n \in Nat
  PROVE  Append(Working(n), "LH_COMPUTED") = Working(n + 1)
  <1>1. [k \in 1 .. 1 |-> "LH_COMPUTED"] = <<"LH_COMPUTED">>
    OBVIOUS
  <1>2. Working(n) \o <<"LH_COMPUTED">> = Working(n + 1)
    BY <1>1, WorkingMore
  <1>3. Working(n) \in Seq(Texts) /\ "LH_COMPUTED" \in Texts
    BY WorkingType DEF Texts
  <1>4. Append(Working(n), "LH_COMPUTED") = Working(n) \o <<"LH_COMPUTED">>
    BY <1>3
  <1>. QED  BY <1>2, <1>4

\* Slot i has another record; what the others have stays.
LEMMA SlotChanges ==
  ASSUME SlotInv, NEW i \in 1 .. MaxThreadCount, NEW job \in Jobs,
         slots' = [slots EXCEPT ![i] = job],
         job.thread = "running" => Progress(job),
         job.thread = "ended" => Reported(job)
  PROVE  /\ SlotInv' /\ slots'[i] = job
         /\ \A j \in 1 .. MaxThreadCount : j # i => slots'[j] = slots[j]
  BY DEF SlotInv

LEMMA RunningFinite == IsFiniteSet(Running) /\ Cardinality(Running) \in Nat
  <1>1. IsFiniteSet(1 .. MaxThreadCount)
    BY AudioAssumption, FS_Interval
  <1>2. Running \subseteq 1 .. MaxThreadCount
    BY DEF Running
  <1>3. IsFiniteSet(Running)
    BY <1>1, <1>2, FS_Subset
  <1>. QED  BY <1>3, FS_CardinalityType

\* The numbers when slot i keeps running, starts or ends.
LEMMA CountSame ==
  ASSUME CountInv, UNCHANGED <<jobs, finished>>,
         \A j \in 1 .. MaxThreadCount :
           slots'[j].thread = "running" <=> slots[j].thread = "running"
  PROVE  CountInv'
  <1>1. Running' = Running
    BY DEF Running
  <1>. QED  BY <1>1 DEF CountInv

LEMMA CountStarts ==
  ASSUME CountInv, NEW i \in 1 .. MaxThreadCount, slots[i].thread # "running",
         slots'[i].thread = "running", jobs' = jobs + 1, finished' = finished,
         \A j \in 1 .. MaxThreadCount : j # i => slots'[j] = slots[j]
  PROVE  CountInv'
  <1>1. Running' = Running \cup {i} /\ i \notin Running
    BY DEF Running
  <1>2. Cardinality(Running') = Cardinality(Running) + 1
    BY <1>1, RunningFinite, FS_AddElement
  <1>3. Cardinality(Running) \in Nat
    BY RunningFinite
  <1>. QED  BY <1>2, <1>3 DEF CountInv

LEMMA CountEnds ==
  ASSUME CountInv, NEW i \in 1 .. MaxThreadCount, slots[i].thread = "running",
         slots'[i].thread # "running", jobs' = jobs, finished' = finished + 1,
         \A j \in 1 .. MaxThreadCount : j # i => slots'[j] = slots[j]
  PROVE  CountInv'
  <1>1. Running' = Running \ {i} /\ i \in Running
    BY DEF Running
  <1>2. Cardinality(Running') = Cardinality(Running) - 1
    BY <1>1, RunningFinite, FS_RemoveElement
  <1>3. Cardinality(Running) \in Nat
    BY RunningFinite
  <1>. QED  BY <1>2, <1>3 DEF CountInv

LEMMA StartJobInv ==
  ASSUME HelperInv, NEW kind \in {"encode", "decode"}, NEW size \in FileSizes,
         StartJob(kind, size)
  PROVE  HelperInv'
  <1> DEFINE job(thread) == [thread |-> thread, param |-> "set", kind |-> kind,
                             at |-> "new", size |-> size, left |-> size, log |-> <<>>]
             S == FreeSlots
  <1>1. S # {} /\ S \subseteq 1 .. MaxThreadCount /\ \A j \in S : slots[j].thread # "running"
    BY DEF StartJob, FreeSlots, HelperInv, SlotInv
  <1>2. Min(S) \in S
    <2>1. \E x \in S : \A y \in S : x =< y
      BY <1>1, Least
    <2>. QED  BY <2>1 DEF Min
  <1>3. PICK i \in 1 .. MaxThreadCount : i = Min(S) /\ slots[i].thread # "running"
    BY <1>1, <1>2
  <1>4. \A thread \in {"NULL", "running"} :
          job(thread) \in Jobs /\ Progress(job(thread)) /\ job(thread).thread = thread
    <2>1. size \in Nat
      BY AudioAssumption
    <2>. QED  BY <2>1 DEF Jobs, Progress
  <1> HIDE DEF job
  <1>5. CASE slots' = [slots EXCEPT ![i] = job("running")] /\ jobs' = jobs + 1
    <2>1. /\ SlotInv' /\ slots'[i] = job("running")
          /\ \A j \in 1 .. MaxThreadCount : j # i => slots'[j] = slots[j]
      BY <1>4, <1>5, SlotChanges DEF HelperInv
    <2>2. finished' = finished
      BY DEF StartJob
    <2>. QED  BY <1>3, <1>4, <1>5, <2>1, <2>2, CountStarts DEF HelperInv
  <1>6. CASE slots' = [slots EXCEPT ![i] = job("NULL")] /\ UNCHANGED jobs
    <2>1. /\ SlotInv' /\ slots'[i] = job("NULL")
          /\ \A j \in 1 .. MaxThreadCount : j # i => slots'[j] = slots[j]
      BY <1>4, <1>6, SlotChanges DEF HelperInv
    <2>2. finished' = finished
      BY DEF StartJob
    <2>. QED  BY <1>3, <1>4, <1>6, <2>1, <2>2, CountSame DEF HelperInv
  <1>. QED  BY <1>3, <1>5, <1>6 DEF StartJob, job

\* A thread that runs has the record of a job.
LEMMA JobTyped ==
  ASSUME SlotInv, NEW i \in 1 .. MaxThreadCount, slots[i].thread = "running"
  PROVE  slots[i] \in Jobs /\ Progress(slots[i])
  BY DEF SlotInv, NoJob

\* A report, and the record it leaves.
LEMMA ReportInv ==
  ASSUME HelperInv, NEW i \in 1 .. MaxThreadCount, slots[i].thread = "running",
         NEW place \in {"loop", "flushed", "return"}, NEW what \in Texts,
         Report(i, place, what),
         NEW job, job = [slots[i] EXCEPT !.at = place, !.log = Append(@, what),
                                         !.thread = IF place = "return" THEN "ended" ELSE @],
         place # "return" => Progress(job),
         place = "return" => Reported(job)
  PROVE  HelperInv'
  <1>1. slots[i] \in Jobs
    BY JobTyped DEF HelperInv
  <1>2. Append(slots[i].log, what) \in Seq(Texts)
    BY <1>1 DEF Jobs
  <1>3. job \in Jobs /\ job.thread = IF place = "return" THEN "ended" ELSE "running"
    BY <1>1, <1>2 DEF Jobs
  <1>4. slots' = [slots EXCEPT ![i] = job] /\ UNCHANGED jobs
    BY DEF Report
  <1>5. (job.thread = "running" => Progress(job)) /\ (job.thread = "ended" => Reported(job))
    <2>1. CASE place = "return"
      <3>1. job.thread = "ended" /\ "ended" # "running"
        BY <1>3, <2>1
      <3>. QED  BY <2>1, <3>1
    <2>2. CASE place # "return"
      <3>1. job.thread = "running" /\ "ended" # "running"
        BY <1>3, <2>2
      <3>. QED  BY <2>2, <3>1
    <2>. QED  BY <2>1, <2>2
  <1>6. /\ SlotInv' /\ slots'[i] = job
        /\ \A j \in 1 .. MaxThreadCount : j # i => slots'[j] = slots[j]
    BY <1>3, <1>4, <1>5, SlotChanges DEF HelperInv
  <1>7. CASE place = "return"
    <2>1. finished' = finished + 1 /\ jobs' = jobs
      BY <1>7 DEF Report
    <2>2. slots'[i].thread # "running"
      BY <1>3, <1>6, <1>7
    <2>3. CountInv'
      BY <1>6, <2>1, <2>2, CountEnds DEF HelperInv
    <2>. QED  BY <1>6, <2>3 DEF HelperInv
  <1>8. CASE place # "return"
    <2>1. finished' = finished /\ jobs' = jobs
      BY <1>8 DEF Report
    <2>2. slots'[i].thread = "running"
      BY <1>3, <1>6, <1>8
    <2>3. \A j \in 1 .. MaxThreadCount :
            slots'[j].thread = "running" <=> slots[j].thread = "running"
      BY <1>6, <2>2
    <2>4. CountInv'
      BY <2>1, <2>3, CountSame DEF HelperInv
    <2>. QED  BY <1>6, <2>4 DEF HelperInv
  <1>. QED  BY <1>7, <1>8

\* A step of a thread that goes on: its record has another progress.
LEMMA GoesOn ==
  ASSUME HelperInv, NEW i \in 1 .. MaxThreadCount, slots[i].thread = "running",
         NEW job \in Jobs, job.thread = "running", Progress(job),
         slots' = [slots EXCEPT ![i] = job], UNCHANGED <<jobs, finished>>
  PROVE  HelperInv'
  <1>1. /\ SlotInv' /\ slots'[i] = job
        /\ \A j \in 1 .. MaxThreadCount : j # i => slots'[j] = slots[j]
    BY SlotChanges DEF HelperInv
  <1>2. \A j \in 1 .. MaxThreadCount :
          slots'[j].thread = "running" <=> slots[j].thread = "running"
    BY <1>1
  <1>3. CountInv'
    BY <1>2, CountSame DEF HelperInv
  <1>. QED  BY <1>1, <1>3 DEF HelperInv

LEMMA CrashInv ==
  ASSUME HelperInv, Crash
  PROVE  HelperInv'
  BY DEF Crash, HelperInv, SlotInv, CountInv, Running

LEMMA ReadParamInv ==
  ASSUME HelperInv, NEW i \in 1 .. MaxThreadCount, ReadParam(i)
  PROVE  HelperInv'
  <1>1. slots[i] \in Jobs /\ Progress(slots[i]) /\ slots[i].thread = "running"
    BY JobTyped DEF HelperInv, ReadParam
  <1>2. CASE slots' = [slots EXCEPT ![i].at = "open"] /\ UNCHANGED <<helper, jobs, finished>>
    <2> DEFINE job == [slots[i] EXCEPT !.at = "open"]
    <2>1. job \in Jobs /\ job.thread = "running"
      BY <1>1 DEF Jobs
    <2>2. Progress(job)
      BY <1>1 DEF Jobs, Progress, ReadParam
    <2>3. slots' = [slots EXCEPT ![i] = job]
      BY <1>2
    <2> HIDE DEF job
    <2>. QED  BY <1>1, <1>2, <2>1, <2>2, <2>3, GoesOn
  <1>3. CASE Crash
    BY <1>3, CrashInv
  <1>. QED  BY <1>2, <1>3 DEF ReadParam

\* What is reported when a thread is done.
LEMMA DoneReported ==
  ASSUME NEW n \in Nat
  PROVE  Append(Working(n), "LH_DONE") =
           <<"LH_STARTED">> \o [k \in 1 .. n |-> "LH_COMPUTED"] \o <<"LH_DONE">>
  <1>1. Working(n) \in Seq(Texts) /\ "LH_DONE" \in Texts
    BY WorkingType DEF Texts
  <1>2. Append(Working(n), "LH_DONE") = Working(n) \o <<"LH_DONE">>
    BY <1>1
  <1>. QED  BY <1>2 DEF Working

\* encode_x and decode, the files opened or not.
LEMMA OpenInv ==
  ASSUME HelperInv, NEW i \in 1 .. MaxThreadCount,
         slots[i].thread = "running", slots[i].at = "open",
         \/ Report(i, "return", "LH_ERROR")
         \/ helper = "deleted" /\ Crash
         \/ Report(i, "loop", "LH_STARTED")
  PROVE  HelperInv'
  <1>1. slots[i] \in Jobs /\ Progress(slots[i])
    BY JobTyped DEF HelperInv
  <1>2. slots[i].log = <<>> /\ slots[i].left = slots[i].size
    BY <1>1 DEF Progress
  <1>3. CASE Report(i, "return", "LH_ERROR")
    <2>1. PICK job : job = [slots[i] EXCEPT !.at = "return", !.log = Append(@, "LH_ERROR"),
                              !.thread = IF "return" = "return" THEN "ended" ELSE @]
      OBVIOUS
    <2>2. job.log = <<"LH_ERROR">>
      BY <1>1, <1>2, <2>1 DEF Jobs
    <2>3. Reported(job)
      BY <2>2 DEF Reported
    <2>4. "LH_ERROR" \in Texts
      BY DEF Texts
    <2>. QED  BY <1>3, <2>1, <2>3, <2>4, ReportInv
  <1>4. CASE Report(i, "loop", "LH_STARTED")
    <2>1. PICK job : job = [slots[i] EXCEPT !.at = "loop", !.log = Append(@, "LH_STARTED"),
                              !.thread = IF "loop" = "return" THEN "ended" ELSE @]
      OBVIOUS
    <2>2. /\ job.log = <<"LH_STARTED">> /\ job.at = "loop"
          /\ job.left = job.size /\ job.size \in Nat /\ job.kind \in {"encode", "decode"}
      BY <1>1, <1>2, <2>1 DEF Jobs
    <2>3. Working(0) = <<"LH_STARTED">>
      <3>1. Working(0) \in Seq(Texts) /\ Len(Working(0)) = 1 /\ Working(0)[1] = "LH_STARTED"
        <4>1. PICK n \in Nat : n = 0
          OBVIOUS
        <4>2. /\ Working(n) \in Seq(Texts) /\ Len(Working(n)) = n + 1
              /\ \A k \in 1 .. n + 1 :
                   Working(n)[k] = IF k = 1 THEN "LH_STARTED" ELSE "LH_COMPUTED"
          BY WorkingType
        <4>. QED  BY <4>1, <4>2
      <3>. QED  BY <3>1
    <2>4. job.size - job.left = 0 /\ 0 \in 0 .. (job.size - job.left) * MaxTurns
      BY <2>2, AudioAssumption
    <2>5. Progress(job)
      BY <2>2, <2>3, <2>4 DEF Progress
    <2>6. "LH_STARTED" \in Texts
      BY DEF Texts
    <2>. QED  BY <1>4, <2>1, <2>5, <2>6, ReportInv
  <1>5. CASE Crash
    BY <1>5, CrashInv
  <1>. QED  BY <1>3, <1>4, <1>5

LEMMA EncodeFileInv ==
  ASSUME HelperInv, NEW i \in 1 .. MaxThreadCount, EncodeFile(i)
  PROVE  HelperInv'
  <1>1. slots[i] \in Jobs /\ Progress(slots[i]) /\ slots[i].thread = "running"
    BY JobTyped DEF HelperInv, EncodeFile
  <1>2. slots[i].kind = "encode" /\ slots[i].size \in Nat /\ slots[i].size + 1 \in Nat
    BY <1>1 DEF EncodeFile, Jobs
  <1>3. CASE slots[i].at = "flushed"
    <2>1. PICK job : job = [slots[i] EXCEPT !.at = "return", !.log = Append(@, "LH_DONE"),
                              !.thread = IF "return" = "return" THEN "ended" ELSE @]
      OBVIOUS
    <2>2. /\ job.log = Append(Working(slots[i].size + 1), "LH_DONE")
          /\ job.kind = "encode" /\ job.size = slots[i].size
      BY <1>1, <1>2, <1>3, <2>1 DEF Jobs, Progress
    <2>3. job.log = <<"LH_STARTED">> \o [k \in 1 .. job.size + 1 |-> "LH_COMPUTED"]
                      \o <<"LH_DONE">>
      BY <1>2, <2>2, DoneReported
    <2>4. Reported(job)
      BY <2>2, <2>3 DEF Reported
    <2>5. "LH_DONE" \in Texts /\ Report(i, "return", "LH_DONE")
      BY <1>3 DEF Texts, EncodeFile
    <2>. QED  BY <1>1, <2>1, <2>4, <2>5, ReportInv
  <1>4. CASE slots[i].at # "flushed"
    <2>1. PICK job : job = [slots[i] EXCEPT !.at = "flushed", !.log = Append(@, "LH_COMPUTED"),
                              !.thread = IF "flushed" = "return" THEN "ended" ELSE @]
      OBVIOUS
    <2>2. slots[i].at = "loop" /\ slots[i].left = 0 /\ Report(i, "flushed", "LH_COMPUTED")
      BY <1>4 DEF EncodeFile
    <2>3. slots[i].log = Working(slots[i].size)
      BY <1>1, <1>2, <2>2 DEF Progress
    <2>4. Append(Working(slots[i].size), "LH_COMPUTED") = Working(slots[i].size + 1)
      BY <1>2, WorkingOnce
    <2>5. /\ job.log = Working(slots[i].size + 1) /\ job.at = "flushed"
          /\ job.kind = "encode" /\ job.size = slots[i].size /\ job.left = 0
      BY <1>1, <1>2, <2>1, <2>2, <2>3, <2>4 DEF Jobs
    <2>6. Progress(job)
      BY <1>2, <2>5 DEF Progress
    <2>7. "LH_COMPUTED" \in Texts
      BY DEF Texts
    <2>. QED  BY <1>1, <2>1, <2>2, <2>6, <2>7, ReportInv
  <1>. QED  BY <1>3, <1>4

\* A buffer done, and n reports of it.
LEMMA ComputedInv ==
  ASSUME HelperInv, NEW i \in 1 .. MaxThreadCount, NEW n \in Nat, Computed(i, n),
         \/ slots[i].kind = "encode" /\ n = 1
         \/ slots[i].kind = "decode" /\ n <= MaxTurns
  PROVE  HelperInv'
  <1>1. slots[i] \in Jobs /\ Progress(slots[i]) /\ slots[i].thread = "running"
    BY JobTyped DEF HelperInv, Computed
  <1>2. slots[i].at = "loop" /\ slots[i].left > 0
    BY DEF Computed
  <1>3. PICK job : job = [slots[i] EXCEPT !.left = @ - 1,
                            !.log = @ \o [k \in 1 .. n |-> "LH_COMPUTED"]]
    OBVIOUS
  <1>4. slots[i].size \in Nat /\ slots[i].left \in Nat /\ slots[i].left <= slots[i].size
    BY <1>1 DEF Jobs, Progress
  <1>5. PICK done \in Nat : done = slots[i].size - slots[i].left
    BY <1>4
  <1>6. /\ job.left = slots[i].left - 1 /\ job.size = slots[i].size /\ job.at = "loop"
        /\ job.kind = slots[i].kind /\ job.thread = "running"
        /\ job.log = slots[i].log \o [k \in 1 .. n |-> "LH_COMPUTED"]
    <2>1. slots[i].thread = "running" /\ slots[i].at = "loop"
      BY <1>1, <1>2
    <2>2. /\ job.left = slots[i].left - 1
          /\ job.log = slots[i].log \o [k \in 1 .. n |-> "LH_COMPUTED"]
      BY <1>1, <1>3 DEF Jobs
    <2>3. /\ job.size = slots[i].size /\ job.at = slots[i].at /\ job.kind = slots[i].kind
          /\ job.thread = slots[i].thread
      BY <1>1, <1>3 DEF Jobs
    <2>. QED  BY <2>1, <2>2, <2>3
  <1>7. job.left \in Nat /\ job.left <= job.size /\ job.size - job.left = done + 1
    <2>1. PICK l \in Nat, z \in Nat : l = slots[i].left /\ z = slots[i].size
      BY <1>4
    <2>2. l > 0 /\ l <= z /\ done = z - l
      BY <1>2, <1>4, <1>5, <2>1
    <2>3. job.left = l - 1 /\ job.size = z
      BY <1>6, <2>1
    <2>. QED  BY <2>2, <2>3
  <1>8. \A m \in Nat : slots[i].log = Working(m) => job.log = Working(m + n)
    BY <1>6, WorkingMore
  <1>9. Progress(job)
    <2>1. CASE slots[i].kind = "encode"
      <3>1. slots[i].log = Working(done) /\ n = 1
        BY <1>1, <1>2, <1>5, <2>1 DEF Progress
      <3>2. job.log = Working(done + 1)
        BY <1>8, <3>1
      <3>. QED  BY <1>6, <1>7, <2>1, <3>2 DEF Progress
    <2>2. CASE slots[i].kind = "decode"
      <3>1. PICK m \in 0 .. done * MaxTurns : slots[i].log = Working(m)
        BY <1>1, <1>2, <1>5, <2>2 DEF Progress
      <3>2. done * MaxTurns \in Nat /\ (done + 1) * MaxTurns = done * MaxTurns + MaxTurns
        BY <1>5, AudioAssumption
      <3>3. m \in Nat /\ m + n \in 0 .. (done + 1) * MaxTurns
        BY <2>2, <3>1, <3>2, AudioAssumption
      <3>4. job.log = Working(m + n)
        BY <1>8, <3>1, <3>3
      <3>. QED  BY <1>6, <1>7, <2>2, <3>3, <3>4 DEF Progress
    <2>. QED  BY <2>1, <2>2
  <1>10. job \in Jobs
    <2>1. [k \in 1 .. n |-> "LH_COMPUTED"] \in Seq(Texts)
      BY DEF Texts
    <2>2. slots[i].log \o [k \in 1 .. n |-> "LH_COMPUTED"] \in Seq(Texts)
      BY <1>1, <2>1 DEF Jobs
    <2>3. slots[i].left - 1 \in Nat
      BY <1>6, <1>7
    <2>. QED  BY <1>1, <1>3, <2>2, <2>3 DEF Jobs
  <1>11. slots' = [slots EXCEPT ![i] = job] /\ UNCHANGED <<jobs, finished>>
    BY <1>3 DEF Computed
  <1>. QED  BY <1>1, <1>6, <1>9, <1>10, <1>11, GoesOn

LEMMA DecodeEndInv ==
  ASSUME HelperInv, NEW i \in 1 .. MaxThreadCount, DecodeEnd(i)
  PROVE  HelperInv'
  <1>1. slots[i] \in Jobs /\ Progress(slots[i]) /\ slots[i].thread = "running"
    BY JobTyped DEF HelperInv, DecodeEnd
  <1>2. /\ slots[i].kind = "decode" /\ slots[i].at = "loop" /\ slots[i].left = 0
        /\ slots[i].size \in Nat /\ slots[i].size - slots[i].left = slots[i].size
    BY <1>1 DEF DecodeEnd, Jobs
  <1>3. CASE Report(i, "return", "LH_DONE")
    <2>1. PICK job : job = [slots[i] EXCEPT !.at = "return", !.log = Append(@, "LH_DONE"),
                              !.thread = IF "return" = "return" THEN "ended" ELSE @]
      OBVIOUS
    <2>2. PICK n \in 0 .. slots[i].size * MaxTurns : slots[i].log = Working(n)
      BY <1>1, <1>2 DEF Progress
    <2>3. n \in Nat
      BY <1>2, <2>2, AudioAssumption
    <2>4. /\ job.log = Append(Working(n), "LH_DONE")
          /\ job.kind = "decode" /\ job.size = slots[i].size
      BY <1>1, <1>2, <2>1, <2>2 DEF Jobs
    <2>5. job.log = <<"LH_STARTED">> \o [k \in 1 .. n |-> "LH_COMPUTED"] \o <<"LH_DONE">>
      BY <2>3, <2>4, DoneReported
    <2>6. Reported(job)
      BY <2>2, <2>4, <2>5 DEF Reported
    <2>7. "LH_DONE" \in Texts
      BY DEF Texts
    <2>. QED  BY <1>1, <1>3, <2>1, <2>6, <2>7, ReportInv
  <1>4. CASE Crash
    BY <1>4, CrashInv
  <1>. QED  BY <1>3, <1>4 DEF DecodeEnd

\* ~lameHelper.
LEMMA DeleteHelperInv ==
  ASSUME HelperInv, DeleteHelper
  PROVE  HelperInv'
  <1>1. DOMAIN slots = 1 .. MaxThreadCount /\ DOMAIN slots' = 1 .. MaxThreadCount
    BY DEF HelperInv, SlotInv, DeleteHelper
  <1>2. ASSUME NEW i \in 1 .. MaxThreadCount
        PROVE  /\ slots'[i] = NoJob \/ slots'[i] \in Jobs
               /\ slots'[i].thread = "running" => Progress(slots'[i])
               /\ slots'[i].thread = "ended" => Reported(slots'[i])
               /\ slots'[i].thread = slots[i].thread
    <2>1. CASE slots[i].param = "set"
      <3>1. slots'[i] = [slots[i] EXCEPT !.param = "deleted"]
        BY <1>1, <2>1 DEF DeleteHelper
      <3>2. slots[i] \in Jobs
        BY <2>1 DEF HelperInv, SlotInv, NoJob
      <3>3. PICK job : job = slots'[i]
        OBVIOUS
      <3>4. /\ job \in Jobs /\ job.thread = slots[i].thread /\ job.at = slots[i].at
            /\ job.kind = slots[i].kind /\ job.size = slots[i].size
            /\ job.left = slots[i].left /\ job.log = slots[i].log
        BY <3>1, <3>2, <3>3 DEF Jobs
      <3>5. Progress(slots[i]) => Progress(job)
        BY <3>4 DEF Progress
      <3>6. Reported(slots[i]) => Reported(job)
        BY <3>4 DEF Reported
      <3>7. /\ slots[i].thread = "running" => Progress(slots[i])
            /\ slots[i].thread = "ended" => Reported(slots[i])
        BY DEF HelperInv, SlotInv
      <3>. QED  BY <3>3, <3>4, <3>5, <3>6, <3>7
    <2>2. CASE slots[i].param # "set"
      <3>1. slots'[i] = slots[i]
        BY <1>1, <2>2 DEF DeleteHelper
      <3>. QED  BY <3>1 DEF HelperInv, SlotInv
    <2>. QED  BY <2>1, <2>2
  <1>3. SlotInv'
    BY <1>1, <1>2 DEF SlotInv
  <1>4. CountInv'
    BY <1>2, CountSame DEF HelperInv, DeleteHelper
  <1>. QED  BY <1>3, <1>4 DEF HelperInv

LEMMA HelperInvHolds == HelperSpec => []HelperInv
  <1>1. HelperInit => HelperInv
    <2> SUFFICES ASSUME HelperInit
                 PROVE  HelperInv
      OBVIOUS
    <2>1. SlotInv
      BY DEF HelperInit, SlotInv, NoJob
    <2>2. Running = {}
      BY DEF HelperInit, Running, NoJob
    <2>3. Cardinality(Running) = 0
      BY <2>2, FS_EmptySet
    <2>4. CountInv
      BY <2>3 DEF CountInv, HelperInit
    <2>. QED  BY <2>1, <2>4 DEF HelperInv
  <1>2. HelperInv /\ [HelperNext]_helperVars => HelperInv'
    <2> SUFFICES ASSUME HelperInv, [HelperNext]_helperVars
                 PROVE  HelperInv'
      OBVIOUS
    <2>1. DOMAIN slots = 1 .. MaxThreadCount
      BY DEF HelperInv, SlotInv
    <2>2. CASE \E n \in FileSizes : EncodeAsync(n)
      BY <2>2, StartJobInv DEF EncodeAsync
    <2>3. CASE \E n \in FileSizes : DecodeAsync(n)
      BY <2>3, StartJobInv DEF DecodeAsync
    <2>4. CASE \E i \in DOMAIN slots : ReadParam(i)
      BY <2>1, <2>4, ReadParamInv
    <2>5. CASE \E i \in DOMAIN slots : EncodeOpen(i)
      BY <2>1, <2>5, OpenInv DEF EncodeOpen
    <2>6. CASE \E i \in DOMAIN slots : EncodeFile(i)
      BY <2>1, <2>6, EncodeFileInv
    <2>7. CASE \E i \in DOMAIN slots : EncodeSamples(i)
      <3>1. PICK i \in 1 .. MaxThreadCount : slots[i].kind = "encode" /\ Computed(i, 1)
        BY <2>1, <2>7 DEF EncodeSamples
      <3>. QED  BY <3>1, ComputedInv
    <2>8. CASE \E i \in DOMAIN slots : DecodeFrames(i)
      <3>1. PICK i \in 1 .. MaxThreadCount, n \in 0 .. MaxTurns :
              slots[i].kind = "decode" /\ Computed(i, n)
        BY <2>1, <2>8 DEF DecodeFrames
      <3>2. n \in Nat /\ n <= MaxTurns
        BY <3>1, AudioAssumption
      <3>. QED  BY <3>1, <3>2, ComputedInv
    <2>9. CASE \E i \in DOMAIN slots : DecodeOpen(i)
      BY <2>1, <2>9, OpenInv DEF DecodeOpen
    <2>10. CASE \E i \in DOMAIN slots : DecodeEnd(i)
      BY <2>1, <2>10, DecodeEndInv
    <2>11. CASE DeleteHelper
      BY <2>11, DeleteHelperInv
    <2>12. CASE UNCHANGED helperVars
      <3>1. slots' = slots /\ jobs' = jobs /\ finished' = finished
        BY <2>12 DEF helperVars
      <3>. QED  BY <3>1 DEF HelperInv, SlotInv, CountInv, Running
    <2>. QED  BY <2>2, <2>3, <2>4, <2>5, <2>6, <2>7, <2>8, <2>9, <2>10, <2>11, <2>12
              DEF HelperNext
  <1>. QED  BY <1>1, <1>2, PTL DEF HelperSpec

\* encode, decode: a thread that has ended has reported its error, or its start,
\* its progress (for encode once for every buffer and once for the end of the
\* file) and its end, in this order.
THEOREM ThreadsReportRight == HelperSpec => []ReportsRight
  <1>1. HelperInv => ReportsRight
    BY DEF HelperInv, SlotInv, ReportsRight
  <1>. QED  BY <1>1, HelperInvHolds, PTL

\* encode, decode: a slot is not given to another thread before its own has
\* ended, so that as many threads run as were started and have not ended.
THEOREM ThreadsKeepTheirSlots == HelperSpec => []JobsKept
  <1>1. HelperInv => JobsKept
    BY DEF HelperInv, SlotInv, CountInv, Running, JobsKept
  <1>. QED  BY <1>1, HelperInvHolds, PTL
=============================================================================
