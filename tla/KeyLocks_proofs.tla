-------------------------- MODULE KeyLocks_proofs --------------------------
(***************************************************************************)
(* Theorems about KeyLocks for any finite set of threads and any sets of   *)
(* keys and lock objects: type correctness, mutual exclusion per key, the  *)
(* exactness of the reference counts, and the step simulation of KeyMutex. *)
(***************************************************************************)
EXTENDS KeyLocks, FiniteSetTheorems, TLAPS

-----------------------------------------------------------------------------
(* The inductive invariant. *)

\* The thread-local variables are set exactly during a call.
LocalsSet ==
    \A t \in Threads : /\ pc[t] = "idle" <=> ref[t] = Null
                       /\ pc[t] = "idle" <=> key[t] = Null

\* The entry of a key is, during the whole call, the object the call took.
EntryStable == \A t \in Threads : ref[t] # Null => locks[key[t]] = ref[t]

\* Two keys never share an object.
EntriesDistinct ==
    \A j, k \in Keys : locks[j] # Null /\ locks[j] = locks[k] => j = k

\* An entry is in use by somebody.
EntryUsed ==
    \A k \in Keys : locks[k] # Null => \E t \in Threads : ref[t] = locks[k]

\* The mutex of an object is taken exactly by the call that is inside.
OwnerInside ==
    /\ \A t \in Threads : pc[t] = "holding" => owner[ref[t]] = t
    /\ \A l \in LockIds :
          owner[l] # Null => pc[owner[l]] = "holding" /\ ref[owner[l]] = l

IInv ==
    /\ TypeOK
    /\ LocalsSet
    /\ EntryStable
    /\ EntriesDistinct
    /\ EntryUsed
    /\ OwnerInside
    /\ RefsExact
-----------------------------------------------------------------------------
\* The set of calls on an object is finite, so its size is a number.
LEMMA UsersFinite ==
    ASSUME NEW l \in LockIds
    PROVE  IsFiniteSet(Users(l)) /\ Cardinality(Users(l)) \in Nat
<1>1. IsFiniteSet(Users(l))
  BY KeyLocksAssumption, FS_Subset DEF Users
<1> QED
  BY <1>1, FS_CardinalityType

\* A thread that takes a reference adds one to the users of that object only.
LEMMA UsersAdd ==
    ASSUME NEW t \in Threads, NEW l \in LockIds, TypeOK, ref[t] = Null,
           ref' = [ref EXCEPT ![t] = l]
    PROVE  /\ Cardinality(Users(l)') = Cardinality(Users(l)) + 1
           /\ \A m \in LockIds \ {l} : Users(m)' = Users(m)
<1>1. Users(l)' = Users(l) \cup {t} /\ t \notin Users(l)
  BY KeyLocksAssumption DEF Users, TypeOK
<1>2. \A m \in LockIds \ {l} : Users(m)' = Users(m)
  BY KeyLocksAssumption DEF Users, TypeOK
<1> QED
  BY <1>1, <1>2, UsersFinite, FS_AddElement

\* A thread that drops its reference is missing from the users of that object
\* only.
LEMMA UsersRemove ==
    ASSUME NEW t \in Threads, NEW l \in LockIds, TypeOK, ref[t] = l,
           ref' = [ref EXCEPT ![t] = Null]
    PROVE  /\ Cardinality(Users(l)') = Cardinality(Users(l)) - 1
           /\ \A m \in LockIds \ {l} : Users(m)' = Users(m)
<1>1. Users(l)' = Users(l) \ {t} /\ t \in Users(l)
  BY KeyLocksAssumption DEF Users, TypeOK
<1>2. \A m \in LockIds \ {l} : Users(m)' = Users(m)
  BY KeyLocksAssumption DEF Users, TypeOK
<1> QED
  BY <1>1, <1>2, UsersFinite, FS_RemoveElement

\* A count of one means that the caller is the only user of its object.
LEMMA LastUser ==
    ASSUME IInv, NEW t \in Threads, ref[t] # Null
    PROVE  /\ ref[t] \in LockIds
           /\ refs[ref[t]] = 1 <=> \A s \in Threads : ref[s] = ref[t] => s = t
           /\ refs[ref[t]] > 0
<1> DEFINE l == ref[t]
<1>1. l \in LockIds /\ t \in Users(l)
  BY DEF IInv, TypeOK, Users
<1>2. refs[l] = Cardinality(Users(l)) /\ IsFiniteSet(Users(l))
  BY <1>1, UsersFinite DEF IInv, RefsExact
<1>3. refs[l] = 1 => Users(l) = {t}
  <2> HAVE refs[l] = 1
  <2>1. PICK s : Users(l) = {s}
    BY <1>2, FS_Singleton
  <2> QED
    BY <1>1, <2>1
<1>4. Users(l) = {t} => refs[l] = 1
  BY <1>2, FS_Singleton
<1>5. refs[l] > 0
  BY <1>1, <1>2, FS_EmptySet, FS_CardinalityType
<1>6. Users(l) = {t} <=> \A s \in Threads : ref[s] = l => s = t
  BY <1>1 DEF Users
<1> QED
  BY <1>1, <1>3, <1>4, <1>5, <1>6
-----------------------------------------------------------------------------
LEMMA InitInv == Init => IInv
<1> SUFFICES ASSUME Init PROVE IInv
  OBVIOUS
<1> USE KeyLocksAssumption DEF Init
<1>1. TypeOK
  BY DEF TypeOK
<1>2. RefsExact
  <2> SUFFICES ASSUME NEW l \in LockIds PROVE refs[l] = Cardinality(Users(l))
    BY DEF RefsExact
  <2>1. Users(l) = {}
    BY DEF Users
  <2> QED
    BY <2>1, FS_EmptySet
<1>3. LocalsSet /\ EntryStable /\ EntriesDistinct /\ EntryUsed
  BY DEF LocalsSet, EntryStable, EntriesDistinct, EntryUsed
<1>4. OwnerInside
  BY DEF OwnerInside
<1> QED
  BY <1>1, <1>2, <1>3, <1>4 DEF IInv

LEMMA RegisterInv ==
    ASSUME IInv, NEW t \in Threads, NEW k \in Keys, Register(t, k)
    PROVE  IInv'
<1>1. PICK l \in LockIds :
         /\ IF locks[k] = Null THEN Fresh(l) ELSE l = locks[k]
         /\ Enter(t, k, l)
         /\ ref' = [ref EXCEPT ![t] = l]
  BY DEF Register
<1> USE KeyLocksAssumption DEF IInv
<1>2. /\ refs' = [refs EXCEPT ![l] = IF locks[k] = l THEN @ + 1 ELSE 1]
      /\ locks' = [locks EXCEPT ![k] = l]
      /\ pc[t] = "idle"
      /\ pc' = [pc EXCEPT ![t] = "waiting"]
      /\ key' = [key EXCEPT ![t] = k]
      /\ owner' = owner
  BY <1>1 DEF Register, Enter
<1>3. ref[t] = Null /\ key[t] = Null
  BY <1>2 DEF LocalsSet
<1>4. \A j \in Keys : j # k => locks[j] # l
  BY <1>1 DEF Fresh, EntriesDistinct, TypeOK
<1>5. locks[k] # l => \A s \in Threads : ref[s] # l
  BY <1>1 DEF Fresh
<1>6. TypeOK'
  BY <1>1, <1>2 DEF TypeOK
<1>7. LocalsSet'
  BY <1>1, <1>2 DEF LocalsSet, TypeOK
<1>8. EntryStable'
  <2> SUFFICES ASSUME NEW s \in Threads, ref'[s] # Null
               PROVE  locks'[key'[s]] = ref'[s]
    BY DEF EntryStable
  <2>1. CASE s = t
    BY <1>1, <1>2, <2>1 DEF TypeOK
  <2>2. CASE s # t
    <3>1. ref'[s] = ref[s] /\ key'[s] = key[s] /\ key[s] \in Keys
      BY <1>1, <1>2, <2>2 DEF TypeOK, LocalsSet
    <3>2. locks[key[s]] = ref[s] /\ ref[s] # Null
      BY <3>1 DEF EntryStable
    <3>3. key[s] = k => l = ref[s]
      BY <1>1, <3>2
    <3> QED
      BY <1>2, <3>1, <3>2, <3>3 DEF TypeOK
  <2> QED
    BY <2>1, <2>2
<1>9. EntriesDistinct'
  BY <1>2, <1>4 DEF EntriesDistinct, TypeOK
<1>10. EntryUsed'
  <2> SUFFICES ASSUME NEW j \in Keys, locks'[j] # Null
               PROVE  \E s \in Threads : ref'[s] = locks'[j]
    BY DEF EntryUsed
  <2>1. CASE j = k
    BY <1>1, <1>2, <2>1 DEF TypeOK
  <2>2. CASE j # k
    <3>1. locks'[j] = locks[j]
      BY <1>2, <2>2 DEF TypeOK
    <3>2. PICK s \in Threads : ref[s] = locks[j]
      BY <3>1 DEF EntryUsed
    <3>3. s # t
      BY <3>1, <3>2, <1>3
    <3> QED
      BY <1>1, <3>1, <3>2, <3>3 DEF TypeOK
  <2> QED
    BY <2>1, <2>2
<1>11. OwnerInside'
  <2>1. \A s \in Threads : s # t => ref'[s] = ref[s] /\ pc'[s] = pc[s]
    BY <1>1, <1>2 DEF TypeOK
  <2>2. pc'[t] = "waiting"
    BY <1>2 DEF TypeOK
  <2> QED
    BY <1>2, <2>1, <2>2 DEF OwnerInside, TypeOK
<1>12. RefsExact'
  <2> SUFFICES ASSUME NEW m \in LockIds
               PROVE  refs'[m] = Cardinality(Users(m)')
    BY DEF RefsExact
  <2>1. CASE m # l
    BY <1>1, <1>2, <1>3, <2>1, UsersAdd DEF RefsExact, TypeOK
  <2>2. CASE m = l /\ locks[k] = l
    BY <1>1, <1>2, <1>3, <2>2, UsersAdd DEF RefsExact, TypeOK
  <2>3. CASE m = l /\ locks[k] # l
    <3>1. Users(l) = {}
      BY <1>5, <2>3 DEF Users
    <3>2. Cardinality(Users(l)) = 0
      BY <3>1, FS_EmptySet
    <3>3. Cardinality(Users(l)') = Cardinality(Users(l)) + 1
      BY <1>1, <1>3, UsersAdd
    <3>4. refs'[l] = 1
      BY <1>2, <2>3 DEF TypeOK
    <3> QED
      BY <2>3, <3>2, <3>3, <3>4
  <2> QED
    BY <2>1, <2>2, <2>3
<1> QED
  BY <1>6, <1>7, <1>8, <1>9, <1>10, <1>11, <1>12

LEMMA AcquireInv ==
    ASSUME IInv, NEW t \in Threads, Acquire(t)
    PROVE  IInv'
<1> USE KeyLocksAssumption DEF IInv
<1>1. ref[t] \in LockIds /\ pc[t] = "waiting"
  BY DEF Acquire, LocalsSet, TypeOK
<1>2. TypeOK'
  BY <1>1 DEF Acquire, TypeOK
<1>3. LocalsSet' /\ EntryStable' /\ EntriesDistinct' /\ EntryUsed'
  BY <1>1 DEF Acquire, LocalsSet, EntryStable, EntriesDistinct, EntryUsed, TypeOK
<1>4. OwnerInside'
  BY <1>1 DEF Acquire, OwnerInside, TypeOK
<1>5. RefsExact'
  BY DEF Acquire, RefsExact, Users
<1> QED
  BY <1>2, <1>3, <1>4, <1>5

LEMMA UnlockInv ==
    ASSUME IInv, NEW t \in Threads, Unlock(t)
    PROVE  IInv'
<1> USE KeyLocksAssumption DEF IInv
<1>1. ref[t] \in LockIds /\ pc[t] = "holding"
  BY DEF Unlock, LocalsSet, TypeOK
<1>2. TypeOK'
  BY <1>1 DEF Unlock, TypeOK
<1>3. LocalsSet' /\ EntryStable' /\ EntriesDistinct' /\ EntryUsed'
  BY <1>1 DEF Unlock, LocalsSet, EntryStable, EntriesDistinct, EntryUsed, TypeOK
<1>4. OwnerInside'
  BY <1>1 DEF Unlock, OwnerInside, TypeOK
<1>5. RefsExact'
  BY DEF Unlock, RefsExact, Users
<1> QED
  BY <1>2, <1>3, <1>4, <1>5

LEMMA DeregisterInv ==
    ASSUME IInv, NEW t \in Threads, Deregister(t)
    PROVE  IInv'
<1> USE KeyLocksAssumption DEF IInv
<1>1. /\ pc[t] = "leaving"
      /\ pc' = [pc EXCEPT ![t] = "idle"]
      /\ key' = [key EXCEPT ![t] = Null]
      /\ ref' = [ref EXCEPT ![t] = Null]
      /\ owner' = owner
      /\ refs' = [refs EXCEPT ![ref[t]] = @ - 1]
      /\ locks' = [locks EXCEPT
                      ![key[t]] = IF refs[ref[t]] = 1 THEN Null ELSE @]
  BY DEF Deregister, Leave
<1>2. ref[t] \in LockIds /\ key[t] \in Keys /\ locks[key[t]] = ref[t]
  BY <1>1 DEF LocalsSet, EntryStable, TypeOK
<1>3. /\ refs[ref[t]] = 1 <=> \A s \in Threads : ref[s] = ref[t] => s = t
      /\ refs[ref[t]] > 0
  BY <1>2, LastUser
<1>4. TypeOK'
  BY <1>1, <1>2, <1>3 DEF TypeOK
<1>5. LocalsSet'
  BY <1>1 DEF LocalsSet, TypeOK
<1>6. EntryStable'
  <2> SUFFICES ASSUME NEW s \in Threads, ref'[s] # Null
               PROVE  locks'[key'[s]] = ref'[s]
    BY DEF EntryStable
  <2>1. s # t /\ ref'[s] = ref[s] /\ key'[s] = key[s]
    BY <1>1 DEF TypeOK
  <2>2. locks[key[s]] = ref[s] /\ ref[s] # Null /\ key[s] \in Keys
    BY <2>1 DEF EntryStable, LocalsSet, TypeOK
  <2>3. key[s] = key[t] => ref[s] = ref[t] /\ refs[ref[t]] # 1
    BY <1>2, <1>3, <2>1, <2>2
  <2> QED
    BY <1>1, <1>2, <2>1, <2>2, <2>3 DEF TypeOK
<1>7. EntriesDistinct'
  BY <1>1, <1>2 DEF EntriesDistinct, TypeOK
<1>8. EntryUsed'
  <2> SUFFICES ASSUME NEW j \in Keys, locks'[j] # Null
               PROVE  \E s \in Threads : ref'[s] = locks'[j]
    BY DEF EntryUsed
  <2>1. locks'[j] = locks[j] /\ (j = key[t] => refs[ref[t]] # 1)
    BY <1>1, <1>2 DEF TypeOK
  <2>2. \E s \in Threads : s # t /\ ref[s] = locks[j]
    <3>1. CASE j = key[t]
      BY <1>2, <1>3, <2>1, <3>1
    <3>2. CASE j # key[t]
      <4>1. locks[j] # ref[t]
        BY <1>2, <2>1, <3>2 DEF EntriesDistinct
      <4> QED
        BY <2>1, <4>1 DEF EntryUsed
    <3> QED
      BY <3>1, <3>2
  <2> QED
    BY <1>1, <2>1, <2>2 DEF TypeOK
<1>9. OwnerInside'
  <2>1. \A s \in Threads : s # t => ref'[s] = ref[s] /\ pc'[s] = pc[s]
    BY <1>1 DEF TypeOK
  <2>2. pc'[t] = "idle"
    BY <1>1 DEF TypeOK
  <2> QED
    BY <1>1, <2>1, <2>2 DEF OwnerInside, TypeOK
<1>10. RefsExact'
  BY <1>1, <1>2, UsersRemove DEF RefsExact, TypeOK
<1> QED
  BY <1>4, <1>5, <1>6, <1>7, <1>8, <1>9, <1>10

LEMMA NextInv == IInv /\ [Next]_vars => IInv'
<1> SUFFICES ASSUME IInv, [Next]_vars PROVE IInv'
  OBVIOUS
<1>1. ASSUME NEW t \in Threads, NEW k \in Keys, Register(t, k) PROVE IInv'
  BY <1>1, RegisterInv
<1>2. ASSUME NEW t \in Threads, Acquire(t) PROVE IInv'
  BY <1>2, AcquireInv
<1>3. ASSUME NEW t \in Threads, Unlock(t) PROVE IInv'
  BY <1>3, UnlockInv
<1>4. ASSUME NEW t \in Threads, Deregister(t) PROVE IInv'
  BY <1>4, DeregisterInv
<1>5. CASE UNCHANGED vars
  BY <1>5 DEF vars, IInv, TypeOK, LocalsSet, EntryStable, EntriesDistinct,
              EntryUsed, OwnerInside, RefsExact, Users
<1> QED
  BY <1>1, <1>2, <1>3, <1>4, <1>5 DEF Next

LEMMA InvariantHolds == SafeSpec => []IInv
BY InitInv, NextInv, PTL DEF SafeSpec
-----------------------------------------------------------------------------
\* In every reachable state the variables of internal/cache/cache.go KeyLocks
\* have their types; in particular no reference count ever goes below zero.
THEOREM TypeCorrect == SafeSpec => []TypeOK
<1>1. IInv => TypeOK
  BY DEF IInv
<1> QED
  BY <1>1, InvariantHolds, PTL

\* For any number of requests and keys, Lock never lets two requests into the
\* critical section of one cache key.
THEOREM MutualExclusionHolds == SafeSpec => []MutualExclusion
<1>1. IInv => MutualExclusion
  BY DEF IInv, LocalsSet, EntryStable, OwnerInside, MutualExclusion, TypeOK
<1> QED
  BY <1>1, InvariantHolds, PTL

\* The reference count of a lock object is the number of calls that use it.
THEOREM RefsExactHolds == SafeSpec => []RefsExact
<1>1. IInv => RefsExact
  BY DEF IInv
<1> QED
  BY <1>1, InvariantHolds, PTL

\* The map has an entry for a key exactly while a call on that key is running,
\* so the table neither leaks entries nor drops one that is in use.
THEOREM EntryIffUsedHolds == SafeSpec => []EntryIffUsed
<1>1. IInv => EntryIffUsed
  <2> SUFFICES ASSUME IInv, NEW k \in Keys
               PROVE  locks[k] # Null <=> \E t \in Threads : key[t] = k
    BY DEF EntryIffUsed
  <2> USE KeyLocksAssumption DEF IInv
  <2>1. ASSUME locks[k] # Null PROVE \E t \in Threads : key[t] = k
    <3>1. PICK t \in Threads : ref[t] = locks[k]
      BY <2>1 DEF EntryUsed
    <3>2. key[t] \in Keys /\ locks[key[t]] = locks[k]
      BY <2>1, <3>1 DEF LocalsSet, EntryStable, TypeOK
    <3> QED
      BY <2>1, <3>2 DEF EntriesDistinct
  <2>2. ASSUME NEW t \in Threads, key[t] = k PROVE locks[k] # Null
    BY <2>2 DEF LocalsSet, EntryStable, TypeOK
  <2> QED
    BY <2>1, <2>2
<1> QED
  BY <1>1, InvariantHolds, PTL

\* A request waits only for requests of the same key.
THEOREM BlockedBySameKeyOnlyHolds == SafeSpec => []BlockedBySameKeyOnly
<1>1. IInv => BlockedBySameKeyOnly
  <2> SUFFICES ASSUME IInv, NEW t \in Threads, pc[t] = "waiting",
                      owner[ref[t]] # Null
               PROVE  key[owner[ref[t]]] = key[t]
    BY DEF BlockedBySameKeyOnly
  <2> USE KeyLocksAssumption DEF IInv
  <2> DEFINE s == owner[ref[t]]
  <2>1. ref[t] \in LockIds /\ ref[t] # Null /\ locks[key[t]] = ref[t]
    BY DEF LocalsSet, EntryStable, TypeOK
  <2>2. s \in Threads /\ ref[s] = ref[t]
    BY <2>1 DEF OwnerInside, TypeOK
  <2>3. locks[key[s]] = ref[t] /\ key[s] \in Keys /\ key[t] \in Keys
    BY <2>1, <2>2 DEF LocalsSet, EntryStable, TypeOK
  <2> QED
    BY <2>1, <2>3 DEF EntriesDistinct
<1> QED
  BY <1>1, InvariantHolds, PTL
-----------------------------------------------------------------------------
(* Every step of KeyLocks is a step of one plain mutex per key.            *)

LEMMA InitRefines == Init => Abstract!Init
BY DEF Init, Abstract!Init, wantBar, holderBar

LEMMA RegisterRefines ==
    ASSUME IInv, NEW t \in Threads, NEW k \in Keys, Register(t, k)
    PROVE  Abstract!Request(t, k)
<1> USE KeyLocksAssumption DEF IInv
<1>1. PICK l \in LockIds :
         /\ IF locks[k] = Null THEN Fresh(l) ELSE l = locks[k]
         /\ Enter(t, k, l)
         /\ ref' = [ref EXCEPT ![t] = l]
  BY DEF Register
<1>2. /\ locks' = [locks EXCEPT ![k] = l]
      /\ pc[t] = "idle"
      /\ pc' = [pc EXCEPT ![t] = "waiting"]
      /\ key' = [key EXCEPT ![t] = k]
      /\ owner' = owner
  BY <1>1 DEF Register, Enter
<1>3. wantBar[t] = Null
  BY <1>2 DEF wantBar
<1>4. \A j \in Keys : holderBar[j] # t
  BY <1>2 DEF holderBar, OwnerInside, TypeOK
<1>5. wantBar' = [wantBar EXCEPT ![t] = k]
  BY <1>2 DEF wantBar, TypeOK
<1>6. locks[k] = Null => owner[l] = Null
  <2>1. locks[k] = Null => \A s \in Threads : ref[s] # l
    BY <1>1 DEF Fresh
  <2> QED
    BY <2>1 DEF OwnerInside, TypeOK
<1>7. holderBar' = holderBar
  BY <1>1, <1>2, <1>6 DEF holderBar, TypeOK
<1> QED
  BY <1>3, <1>4, <1>5, <1>7 DEF Abstract!Request

LEMMA AcquireRefines ==
    ASSUME IInv, NEW t \in Threads, Acquire(t)
    PROVE  key[t] \in Keys /\ Abstract!Grant(t, key[t])
<1> USE KeyLocksAssumption DEF IInv
<1>1. /\ pc[t] = "waiting"
      /\ owner[ref[t]] = Null
      /\ owner' = [owner EXCEPT ![ref[t]] = t]
      /\ pc' = [pc EXCEPT ![t] = "holding"]
      /\ locks' = locks
      /\ key' = key
  BY DEF Acquire
<1>2. ref[t] \in LockIds /\ key[t] \in Keys /\ locks[key[t]] = ref[t]
  BY <1>1 DEF LocalsSet, EntryStable, TypeOK
<1>3. wantBar[t] = key[t] /\ holderBar[key[t]] = Null
  BY <1>1, <1>2 DEF wantBar, holderBar
<1>4. wantBar' = [wantBar EXCEPT ![t] = Null]
  BY <1>1 DEF wantBar, TypeOK
<1>5. \A j \in Keys : j # key[t] => locks[j] # ref[t]
  BY <1>2 DEF EntriesDistinct
<1>6. holderBar' = [holderBar EXCEPT ![key[t]] = t]
  BY <1>1, <1>2, <1>5 DEF holderBar, TypeOK
<1> QED
  BY <1>2, <1>3, <1>4, <1>6 DEF Abstract!Grant

LEMMA UnlockRefines ==
    ASSUME IInv, NEW t \in Threads, Unlock(t)
    PROVE  key[t] \in Keys /\ Abstract!Release(t, key[t])
<1> USE KeyLocksAssumption DEF IInv
<1>1. /\ pc[t] = "holding"
      /\ owner' = [owner EXCEPT ![ref[t]] = Null]
      /\ pc' = [pc EXCEPT ![t] = "leaving"]
      /\ locks' = locks
      /\ key' = key
  BY DEF Unlock
<1>2. ref[t] \in LockIds /\ key[t] \in Keys /\ locks[key[t]] = ref[t]
  BY <1>1 DEF LocalsSet, EntryStable, TypeOK
<1>3. holderBar[key[t]] = t
  BY <1>1, <1>2 DEF holderBar, OwnerInside
<1>4. wantBar' = wantBar
  BY <1>1 DEF wantBar, TypeOK
<1>5. \A j \in Keys : j # key[t] => locks[j] # ref[t]
  BY <1>2 DEF EntriesDistinct
<1>6. holderBar' = [holderBar EXCEPT ![key[t]] = Null]
  BY <1>1, <1>2, <1>5 DEF holderBar, TypeOK
<1> QED
  BY <1>2, <1>3, <1>4, <1>6 DEF Abstract!Release

LEMMA DeregisterRefines ==
    ASSUME IInv, NEW t \in Threads, Deregister(t)
    PROVE  UNCHANGED <<wantBar, holderBar>>
<1> USE KeyLocksAssumption DEF IInv
<1>1. /\ pc[t] = "leaving"
      /\ pc' = [pc EXCEPT ![t] = "idle"]
      /\ key' = [key EXCEPT ![t] = Null]
      /\ owner' = owner
      /\ locks' = [locks EXCEPT
                      ![key[t]] = IF refs[ref[t]] = 1 THEN Null ELSE @]
  BY DEF Deregister, Leave
<1>2. /\ ref[t] \in LockIds
      /\ ref[t] # Null
      /\ key[t] \in Keys
      /\ locks[key[t]] = ref[t]
  BY <1>1 DEF LocalsSet, EntryStable, TypeOK
<1>3. refs[ref[t]] = 1 => \A s \in Threads : ref[s] = ref[t] => s = t
  BY <1>2, LastUser
<1>4. refs[ref[t]] = 1 => owner[ref[t]] = Null
  BY <1>1, <1>2, <1>3 DEF OwnerInside, TypeOK
<1>5. wantBar' = wantBar
  BY <1>1 DEF wantBar, TypeOK
<1>6. holderBar' = holderBar
  BY <1>1, <1>2, <1>4 DEF holderBar, TypeOK
<1> QED
  BY <1>5, <1>6

\* KeyLocks, with its table, lock objects and reference counts, does nothing a
\* plain mutex per cache key could not do.
THEOREM RefinesKeyMutex == SafeSpec => Abstract!SafeSpec
<1>1. ASSUME IInv, [Next]_vars PROVE [Abstract!Next]_(Abstract!vars)
  <2>1. ASSUME NEW t \in Threads, NEW k \in Keys, Register(t, k)
        PROVE  Abstract!Next
    BY <1>1, <2>1, RegisterRefines DEF Abstract!Next
  <2>2. ASSUME NEW t \in Threads, Acquire(t) PROVE Abstract!Next
    BY <1>1, <2>2, AcquireRefines DEF Abstract!Next
  <2>3. ASSUME NEW t \in Threads, Unlock(t) PROVE Abstract!Next
    BY <1>1, <2>3, UnlockRefines DEF Abstract!Next
  <2>4. ASSUME NEW t \in Threads, Deregister(t)
        PROVE  UNCHANGED Abstract!vars
    BY <1>1, <2>4, DeregisterRefines DEF Abstract!vars
  <2>5. CASE UNCHANGED vars
    BY <2>5 DEF vars, wantBar, holderBar, Abstract!vars
  <2> QED
    BY <1>1, <2>1, <2>2, <2>3, <2>4, <2>5 DEF Next
<1> QED
  BY <1>1, InitRefines, InvariantHolds, PTL DEF SafeSpec, Abstract!SafeSpec
=============================================================================
