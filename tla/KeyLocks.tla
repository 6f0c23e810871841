------------------------------ MODULE KeyLocks ------------------------------
(***************************************************************************)
(* KeyLocks of internal/cache/cache.go: a map from cache key to a          *)
(* reference-counted lock object.  Lock(key) registers the caller with the *)
(* object of the key under the table's own mutex l.mu (one atomic step),   *)
(* then blocks on the object's mutex outside l.mu.  The closure it returns *)
(* unlocks the object first and, in a second section under l.mu, drops the *)
(* reference and deletes the map entry of the key when none is left.       *)
(*                                                                         *)
(* Lock objects are garbage collected: an identity of LockIds stands for a *)
(* new object as soon as neither the map nor a thread refers to it.        *)
(***************************************************************************)
EXTENDS Naturals, FiniteSets

CONSTANTS
    Threads,    \* goroutines that serve requests
    Keys,       \* cache paths
    LockIds,    \* identities of refLock objects
    Null

ASSUME KeyLocksAssumption ==
    /\ IsFiniteSet(Threads)
    /\ Null \notin Threads \cup Keys \cup LockIds

VARIABLES
    locks,      \* the map l.locks; Null: no entry
    refs,       \* refLock.refs
    owner,      \* the thread that has refLock.mu
    pc,         \* where a thread is in Lock / its unlock closure
    key,        \* the key argument of the thread's call
    ref         \* the thread's local variable lock

vars == <<locks, refs, owner, pc, key, ref>>

\* Types; the reference counts stay natural numbers.
TypeOK ==
    /\ locks \in [Keys -> LockIds \cup {Null}]
    /\ refs \in [LockIds -> Nat]
    /\ owner \in [LockIds -> Threads \cup {Null}]
    /\ pc \in [Threads -> {"idle", "waiting", "holding", "leaving"}]
    /\ key \in [Threads -> Keys \cup {Null}]
    /\ ref \in [Threads -> LockIds \cup {Null}]

Init ==
    /\ locks = [k \in Keys |-> Null]
    /\ refs = [l \in LockIds |-> 0]
    /\ owner = [l \in LockIds |-> Null]
    /\ pc = [t \in Threads |-> "idle"]
    /\ key = [t \in Threads |-> Null]
    /\ ref = [t \in Threads |-> Null]

(* Mutant: lock objects are striped over the keys. *)
FreshStriped(l) == TRUE

Fresh(l) == (\A k \in Keys : locks[k] # l) /\ (\A t \in Threads : ref[t] # l)

(***************************************************************************)
(* The section of Lock under l.mu: find the object of the key or put a new *)
(* one (zero value: unlocked, no references) in the map, and count the     *)
(* caller.                                                                 *)
(***************************************************************************)
(* Mutant: the reference is counted after l.mu is given up, and forgotten. *)
EnterUncounted(t, k, l) ==
    /\ refs' = [refs EXCEPT ![l] = IF locks[k] = l THEN @ ELSE 1]
    /\ locks' = [locks EXCEPT ![k] = l]

Enter(t, k, l) ==
    /\ refs' = [refs EXCEPT ![l] = IF locks[k] = l THEN @ + 1 ELSE 1]
    /\ locks' = [locks EXCEPT ![k] = l]

Register(t, k) ==
    /\ pc[t] = "idle"
    /\ \E l \in LockIds :
          /\ IF locks[k] = Null THEN Fresh(l) ELSE l = locks[k]
          /\ Enter(t, k, l)
          /\ ref' = [ref EXCEPT ![t] = l]
    /\ pc' = [pc EXCEPT ![t] = "waiting"]
    /\ key' = [key EXCEPT ![t] = k]
    /\ UNCHANGED owner

(* Mutant: a mutex that always prefers the same waiter. *)
AcquireByPriority(t) ==
    /\ pc[t] = "waiting"
    /\ owner[ref[t]] = Null
    /\ t = CHOOSE s \in Threads : pc[s] = "waiting" /\ ref[s] = ref[t]
    /\ owner' = [owner EXCEPT ![ref[t]] = t]
    /\ pc' = [pc EXCEPT ![t] = "holding"]
    /\ UNCHANGED <<locks, refs, key, ref>>

\* lock.mu.Lock(), outside l.mu.
Acquire(t) ==
    /\ pc[t] = "waiting"
    /\ owner[ref[t]] = Null
    /\ owner' = [owner EXCEPT ![ref[t]] = t]
    /\ pc' = [pc EXCEPT ![t] = "holding"]
    /\ UNCHANGED <<locks, refs, key, ref>>

\* First statement of the closure, run by the deferred call in serveCached.
Unlock(t) ==
    /\ pc[t] = "holding"
    /\ owner' = [owner EXCEPT ![ref[t]] = Null]
    /\ pc' = [pc EXCEPT ![t] = "leaving"]
    /\ UNCHANGED <<locks, refs, key, ref>>

\* The end of the closure: the call is over for the thread.
Leave(t) ==
    /\ pc[t] = "leaving"
    /\ pc' = [pc EXCEPT ![t] = "idle"]
    /\ key' = [key EXCEPT ![t] = Null]
    /\ ref' = [ref EXCEPT ![t] = Null]
    /\ UNCHANGED owner

(* Mutants: the entry is deleted by whoever leaves; by nobody; the         *)
(* reference is dropped twice.                                             *)
DeregisterAlwaysDeletes(t) ==
    /\ Leave(t)
    /\ refs' = [refs EXCEPT ![ref[t]] = @ - 1]
    /\ locks' = [locks EXCEPT ![key[t]] = Null]

DeregisterNeverDeletes(t) ==
    /\ Leave(t)
    /\ refs' = [refs EXCEPT ![ref[t]] = @ - 1]
    /\ UNCHANGED locks

DeregisterTwice(t) ==
    /\ Leave(t)
    /\ refs' = [refs EXCEPT ![ref[t]] = @ - 2]
    /\ UNCHANGED locks

\* The rest of the closure, under l.mu.  The entry is deleted by key, not by
\* object identity.
Deregister(t) ==
    /\ Leave(t)
    /\ refs' = [refs EXCEPT ![ref[t]] = @ - 1]
    /\ locks' = [locks EXCEPT ![key[t]] = IF refs[ref[t]] = 1 THEN Null ELSE @]

Next ==
    \E t \in Threads :
        \/ \E k \in Keys : Register(t, k)
        \/ Acquire(t)
        \/ Unlock(t)
        \/ Deregister(t)

SafeSpec == Init /\ [][Next]_vars

(***************************************************************************)
(* Go runs every runnable goroutine, and a sync.Mutex hands itself over to *)
(* a waiter that has starved for a millisecond, so an Acquire that is      *)
(* possible again and again happens.  The closure is deferred: it runs     *)
(* when the handler returns or panics.  Nobody is obliged to call Lock.    *)
(***************************************************************************)
Fairness ==
    \A t \in Threads :
        /\ SF_vars(Acquire(t))
        /\ WF_vars(Unlock(t))
        /\ WF_vars(Deregister(t))

Spec == SafeSpec /\ Fairness
-----------------------------------------------------------------------------
Users(l) == {t \in Threads : ref[t] = l}

\* Two requests are never inside the critical section of one cache key, even
\* though the lock object of a key changes identity whenever its entry is
\* deleted and made again.
MutualExclusion ==
    \A s, t \in Threads :
        s # t /\ pc[s] = "holding" /\ pc[t] = "holding" => key[s] # key[t]

\* The count that decides when Deregister deletes an entry is exactly the
\* number of calls that still use the object: never low (an object in use
\* would be dropped from the map), never high (the map would leak).
RefsExact ==
    \A l \in LockIds : refs[l] = Cardinality(Users(l))

\* The map has an entry for a key exactly while a call on the key is between
\* its registration and its deregistration: it never grows with the number of
\* keys ever served, and never loses an entry somebody waits on.
EntryIffUsed ==
    \A k \in Keys : locks[k] # Null <=> \E t \in Threads : key[t] = k

\* A request is kept waiting only by a request for the same key: lock objects
\* of different keys are never shared, reused objects included.
BlockedBySameKeyOnly ==
    \A t \in Threads :
        pc[t] = "waiting" /\ owner[ref[t]] # Null => key[owner[ref[t]]] = key[t]

\* A request that waits for a key gets it in the end.
EveryWaiterEnters ==
    \A t \in Threads : pc[t] = "waiting" ~> pc[t] = "holding"
-----------------------------------------------------------------------------
(* Refinement of the abstract per-key mutex. *)
wantBar == [t \in Threads |-> IF pc[t] = "waiting" THEN key[t] ELSE Null]

holderBar ==
    [k \in Keys |-> IF locks[k] = Null THEN Null ELSE owner[locks[k]]]

Abstract == INSTANCE KeyMutex WITH want <- wantBar, holder <- holderBar

\* KeyLocks behaves like one plain mutex per key, fairness included.
ImplementsKeyMutex == Abstract!Spec
=============================================================================
