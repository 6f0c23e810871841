---------------------------- MODULE MemoryCache ----------------------------
(***************************************************************************)
(* The in-memory response cache, type Memory of internal/cache/cache.go.   *)
(* Every operation runs under the one mutex c.mu and is one action here.   *)
(*                                                                         *)
(* Data is abstracted to its size.  accessedAt is only used to order       *)
(* evictions and the clock is monotonic, so it becomes the order itself;   *)
(* createdAt is only compared with the TTL, so it becomes an age that      *)
(* stops counting at TTL + 1.  As in the code 0 turns a limit off.         *)
(***************************************************************************)
EXTENDS Integers, FiniteSetsExt

CONSTANTS
    Keys,
    Sizes,        \* sizes of the data offered to Set
    MaxSize,      \* c.maxSize
    MaxItems,     \* c.maxItems
    TTL,          \* c.ttl, in ticks
    MaxDrift      \* bound: how far the recorded size may fall behind

ASSUME MemoryAssumption ==
    /\ Sizes \subseteq Nat
    /\ {MaxSize, MaxItems, TTL, MaxDrift} \subseteq Nat

VARIABLES
    items,        \* c.items: key -> [size, age]
    before,       \* <<j, k>>: item j was accessed before item k
    currentSize,  \* c.currentSize
    last,         \* what the last call returned to its caller
    since         \* history: the keys used since key k was last used

vars == <<items, before, currentSize, last, since>>

Item == [size : Sizes, age : 0 .. TTL + 1]

SizeOf(S) == MapThenSumSet(LAMBDA k : items[k].size, S)

\* Bytes really held, against currentSize, the bytes the cache thinks it holds.
TrueSize == SizeOf(DOMAIN items)

Without(S) == [k \in DOMAIN items \ S |-> items[k]]

\* The order of the keys that are not in S.
Among(S) == {p \in before : p[1] \notin S /\ p[2] \notin S}

\* k is accessed after everything that stays when S goes.
Latest(k, S) == Among(S \cup {k}) \cup ((DOMAIN items \ (S \cup {k})) \X {k})

(***************************************************************************)
(* The calls of the users of the cache, kept apart from what the cache     *)
(* makes of them: a key is used when a Get of it is answered or a Set of   *)
(* it stores.  No guard reads this history.                                *)
(***************************************************************************)
Uses(k) == since' = [x \in Keys |-> IF x = k THEN {} ELSE since[x] \cup {k}]

Expired(k) == TTL > 0 /\ k \in DOMAIN items /\ items[k].age > TTL

Init ==
    /\ items = [k \in {} |-> 0]
    /\ before = {}
    /\ currentSize = 0
    /\ last = [op |-> "none"]
    /\ since = [k \in Keys |-> {}]

(* Mutant: the bytes stay recorded, only the entries are counted off.      *)
DeleteKeepsSize(S) ==
    /\ items' = Without(S)
    /\ before' = Among(S)
    /\ currentSize' = currentSize - Cardinality(S)
    /\ UNCHANGED since

\* deleteLocked, for each key of S that is present.
DeleteLocked(S) ==
    /\ items' = Without(S)
    /\ before' = Among(S)
    /\ currentSize' = currentSize - SizeOf(S)
    /\ UNCHANGED since
-----------------------------------------------------------------------------
Miss(k) ==
    /\ k \in DOMAIN items => Expired(k)
    /\ DeleteLocked({k} \cap DOMAIN items)
    /\ last' = [op |-> "miss", key |-> k]

(* Mutant: the access time is added beside the old one.                    *)
HitDuplicates(k) ==
    /\ k \in DOMAIN items
    /\ ~Expired(k)
    /\ before' = before \cup ((DOMAIN items \ {k}) \X {k})
    /\ last' = [op |-> "hit", key |-> k]
    /\ Uses(k)
    /\ UNCHANGED <<items, currentSize>>

(* Mutant: the access time stays that of the Set.                          *)
HitWithoutRefresh(k) ==
    /\ k \in DOMAIN items
    /\ ~Expired(k)
    /\ last' = [op |-> "hit", key |-> k]
    /\ Uses(k)
    /\ UNCHANGED <<items, before, currentSize>>

Hit(k) ==
    /\ k \in DOMAIN items
    /\ ~Expired(k)
    /\ before' = Latest(k, {})
    /\ last' = [op |-> "hit", key |-> k]
    /\ Uses(k)
    /\ UNCHANGED <<items, currentSize>>

Get(k) == Miss(k) \/ Hit(k)

(***************************************************************************)
(* Set.  The size of an item that is overwritten is subtracted first, but  *)
(* the item stays in the map while evictOneLocked runs: when it is itself  *)
(* among the victims, deleteLocked subtracts its size a second time.       *)
(***************************************************************************)
Replaced(k) == IF k \in DOMAIN items THEN items[k].size ELSE 0

\* What evictOneLocked can have removed by then, the oldest access first: with
\* an item everything that was accessed before it.
Victims == {V \in SUBSET DOMAIN items : \A p \in before : p[2] \in V => p[1] \in V}

\* currentSize after the evictions V.
SizeAfter(k, V) == currentSize - Replaced(k) - SizeOf(V)

(* Mutant: one item too many is let in.                                    *)
NeedsSpaceLate(k, size, V) ==
    \/ MaxSize > 0 /\ SizeAfter(k, V) + size > MaxSize
    \/ MaxItems > 0 /\ Cardinality(DOMAIN items \ V) > MaxItems

\* needsSpaceLocked, after the evictions V.
NeedsSpace(k, size, V) ==
    \/ MaxSize > 0 /\ SizeAfter(k, V) + size > MaxSize
    \/ MaxItems > 0 /\ Cardinality(DOMAIN items \ V) >= MaxItems

\* The loop of Set ends with the first evictions that make room.
Evictions(k, size) ==
    CHOOSE V \in Victims :
        /\ ~NeedsSpace(k, size, V)
        /\ \A W \in Victims : W \subseteq V /\ W # V => NeedsSpace(k, size, W)

SetRefused(k, size) ==
    /\ MaxSize > 0 /\ size > MaxSize
    /\ last' = [op |-> "refused", key |-> k]
    /\ UNCHANGED <<items, before, currentSize, since>>

\* The evictions V, and the item for k.
Store(k, size, V) ==
    /\ items' = [x \in (DOMAIN items \ V) \cup {k} |->
                    IF x = k THEN [size |-> size, age |-> 0] ELSE items[x]]
    /\ before' = Latest(k, V)
    /\ currentSize' = SizeAfter(k, V) + size
    /\ last' = [op |-> "set", key |-> k]
    /\ Uses(k)
    /\ TrueSize' - currentSize' <= MaxDrift

SetStored(k, size) ==
    /\ MaxSize = 0 \/ size <= MaxSize
    /\ Store(k, size, Evictions(k, size))

Set(k, size) == SetRefused(k, size) \/ SetStored(k, size)

Delete(k) ==
    /\ DeleteLocked({k} \cap DOMAIN items)
    /\ last' = [op |-> "delete", key |-> k]

Clear ==
    /\ items' = Without(DOMAIN items)
    /\ before' = {}
    /\ currentSize' = 0
    /\ last' = [op |-> "clear"]
    /\ UNCHANGED since

(* Mutant: the sweep only looks at the item that was used longest ago, and *)
(* only while the cache is full.                                           *)
SweepWhenFull ==
    /\ TTL > 0
    /\ MaxItems > 0 /\ Cardinality(DOMAIN items) = MaxItems
    /\ DeleteLocked({k \in DOMAIN items : Expired(k)})
    /\ last' = [op |-> "sweep"]

\* One tick of expireLoop, which only runs when a TTL is configured.
DeleteExpired ==
    /\ TTL > 0
    /\ DeleteLocked({k \in DOMAIN items : Expired(k)})
    /\ last' = [op |-> "sweep"]

\* Time passes.
Tick ==
    /\ items' = [k \in DOMAIN items |->
                    [items[k] EXCEPT !.age = IF @ > TTL THEN @ ELSE @ + 1]]
    /\ last' = [op |-> "tick"]
    /\ UNCHANGED <<before, currentSize, since>>

Next ==
    \/ \E k \in Keys :
          \/ Get(k)
          \/ \E size \in Sizes : Set(k, size)
          \/ Delete(k)
    \/ Clear
    \/ DeleteExpired
    \/ Tick

SafeSpec == Init /\ [][Next]_vars

\* expireLoop runs until Stop, which is only called when the process ends or
\* the cache object itself is dropped; time does not stop.
Spec == SafeSpec /\ WF_vars(DeleteExpired) /\ WF_vars(Tick)
-----------------------------------------------------------------------------
StrictOrder(r, S) ==
    /\ r \subseteq S \X S
    /\ \A j, k \in S : j # k => (<<j, k>> \in r <=> <<k, j>> \notin r)
    /\ \A k \in S : <<k, k>> \notin r
    /\ \A h, j, k \in S : <<h, j>> \in r /\ <<j, k>> \in r => <<h, k>> \in r

\* Types; the accesses order the items.
TypeOK ==
    /\ DOMAIN items \subseteq Keys
    /\ items \in [DOMAIN items -> Item]
    /\ StrictOrder(before, DOMAIN items)
    /\ currentSize \in Int
    /\ since \in [Keys -> SUBSET Keys]

\* The number of cached responses stays within cache.memory.max_items.
ItemsBounded == MaxItems > 0 => Cardinality(DOMAIN items) <= MaxItems

\* The recorded size never exceeds what is really held, so Set never throws
\* away responses for room it already had.
NeverOvercounted == currentSize <= TrueSize

\* The eviction loop of Set always finds room for data that passed the size
\* check: it never empties the cache only to return false.
EvictionSucceeds ==
    \A k \in Keys, size \in Sizes :
        MaxSize = 0 \/ size <= MaxSize =>
            \E V \in Victims : ~NeedsSpace(k, size, V)

\* Eviction is by last use, as the callers of Get and Set know it: when a Set
\* evicts j and keeps k, k was used after j was used last.  An access time
\* that is not refreshed, is refreshed by the wrong call, or outlives its item
\* breaks this.
EvictsLeastRecent ==
    [][last'.op = "set" =>
          \A j \in DOMAIN items \ DOMAIN items' :
              \A k \in (DOMAIN items \cap DOMAIN items') \ {last'.key} :
                  k \in since[j]]_vars

\* An item whose TTL has passed is removed or replaced, even when nobody asks
\* for its key again.
ExpiredLeave ==
    \A k \in Keys : Expired(k) ~> ~Expired(k)

\* The total size of the responses in memory stays within
\* cache.memory.max_size (README.md, configuration table).
SizeBounded == MaxSize > 0 => TrueSize <= MaxSize
=============================================================================
