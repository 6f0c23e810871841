------------------------------ MODULE KeyMutex ------------------------------
(***************************************************************************)
(* What a table of per-key locks promises its callers: a thread asks for a *)
(* key, is granted it only while nobody else has it, and gives it back.    *)
(* There is no lock object, no reference count and no table here; KeyLocks *)
(* (internal/cache/cache.go) is shown to implement this specification.     *)
(***************************************************************************)
CONSTANTS Threads, Keys, Null

VARIABLES
    want,     \* want[t]: the key t has asked for and not been granted yet
    holder    \* holder[k]: the thread inside the critical section of k

vars == <<want, holder>>

Init ==
    /\ want = [t \in Threads |-> Null]
    /\ holder = [k \in Keys |-> Null]

\* A thread may only ask while it neither waits for nor holds a key.
Request(t, k) ==
    /\ want[t] = Null
    /\ \A j \in Keys : holder[j] # t
    /\ want' = [want EXCEPT ![t] = k]
    /\ UNCHANGED holder

Grant(t, k) ==
    /\ want[t] = k
    /\ holder[k] = Null
    /\ holder' = [holder EXCEPT ![k] = t]
    /\ want' = [want EXCEPT ![t] = Null]

Release(t, k) ==
    /\ holder[k] = t
    /\ holder' = [holder EXCEPT ![k] = Null]
    /\ UNCHANGED want

Next ==
    \E t \in Threads, k \in Keys :
        Request(t, k) \/ Grant(t, k) \/ Release(t, k)

SafeSpec == Init /\ [][Next]_vars

Fairness ==
    \A t \in Threads, k \in Keys :
        SF_vars(Grant(t, k)) /\ WF_vars(Release(t, k))

Spec == SafeSpec /\ Fairness
=============================================================================
