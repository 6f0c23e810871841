--------------------------- MODULE CachePipeline ---------------------------
(***************************************************************************)
(* The cache pipeline of internal/app/app.go for one cache path: every APK *)
(* and APT request goes through serveCached, which looks in memory and on  *)
(* disk without a lock, takes the lock of the path, looks again, and only  *)
(* then downloads, validates and renames a temporary file into place.      *)
(* Beside the requests run the background loads of APT indexes, the admin  *)
(* operations of internal/app/admin.go that touch the same path, the       *)
(* clock, other requests that load indexes, and, when CrashPossible, a     *)
(* crash and restart of the process.                                       *)
(*                                                                         *)
(* Every file-system call, hash store batch, memory cache call, SQLite     *)
(* statement and write of an answer to the client is one step, so they     *)
(* interleave as the goroutines do.  Calls whose error the code drops may  *)
(* fail here too; os.Stat and os.Open find a file that is there.  The lock *)
(* is the abstract KeyMutex, which KeyLocks implements.  A file is the     *)
(* version of the upstream object it holds, whether it is the whole        *)
(* object, and whether its modification time is older than the TTL.        *)
(***************************************************************************)
EXTENDS Naturals, FiniteSets

CONSTANTS
    Requests,       \* goroutines serving requests for the path
    Versions,       \* versions of the object the upstream may answer with
    BadVersions,    \* versions whose signature does not verify
    Kinds,          \* what the handler that makes the cacheRequests may serve
    Overlapping,    \* bound: those for which two requests run at once
    VerifySignature,    \* cfg.APK.VerifySignature
    LoadIndexAsync, \* cfg.APT.LoadIndexAsync
    Loaders,        \* bound: background loads of the path at one time
    IndexesChange,  \* other requests load or purge indexes that list the path
    Administered,   \* bound: those of Kinds that an administrator may touch
    CrashPossible,
    Path,           \* the cache path: the key of the lock
    None

AllKinds == {"apk index", "apk package", "apt index", "apt package"}

ASSUME PipelineAssumption ==
    /\ BadVersions \subseteq Versions
    /\ Kinds \subseteq AllKinds
    /\ Overlapping \subseteq Kinds /\ Administered \subseteq Kinds
    /\ {VerifySignature, LoadIndexAsync, IndexesChange,
        CrashPossible} \subseteq BOOLEAN
    /\ None \notin Requests \cup Versions \cup {Path}

VARIABLES
    kind,      \* what is at the path, one of Kinds for good
    disk,      \* the file at the path
    mem,       \* the response the memory cache holds for the path
    records,   \* the version whose hash records the store holds for source Path
    row,       \* the path has a row in cache_objects
    expected,  \* the version the loaded indexes declare for the path
    want, holder,   \* the lock of the path (KeyMutex)
    pc,        \* next call of a request
    phase,     \* "outside" the lock, "inside" it, or "storing" a download
    info,      \* what the request has read of the file to load or to cache
    tmp,       \* the temporary file of the request
    out,       \* the response: X-Cache value and body
    bg,        \* the goroutines of bgWg: next call and what it has parsed
    admin,     \* next call of the administrator's operation
    deleted,   \* history: deleted by the administrator and not stored since
    alone,     \* history: so far no crash, no administrator, no two requests at
               \* once and no change of the indexes during a request, the
               \* background load of an index counted to its request
    failed     \* history: the calls whose dropped error the stores still show:
               \* "remove" and "load" of the file that is at the path,
               \* "metadata" of the records that are in the hash store

lock    == <<want, holder>>
store   == <<disk, mem, records, row>>
request == <<pc, phase, info, tmp, out>>
env     == <<kind, expected, admin, deleted, alone>>
vars    == <<store, lock, request, env, bg, failed>>

Mutex == INSTANCE KeyMutex WITH Threads <- Requests, Keys <- {Path},
                                Null <- None

\* cacheClass = "index": a commit loads the records of the file.
IsIndex == kind \in {"apk index", "apt index"}

\* req.storeInMemory.
InMemory == kind \in {"apk package", "apt index"}

\* Whose hash and whose signature is compared, where configured.
Hashed == kind # "apk index"

Signed == VerifySignature /\ kind \in {"apk index", "apk package"}

File == [ver : Versions, whole : BOOLEAN, old : BOOLEAN]

Temp == [ver : Versions, whole : BOOLEAN]

\* commit hands the index to a goroutine.
Async == LoadIndexAsync /\ kind = "apt index"

ASSUME NoneAssumption == None \notin File

\* The calls whose error is dropped, as failed records them.
Dropped == {"remove", "load", "metadata"}

Response == [cache : {"none", "MEMORY-HIT", "HIT", "MISS", "BYPASS", "ERROR"},
             body : Temp \cup {None}]

Labels == {"idle", "mem", "reply", "stat", "validate", "remove", "meta",
           "memdel", "open", "serve", "hitrow", "read", "memset", "lock", "waiting", "fetch",
           "stream", "check", "rename", "parse", "load", "missrow", "restat",
           "cleanup", "unlock", "done"}

NoAnswer == [cache |-> "none", body |-> None]

NoLoad == [step |-> "idle", file |-> None]

Init ==
    /\ kind \in Kinds
    /\ disk = None /\ mem = None /\ records = None /\ row = FALSE
    /\ expected = None
    /\ Mutex!Init
    /\ pc = [t \in Requests |-> "idle"]
    /\ phase = [t \in Requests |-> "outside"]
    /\ info = [t \in Requests |-> None]
    /\ tmp = [t \in Requests |-> None]
    /\ out = [t \in Requests |-> NoAnswer]
    /\ bg = [l \in Loaders |-> NoLoad]
    /\ admin = "idle"
    /\ deleted = FALSE
    /\ alone = TRUE
    /\ failed = {}
-----------------------------------------------------------------------------
(* Control of a request.                                                   *)

At(t, label) == pc[t] = label

Goto(t, label) == pc' = [pc EXCEPT ![t] = label]

\* Where a request goes when tryMemory or tryDisk has answered it.
Answered(t) ==
    Goto(t, IF phase[t] = "outside" THEN "done" ELSE "unlock")

Answer(t, cache, body) ==
    out' = [out EXCEPT ![t] = [cache |-> cache, body |-> body]]

(* Mutant: what is kept of a file still hangs on its stat.                 *)
ContentWithStat(f) == f

Content(f) == [ver |-> f.ver, whole |-> f.whole]

See(t, f) == info' = [info EXCEPT ![t] = f]

(* Mutant: a file whose record is unknown or whose signature is bad passes *)
(* once its size is right.                                                 *)
AcceptsAnything(f) == f # None

\* validateAPK, validateAPT on the file f that the path names at this moment:
\* no record is no reason to fail, an unreadable file is as soon as something
\* has to be read.
Accepts(f) ==
    /\ ~Hashed \/ expected = None \/ (f # None /\ f.ver = expected)
    /\ ~Signed \/ (f # None /\ f.ver \notin BadVersions)

Idle ==
    /\ \A u \in Requests : At(u, "idle")
    /\ \A l \in Loaders : bg[l].step = "idle"

Start(t) ==
    /\ At(t, "idle")
    /\ kind \in Overlapping \/ \A u \in Requests : At(u, "idle")
    /\ Goto(t, "mem")
    /\ alone' = (alone /\ Idle)
    /\ UNCHANGED <<store, lock, kind, expected, admin, deleted, bg, failed,
                   phase, info, tmp, out>>

\* tryMemory.
TryMemory(t) ==
    /\ At(t, "mem")
    /\ \/ /\ mem # None
          /\ Answer(t, "MEMORY-HIT", mem)
          /\ Goto(t, "reply")
       \/ /\ mem = None
          /\ Goto(t, "stat")
          /\ UNCHANGED out
    /\ UNCHANGED <<store, lock, env, bg, failed, phase, info, tmp>>

\* The answer in memory, or one passed through, is written to the client.
Reply(t) ==
    /\ At(t, "reply")
    /\ Answered(t)
    /\ UNCHANGED <<store, lock, env, bg, failed, phase, info, tmp, out>>

\* tryDisk has found nothing to serve.
MissDisk(t) ==
    Goto(t, IF phase[t] = "outside" THEN "lock" ELSE "fetch")

\* tryDisk: os.Stat, and the test of the TTL on what it returned.
Stat(t) ==
    /\ At(t, "stat")
    /\ \/ disk = None /\ MissDisk(t)
       \/ disk # None /\ Goto(t, IF disk.old THEN "remove" ELSE "validate")
    /\ UNCHANGED <<store, lock, env, bg, failed, phase, info, tmp, out>>

\* The validator cannot tell: the hash store, its memo of the hash of the file
\* or the file itself could not be read or written.
ValidatorFails == Hashed \/ Signed

\* tryDisk: validateCache reads the file the path names now.  Whatever the
\* reason it fails for, the file goes.
Validate(t) ==
    /\ At(t, "validate")
    /\ \/ Accepts(disk) /\ Goto(t, "open")
       \/ (~Accepts(disk) \/ ValidatorFails) /\ Goto(t, "remove")
    /\ UNCHANGED <<store, lock, env, bg, failed, phase, info, tmp, out>>

\* os.Remove of the path: in tryDisk for an expired or invalid file, in
\* fetchAndStore when the commit has failed.  Its error is dropped.
Remove(t) ==
    /\ At(t, "remove")
    /\ \/ /\ disk' = None
          /\ failed' = failed \ {"remove", "load"}
       \/ /\ disk # None
          /\ failed' = failed \cup {"remove"}
          /\ UNCHANGED disk
    /\ Goto(t, "meta")
    /\ UNCHANGED <<mem, records, row, lock, env, bg, phase, info, tmp, out>>

(***************************************************************************)
(* deleteHashMetadata: an index also loses the records it has written,     *)
(* unless DeleteSource fails, whose error is dropped.  (The actual hash it *)
(* deletes is only a memo of the hash of the file.)                        *)
(***************************************************************************)
DeleteSource ==
    \/ /\ records' = IF IsIndex THEN None ELSE records
       /\ failed' = failed \ {"metadata"}
    \/ /\ IsIndex /\ records # None
       /\ failed' = failed \cup {"metadata"}
       /\ UNCHANGED records

(* Mutant: the records of the index stay.                                  *)
DeleteMetadataKeepsRecords(t) ==
    /\ At(t, "meta")
    /\ Goto(t, "memdel")
    /\ UNCHANGED <<store, lock, env, bg, failed, phase, info, tmp, out>>

DeleteMetadata(t) ==
    /\ At(t, "meta")
    /\ DeleteSource
    /\ Goto(t, "memdel")
    /\ UNCHANGED <<disk, mem, row, lock, env, bg, phase, info, tmp, out>>

\* mem.Delete, the last step of every clean-up.
DeleteFromMemory(t) ==
    /\ At(t, "memdel")
    /\ mem' = None
    /\ IF phase[t] = "storing" THEN Goto(t, "cleanup") ELSE MissDisk(t)
    /\ UNCHANGED <<disk, records, row, lock, env, bg, failed, phase, info, tmp, out>>

\* tryDisk: os.Open; what is served is the open file, whatever becomes of the
\* path meanwhile.
Open(t) ==
    /\ At(t, "open")
    /\ \/ /\ disk = None
          /\ MissDisk(t)
          /\ UNCHANGED out
       \/ /\ disk # None
          /\ Answer(t, "HIT", Content(disk))
          /\ Goto(t, "serve")
    /\ UNCHANGED <<store, lock, env, bg, failed, phase, info, tmp>>

\* ServeContent writes the file to the client.
Serve(t) ==
    /\ At(t, "serve")
    /\ Goto(t, "hitrow")
    /\ UNCHANGED <<store, lock, env, bg, failed, phase, info, tmp, out>>

\* recordCacheObject upserts the row of the path; its error is dropped.
RecordObject == row' \in {row, TRUE}

RecordHit(t) ==
    /\ At(t, "hitrow")
    /\ RecordObject
    /\ IF InMemory THEN Goto(t, "read") ELSE Answered(t)
    /\ UNCHANGED <<disk, mem, records, lock, env, bg, failed, phase, info, tmp, out>>

\* The end of cacheDiskFileInMemory.
Cached(t) ==
    IF phase[t] = "storing" THEN Goto(t, "cleanup") ELSE Answered(t)

\* cacheDiskFileInMemory: ReadFile by path, whatever was served before; or the
\* file is too large for the memory cache or cannot be read.
ReadFile(t) ==
    /\ At(t, "read")
    /\ \/ Cached(t) /\ UNCHANGED info
       \/ disk # None /\ See(t, Content(disk)) /\ Goto(t, "memset")
    /\ UNCHANGED <<store, lock, env, bg, failed, phase, tmp, out>>

MemSet(t) ==
    /\ At(t, "memset")
    /\ mem' = info[t]
    /\ See(t, None)
    /\ Cached(t)
    /\ UNCHANGED <<disk, records, row, lock, env, bg, failed, phase, tmp, out>>
-----------------------------------------------------------------------------
(* Under the lock.                                                         *)

LockRequest(t) ==
    /\ At(t, "lock")
    /\ Mutex!Request(t, Path)
    /\ Goto(t, "waiting")
    /\ UNCHANGED <<store, env, bg, failed, phase, info, tmp, out>>

(* Mutant: what happened while the request waited is not looked at again.  *)
LockGrantNoRecheck(t) ==
    /\ At(t, "waiting")
    /\ Mutex!Grant(t, Path)
    /\ phase' = [phase EXCEPT ![t] = "inside"]
    /\ Goto(t, "fetch")
    /\ UNCHANGED <<store, env, bg, failed, info, tmp, out>>

\* The lock is granted; serveCached starts over inside it.
LockGrant(t) ==
    /\ At(t, "waiting")
    /\ Mutex!Grant(t, Path)
    /\ phase' = [phase EXCEPT ![t] = "inside"]
    /\ Goto(t, "mem")
    /\ UNCHANGED <<store, env, bg, failed, info, tmp, out>>

\* req.fetch fails, or the answer is not 200 and is passed through.
FetchNothing(t) ==
    /\ At(t, "fetch")
    /\ \/ Answer(t, "ERROR", None) /\ Goto(t, "unlock")
       \/ Answer(t, "BYPASS", None) /\ Goto(t, "reply")
    /\ UNCHANGED <<store, lock, env, bg, failed, phase, info, tmp>>

\* The upstream answers 200 with some version: headers are sent, the temporary
\* file is created.  When it cannot be, fetchAndStore returns the error.
Fetch(t) ==
    /\ At(t, "fetch")
    /\ phase' = [phase EXCEPT ![t] = "storing"]
    /\ \/ /\ \E v \in Versions :
                tmp' = [tmp EXCEPT ![t] = [ver |-> v, whole |-> FALSE]]
          /\ Answer(t, "MISS", None)
          /\ Goto(t, "stream")
       \/ /\ Answer(t, "ERROR", None)
          /\ Goto(t, "cleanup")
          /\ UNCHANGED tmp
    /\ UNCHANGED <<store, lock, env, bg, failed, info>>

(* Mutant: the error of the body is not looked at.                         *)
StreamUnchecked(t) ==
    /\ At(t, "stream")
    /\ \E whole \in BOOLEAN : tmp' = [tmp EXCEPT ![t].whole = whole]
    /\ Goto(t, "check")
    /\ UNCHANGED <<store, lock, env, bg, failed, phase, info, out>>

\* streamToClientAndCache, Sync and Close: the whole body is on disk; or the
\* body or a write broke off; or Sync or Close failed.
Stream(t) ==
    /\ At(t, "stream")
    /\ \/ tmp' = [tmp EXCEPT ![t].whole = TRUE] /\ Goto(t, "check")
       \/ UNCHANGED tmp /\ Goto(t, "memdel")
       \/ UNCHANGED tmp /\ Goto(t, "cleanup")
    /\ UNCHANGED <<store, lock, env, bg, failed, phase, info, out>>

\* validateFetch, on the temporary file.
Check(t) ==
    /\ At(t, "check")
    /\ \/ Accepts(tmp[t]) /\ Goto(t, "rename")
       \/ (~Accepts(tmp[t]) \/ ValidatorFails) /\ Goto(t, "meta")
    /\ UNCHANGED <<store, lock, env, bg, failed, phase, info, tmp, out>>

\* The goroutine of an asynchronous commit.  When every loader is busy the
\* load is one of those that fail.
Spawn ==
    \/ \E l \in Loaders :
          /\ bg[l].step = "idle"
          /\ bg' = [bg EXCEPT ![l].step = "parse"]
          /\ failed' = failed \ {"remove", "load"}
    \/ /\ \A l \in Loaders : bg[l].step # "idle"
       /\ failed' = (failed \ {"remove"}) \cup {"load"}
       /\ UNCHANGED bg

\* os.Rename into place, and the commit: nothing to load, an index to load at
\* once, or one that is left to a goroutine.
Rename(t) ==
    /\ At(t, "rename")
    /\ \/ /\ disk' = [ver |-> tmp[t].ver, whole |-> tmp[t].whole, old |-> FALSE]
          /\ tmp' = [tmp EXCEPT ![t] = None]
          /\ deleted' = FALSE
          /\ Goto(t, IF IsIndex /\ ~Async THEN "parse" ELSE "missrow")
          /\ IF Async THEN Spawn
             ELSE failed' = failed \ {"remove", "load"} /\ UNCHANGED bg
       \/ Goto(t, "cleanup") /\ UNCHANGED <<disk, tmp, deleted, bg, failed>>
    /\ UNCHANGED <<mem, records, row, lock, kind, expected, admin, alone,
                   phase, info, out>>

\* commit, first part: LoadFile opens and parses the file the path names; it
\* fails when the file is gone or is not an index.
Parse(t) ==
    /\ At(t, "parse")
    /\ \/ disk # None /\ See(t, Content(disk)) /\ Goto(t, "load")
       \/ Goto(t, "remove") /\ UNCHANGED info
    /\ UNCHANGED <<store, lock, env, bg, failed, phase, tmp, out>>

\* ReplaceSource, one atomic batch.
ReplaceSource(ver) ==
    /\ records' = ver
    /\ failed' = failed \ {"metadata", "load"}

\* commit, second part.
Load(t) ==
    /\ At(t, "load")
    /\ ReplaceSource(info[t].ver)
    /\ See(t, None)
    /\ Goto(t, "missrow")
    /\ UNCHANGED <<disk, mem, row, lock, env, bg, phase, tmp, out>>

RecordMiss(t) ==
    /\ At(t, "missrow")
    /\ RecordObject
    /\ Goto(t, IF InMemory THEN "restat" ELSE "cleanup")
    /\ UNCHANGED <<disk, mem, records, lock, env, bg, failed, phase, info, tmp, out>>

\* The os.Stat before the new file goes to memory.
Restat(t) ==
    /\ At(t, "restat")
    /\ Goto(t, IF disk = None THEN "cleanup" ELSE "read")
    /\ UNCHANGED <<store, lock, env, bg, failed, phase, info, tmp, out>>

(* Mutant: the temporary file is only removed when it could be renamed.    *)
CleanupNothing(t) ==
    /\ At(t, "cleanup")
    /\ Goto(t, "unlock")
    /\ UNCHANGED <<store, lock, env, bg, failed, phase, info, tmp, out>>

\* The deferred call of fetchAndStore.  A temporary file that cannot be removed
\* stays, like that of a crash, under a name nothing reads.
Cleanup(t) ==
    /\ At(t, "cleanup")
    /\ tmp' = [tmp EXCEPT ![t] = None]
    /\ Goto(t, "unlock")
    /\ UNCHANGED <<store, lock, env, bg, failed, phase, info, out>>

(* Mutant: a request that could not store anything forgets the lock.       *)
UnlockUnlessFailed(t) ==
    /\ At(t, "unlock")
    /\ IF out[t].cache = "ERROR" THEN UNCHANGED lock ELSE Mutex!Release(t, Path)
    /\ Goto(t, "done")
    /\ UNCHANGED <<store, env, bg, failed, phase, info, tmp, out>>

\* The deferred unlock of serveCached.
Unlock(t) ==
    /\ At(t, "unlock")
    /\ Mutex!Release(t, Path)
    /\ Goto(t, "done")
    /\ UNCHANGED <<store, env, bg, failed, phase, info, tmp, out>>

\* The handler returns, and what is left of the answer, an error included, is
\* written to the client; the goroutine may serve the next request.
Return(t) ==
    /\ At(t, "done")
    /\ Goto(t, "idle")
    /\ phase' = [phase EXCEPT ![t] = "outside"]
    /\ Answer(t, "none", None)
    /\ UNCHANGED <<store, lock, env, bg, failed, info, tmp>>

\* The steps that wait for the client to read, or to leave.
ClientStep(t) == Reply(t) \/ Serve(t) \/ Stream(t) \/ Return(t)

\* All others.
OwnStep(t) ==
    \/ TryMemory(t) \/ Stat(t) \/ Validate(t) \/ Remove(t)
    \/ DeleteMetadata(t) \/ DeleteFromMemory(t) \/ Open(t) \/ RecordHit(t)
    \/ ReadFile(t) \/ MemSet(t) \/ LockRequest(t) \/ LockGrant(t)
    \/ FetchNothing(t) \/ Fetch(t) \/ Check(t) \/ Rename(t) \/ Parse(t)
    \/ Load(t) \/ RecordMiss(t) \/ Restat(t) \/ Cleanup(t) \/ Unlock(t)

Step(t) == ClientStep(t) \/ OwnStep(t)
-----------------------------------------------------------------------------
(* Background loads of an APT index.                                       *)

\* LoadFile reads the file the path names by now.  An error is logged and
\* that is all; the file stays without its records.
BackgroundParse(l) ==
    /\ bg[l].step = "parse"
    /\ \/ /\ disk # None
          /\ bg' = [bg EXCEPT ![l] = [step |-> "load", file |-> Content(disk)]]
          /\ UNCHANGED failed
       \/ /\ bg' = [bg EXCEPT ![l] = NoLoad]
          /\ failed' = failed \cup {"load"}
    /\ UNCHANGED <<store, lock, request, env>>

BackgroundLoad(l) ==
    /\ bg[l].step = "load"
    /\ ReplaceSource(bg[l].file.ver)
    /\ bg' = [bg EXCEPT ![l] = NoLoad]
    /\ UNCHANGED <<disk, mem, row, lock, request, env>>

BackgroundStep(l) == BackgroundParse(l) \/ BackgroundLoad(l)
-----------------------------------------------------------------------------
(* The administrator: deleteCacheObject, reconcile, clear memory.          *)

AdminGoto(label) ==
    /\ kind \in Administered
    /\ admin' = label
    /\ alone' = FALSE
    /\ UNCHANGED <<lock, request, kind, expected, bg>>

\* deleteCacheObject of the row's path; batch deletion repeats it per row.  It
\* returns the error of os.Remove without having done anything.
AdminRemove ==
    /\ admin = "idle" /\ row
    /\ disk' = None
    /\ failed' = failed \ {"remove", "load"}
    /\ AdminGoto("memdel")
    /\ UNCHANGED <<mem, records, row, deleted>>

AdminDeleteFromMemory ==
    /\ admin = "memdel"
    /\ mem' = None
    /\ AdminGoto("meta")
    /\ UNCHANGED <<disk, records, row, deleted, failed>>

AdminDeleteMetadata ==
    /\ admin = "meta"
    /\ DeleteSource
    /\ AdminGoto("row")
    /\ UNCHANGED <<disk, mem, row, deleted>>

\* The row goes last; from here on the administrator has been told it is done,
\* or that deleting the row has failed.
AdminDeleteRow ==
    /\ admin = "row"
    /\ \/ row' = FALSE /\ deleted' = (disk = None)
       \/ UNCHANGED <<row, deleted>>
    /\ AdminGoto("idle")
    /\ UNCHANGED <<disk, mem, records, failed>>

\* adminReconcileCache: the walk finds the file, then its row is upserted.
AdminWalk ==
    /\ admin = "idle" /\ disk # None
    /\ AdminGoto("upsert")
    /\ UNCHANGED <<store, deleted, failed>>

AdminUpsert ==
    /\ admin = "upsert"
    /\ RecordObject
    /\ AdminGoto("idle")
    /\ UNCHANGED <<disk, mem, records, deleted, failed>>

AdminClearMemory ==
    /\ admin = "idle" /\ mem # None
    /\ mem' = None
    /\ AdminGoto("idle")
    /\ UNCHANGED <<disk, records, row, deleted, failed>>

AdminStep ==
    \/ AdminRemove \/ AdminDeleteFromMemory \/ AdminDeleteMetadata
    \/ AdminDeleteRow \/ AdminWalk \/ AdminUpsert \/ AdminClearMemory
-----------------------------------------------------------------------------
(* The rest of the world.                                                  *)

\* The file becomes older than the TTL.
Age ==
    /\ disk # None /\ ~disk.old
    /\ disk' = [disk EXCEPT !.old = TRUE]
    /\ UNCHANGED <<mem, records, row, lock, request, env, bg, failed>>

\* The memory cache evicts or expires the item.
Evict ==
    /\ mem # None
    /\ mem' = None
    /\ UNCHANGED <<disk, records, row, lock, request, env, bg, failed>>

\* A request for another path loads an index that lists this path, or purges
\* the records of one.
ExpectedChanges ==
    /\ IndexesChange
    /\ expected' \in (Versions \cup {None}) \ {expected}
    /\ alone' = (alone /\ Idle)
    /\ UNCHANGED <<store, lock, request, kind, admin, deleted, bg, failed>>

(***************************************************************************)
(* The process dies and is started again.  The file was synced before it   *)
(* was renamed; hash store batches are committed with NoSync and may be    *)
(* lost; a hash store that is not empty is not rebuilt from the indexes.   *)
(* Temporary files stay under random names that no request ever reads.     *)
(***************************************************************************)
Crash ==
    /\ CrashPossible
    /\ mem' = None
    /\ records' \in {records, None}
    /\ want' = [t \in Requests |-> None]
    /\ holder' = [p \in {Path} |-> None]
    /\ pc' = [t \in Requests |-> "idle"]
    /\ phase' = [t \in Requests |-> "outside"]
    /\ info' = [t \in Requests |-> None]
    /\ tmp' = [t \in Requests |-> None]
    /\ out' = [t \in Requests |-> NoAnswer]
    /\ bg' = [l \in Loaders |-> NoLoad]
    /\ admin' = "idle"
    /\ alone' = FALSE
    /\ UNCHANGED <<kind, disk, row, expected, deleted, failed>>

Next ==
    \/ \E t \in Requests : Start(t) \/ Step(t)
    \/ \E l \in Loaders : BackgroundStep(l)
    \/ AdminStep
    \/ Age \/ Evict \/ ExpectedChanges
    \/ Crash

SafeSpec == Init /\ [][Next]_vars

(***************************************************************************)
(* A goroutine keeps running: its calls return, and the client of every    *)
(* fetch has a timeout that also ends the reading of the body.  The lock   *)
(* is as fair as KeyLocks.  Nothing obliges clients, the administrator,    *)
(* the clock or the upstream, and nobody waits for a background load.      *)
(***************************************************************************)
Fairness ==
    \A t \in Requests : WF_vars(OwnStep(t)) /\ SF_vars(LockGrant(t))

Spec == SafeSpec /\ Fairness
-----------------------------------------------------------------------------
\* Types of the stores, of the locals of a request and of its answer.
TypeOK ==
    /\ kind \in Kinds
    /\ disk \in File \cup {None}
    /\ mem \in Temp \cup {None}
    /\ records \in Versions \cup {None}
    /\ expected \in Versions \cup {None}
    /\ {row, deleted, alone} \subseteq BOOLEAN
    /\ want \in [Requests -> {Path, None}]
    /\ holder \in [{Path} -> Requests \cup {None}]
    /\ pc \in [Requests -> Labels]
    /\ phase \in [Requests -> {"outside", "inside", "storing"}]
    /\ info \in [Requests -> Temp \cup {None}]
    /\ tmp \in [Requests -> Temp \cup {None}]
    /\ out \in [Requests -> Response]
    /\ bg \in [Loaders -> [step : {"idle", "parse", "load"},
                           file : Temp \cup {None}]]
    /\ admin \in {"idle", "memdel", "meta", "row", "upsert"}
    /\ failed \subseteq Dropped

Intact(f) == f.whole /\ (Signed => f.ver \notin BadVersions)

\* However requests, the administrator and crashes interleave, the path never
\* names a file that is cut short or that failed its signature check.
DiskIntact == disk # None => Intact(disk)

\* What is answered from a cache, memory included, is such a file as well: the
\* gap between validating a path and opening or re-reading it never lets an
\* unvalidated body through.
HitsIntact ==
    /\ mem # None => Intact(mem)
    /\ \A t \in Requests :
          out[t].cache \in {"HIT", "MEMORY-HIT"} => Intact(out[t].body)

\* A download never overlaps another one of the same path, and is only made
\* while nothing is at the path, or a file that could not be removed: what
\* another request has stored in the mean time is never thrown away by the
\* rename.
NoNeedlessFetch ==
    \A t \in Requests :
        pc[t] \in {"fetch", "stream", "check", "rename"} =>
            /\ disk = None \/ "remove" \in failed
            /\ holder[Path] = t

\* When a handler has returned nothing of it is left behind: no temporary
\* file, and no hold on the lock.
NothingLeft ==
    \A t \in Requests :
        pc[t] = "idle" => tmp[t] = None /\ holder[Path] # t

\* Clients read their answers to the end, or go away.  The server sets no
\* timeout for writing, so one that does neither keeps its request, and the
\* lock of the path if it holds it, for good.
ClientsRead == \A t \in Requests : WF_vars(ClientStep(t))

\* As long as clients read or leave, every request comes to an end, whatever
\* fails, whoever else wants the path and however often it is taken.
EveryRequestReturns ==
    ClientsRead => \A t \in Requests : pc[t] # "idle" ~> pc[t] = "idle"

Quiescent == admin = "idle" /\ Idle

(***************************************************************************)
(* Without overlap the hash store holds, when requests and the background  *)
(* load are over, the records of exactly the index that is cached, through *)
(* failed downloads, validations, renames and loads; what differs is what  *)
(* a dropped error leaves.  Records of anything else are there because     *)
(* DeleteSource has failed, and a cached index is without its records      *)
(* because it could not be removed, because its background load has        *)
(* failed, or because other records could not be deleted.                  *)
(***************************************************************************)
RecordsFollowIndex ==
    IsIndex /\ Quiescent /\ alone =>
        /\ records # None /\ (disk = None \/ records # disk.ver) => "metadata" \in failed
        /\ disk # None /\ records = None => failed \cap {"remove", "load"} # {}

\* Between requests, and as long as no call has failed, an index that is cached
\* has its records in the hash store: docs/hash-store-design.md says expected
\* records go only when their source index is deleted or updated.
CachedIndexHasRecords ==
    IsIndex /\ Quiescent /\ failed = {} /\ disk # None => records = disk.ver

\* Once the administrator's deletion and the requests it overlapped are over,
\* the next request downloads the object (docs/admin-console-design.md): no
\* copy is left in memory that would answer it.
DeletedIsGone == Quiescent /\ deleted => mem = None
=============================================================================
