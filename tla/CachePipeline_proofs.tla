------------------------ MODULE CachePipeline_proofs ------------------------
(***************************************************************************)
(* Theorems about CachePipeline, for any number of requests, any versions  *)
(* and every kind of object: types, whole and verified files and answers,  *)
(* exclusive downloads, and nothing left behind by a request.              *)
(***************************************************************************)
EXTENDS CachePipeline, Integers, TLAPS

-----------------------------------------------------------------------------
(* The inductive invariant. *)

\* Where a request is tells whether it is inside the lock and storing.
PhaseFits ==
    \A t \in Requests :
        /\ pc[t] \in {"idle", "lock", "waiting"} => phase[t] = "outside"
        /\ pc[t] \in {"mem", "reply", "stat", "validate", "open", "serve", "hitrow"} =>
              phase[t] # "storing"
        /\ pc[t] = "fetch" => phase[t] = "inside"
        /\ pc[t] \in {"stream", "check", "rename", "parse", "load", "missrow",
                      "restat", "cleanup"} => phase[t] = "storing"
        /\ pc[t] = "unlock" => phase[t] # "outside"

\* The lock is held exactly from the grant to the deferred unlock.
LockHeld ==
    \A t \in Requests :
        holder[Path] = t <=> phase[t] # "outside" /\ pc[t] # "done"

\* A request that decides to download has seen to it that there is no file, or
\* could not remove it, and nobody else can put one there.
NothingThere ==
    \A t \in Requests :
        \/ pc[t] \in {"fetch", "stream", "check", "rename"}
        \/ pc[t] \in {"meta", "memdel"} /\ phase[t] = "inside"
        => disk = None \/ "remove" \in failed

\* The locals are there when they are used.
LocalsSet ==
    /\ \A t \in Requests :
          /\ pc[t] \in {"stream", "check", "rename"} => tmp[t] \in Temp
          /\ pc[t] = "load" => info[t] \in Temp
    /\ \A l \in Loaders : bg[l].step = "load" => bg[l].file \in Temp

\* The temporary file is removed before the unlock.
TempOwned ==
    \A t \in Requests :
        tmp[t] # None =>
            phase[t] = "storing" /\ pc[t] \notin {"unlock", "done", "idle"}

\* What may reach the path, the memory or an answer is intact.
CopiesIntact ==
    \A t \in Requests :
        /\ info[t] # None => Intact(info[t])
        /\ pc[t] = "check" => tmp[t].whole
        /\ pc[t] = "rename" => Intact(tmp[t])

IInv ==
    /\ TypeOK
    /\ PhaseFits
    /\ LockHeld
    /\ NothingThere
    /\ LocalsSet
    /\ TempOwned
    /\ DiskIntact
    /\ HitsIntact
    /\ CopiesIntact
-----------------------------------------------------------------------------
\* The records the actions build have their types.
LEMMA ContentType == ASSUME NEW f \in File PROVE Content(f) \in Temp
  BY DEF File, Temp, Content

LEMMA AnswerType ==
    ASSUME TypeOK, NEW t \in Requests, NEW body \in Temp \cup {None},
           NEW cache \in {"none", "MEMORY-HIT", "HIT", "MISS", "BYPASS", "ERROR"},
           Answer(t, cache, body)
    PROVE  out' \in [Requests -> Response]
  <1>1. [cache |-> cache, body |-> body] \in Response
    BY DEF Response
  <1> QED
    BY <1>1 DEF TypeOK, Answer

\* A copy of the content of an intact file is intact.
LEMMA ContentIntact == ASSUME NEW f, Intact(f) PROVE Intact(Content(f))
  BY DEF Intact, Content

\* What is added to the history of dropped errors.
LEMMA DroppedType == {"remove"} \subseteq Dropped /\ {"load"} \subseteq Dropped /\ {"metadata"} \subseteq Dropped
  BY DEF Dropped

\* Types are preserved.
LEMMA TypeStep == TypeOK /\ LocalsSet /\ [Next]_vars => TypeOK'
<1> SUFFICES ASSUME TypeOK, LocalsSet, [Next]_vars PROVE TypeOK'
  OBVIOUS
<1> USE PipelineAssumption, DroppedType DEF TypeOK, LocalsSet, Labels, At, Goto, store, lock, request, env
<1>1. CASE UNCHANGED vars
  BY <1>1 DEF vars, store, lock, request, env
<1>2. ASSUME NEW t \in Requests, Start(t) \/ Step(t) PROVE TypeOK'
  <2>1. CASE Start(t)
    BY <2>1 DEF Start
  <2>2. CASE TryMemory(t)
    <3>1. out' \in [Requests -> Response]
      <4>1. CASE mem # None /\ Answer(t, "MEMORY-HIT", mem)
        BY <4>1, AnswerType
      <4>2. CASE UNCHANGED out
        BY <4>2
      <4> QED
        BY <2>2, <4>1, <4>2 DEF TryMemory
    <3> QED
      BY <2>2, <3>1 DEF TryMemory, Answered
  <2>3. CASE Reply(t) \/ Stat(t) \/ Validate(t) \/ Serve(t)
    BY <2>3 DEF Reply, Answered, Stat, MissDisk, Validate, Serve
  <2>4. CASE Remove(t) \/ DeleteMetadata(t)
    BY <2>4 DEF Remove, DeleteMetadata, DeleteSource
  <2>5. CASE DeleteFromMemory(t)
    BY <2>5 DEF DeleteFromMemory, MissDisk
  <2>6. CASE Open(t)
    <3>1. out' \in [Requests -> Response]
      <4>1. CASE disk # None /\ Answer(t, "HIT", Content(disk))
        BY <4>1, AnswerType, ContentType
      <4>2. CASE UNCHANGED out
        BY <4>2
      <4> QED
        BY <2>6, <4>1, <4>2 DEF Open
    <3> QED
      BY <2>6, <3>1 DEF Open, MissDisk
  <2>7. CASE RecordHit(t)
    BY <2>7 DEF RecordHit, RecordObject, Answered
  <2>8. CASE ReadFile(t)
    <3>1. disk # None => Content(disk) \in Temp
      BY ContentType
    <3>2. info' \in [Requests -> Temp \cup {None}]
      BY <2>8, <3>1 DEF ReadFile, See
    <3> QED
      BY <2>8, <3>2 DEF ReadFile, Cached, Answered
  <2>9. CASE MemSet(t) \/ LockRequest(t)
    BY <2>9 DEF MemSet, Cached, Answered, See, LockRequest, Mutex!Request
  <2>10. CASE LockGrant(t)
    BY <2>10 DEF LockGrant, Mutex!Grant
  <2>11. CASE FetchNothing(t)
    <3>1. out' \in [Requests -> Response]
      <4>1. Answer(t, "ERROR", None) \/ Answer(t, "BYPASS", None)
        BY <2>11 DEF FetchNothing
      <4>2. CASE Answer(t, "ERROR", None)
        BY <4>2, AnswerType
      <4>3. CASE Answer(t, "BYPASS", None)
        BY <4>3, AnswerType
      <4> QED
        BY <4>1, <4>2, <4>3
    <3> QED
      BY <2>11, <3>1 DEF FetchNothing
  <2>12. CASE Fetch(t)
    <3>1. out' \in [Requests -> Response]
      BY <2>12, AnswerType DEF Fetch
    <3>2. \A v \in Versions : [ver |-> v, whole |-> FALSE] \in Temp
      BY DEF Temp
    <3>3. tmp' \in [Requests -> Temp \cup {None}]
      <4>1. CASE UNCHANGED tmp
        BY <4>1
      <4>2. ASSUME NEW v \in Versions,
                   tmp' = [tmp EXCEPT ![t] = [ver |-> v, whole |-> FALSE]]
            PROVE  tmp' \in [Requests -> Temp \cup {None}]
        BY <4>2, <3>2
      <4> QED
        BY <2>12, <4>1, <4>2 DEF Fetch
    <3> QED
      BY <2>12, <3>1, <3>3 DEF Fetch
  <2>13. CASE Stream(t)
    <3>1. tmp[t] \in Temp => [tmp[t] EXCEPT !.whole = TRUE] \in Temp
      BY DEF Temp
    <3>2. tmp' \in [Requests -> Temp \cup {None}]
      BY <2>13, <3>1 DEF Stream
    <3> QED
      BY <2>13, <3>2 DEF Stream
  <2>14. CASE Check(t)
    BY <2>14 DEF Check, Accepts
  <2>15. CASE Rename(t)
    <3>1. tmp[t] \in Temp =>
             [ver |-> tmp[t].ver, whole |-> tmp[t].whole, old |-> FALSE] \in File
      BY DEF Temp, File
    <3>2. bg' \in [Loaders -> [step : {"idle", "parse", "load"}, file : Temp \cup {None}]]
      BY <2>15 DEF Rename, Spawn
    <3>3. failed' \subseteq Dropped
      BY <2>15 DEF Rename, Spawn
    <3>4. disk' \in File \cup {None}
      BY <2>15, <3>1 DEF Rename
    <3> QED
      BY <2>15, <3>2, <3>3, <3>4 DEF Rename
  <2>16. CASE Parse(t)
    <3>1. disk # None => Content(disk) \in Temp
      BY ContentType
    <3>2. info' \in [Requests -> Temp \cup {None}]
      BY <2>16, <3>1 DEF Parse, See
    <3> QED
      BY <2>16, <3>2 DEF Parse
  <2>17. CASE Load(t) \/ RecordMiss(t)
    BY <2>17 DEF Load, ReplaceSource, See, Temp, RecordMiss, RecordObject
  <2>18. CASE Restat(t) \/ Cleanup(t)
    BY <2>18 DEF Restat, Cleanup
  <2>19. CASE Unlock(t)
    BY <2>19 DEF Unlock, Mutex!Release
  <2>20. CASE Return(t)
    <3>1. out' \in [Requests -> Response]
      BY <2>20, AnswerType DEF Return
    <3> QED
      BY <2>20, <3>1 DEF Return
  <2> QED
    BY <1>2, <2>1, <2>2, <2>3, <2>4, <2>5, <2>6, <2>7, <2>8, <2>9, <2>10,
       <2>11, <2>12, <2>13, <2>14, <2>15, <2>16, <2>17, <2>18, <2>19, <2>20
       DEF Step, ClientStep, OwnStep
<1>3. CASE AdminStep
  <2>1. CASE AdminRemove \/ AdminDeleteFromMemory
    BY <2>1 DEF AdminRemove, AdminGoto, AdminDeleteFromMemory
  <2>2. CASE AdminDeleteMetadata \/ AdminDeleteRow
    BY <2>2 DEF AdminDeleteMetadata, DeleteSource, AdminGoto, AdminDeleteRow
  <2>3. CASE AdminWalk \/ AdminUpsert
    BY <2>3 DEF AdminWalk, AdminGoto, AdminUpsert, RecordObject
  <2>4. CASE AdminClearMemory
    BY <2>4 DEF AdminClearMemory, AdminGoto
  <2> QED
    BY <1>3, <2>1, <2>2, <2>3, <2>4 DEF AdminStep
<1>4. CASE Age
  <2>1. \A f \in File : [f EXCEPT !.old = TRUE] \in File
    BY DEF File
  <2> QED
    BY <1>4, <2>1 DEF Age
<1>5. CASE Evict
  BY <1>5 DEF Evict
<1>6. CASE ExpectedChanges
  BY <1>6 DEF ExpectedChanges
<1>7. CASE Crash
  <2>1. /\ NoAnswer \in Response
        /\ NoLoad \in [step : {"idle", "parse", "load"}, file : Temp \cup {None}]
    BY DEF NoAnswer, Response, NoLoad
  <2> QED
    BY <1>7, <2>1 DEF Crash
<1>8. ASSUME NEW l \in Loaders, BackgroundStep(l) PROVE TypeOK'
  <2>1. CASE BackgroundParse(l)
    <3>1. /\ NoLoad \in [step : {"idle", "parse", "load"}, file : Temp \cup {None}]
          /\ disk # None => [step |-> "load", file |-> Content(disk)] \in
                               [step : {"idle", "parse", "load"}, file : Temp \cup {None}]
      BY ContentType DEF NoLoad
    <3> QED
      BY <2>1, <3>1 DEF BackgroundParse
  <2>2. CASE BackgroundLoad(l)
    BY <2>2 DEF BackgroundLoad, ReplaceSource, NoLoad, Temp
  <2> QED
    BY <1>8, <2>1, <2>2 DEF BackgroundStep
<1> QED
  BY <1>1, <1>2, <1>3, <1>4, <1>5, <1>6, <1>7, <1>8 DEF Next

\* The phase stays that of the place.
LEMMA PhaseStep == TypeOK /\ PhaseFits /\ [Next]_vars => PhaseFits'
<1> SUFFICES ASSUME TypeOK, PhaseFits, [Next]_vars PROVE PhaseFits'
  OBVIOUS
<1>0. /\ pc \in [Requests -> Labels]
      /\ phase \in [Requests -> {"outside", "inside", "storing"}]
  BY PipelineAssumption DEF TypeOK
<1> USE <1>0 DEF PhaseFits, At, Goto, store, lock, request, env
<1>1. CASE UNCHANGED vars
  BY <1>1 DEF vars, store, lock, request, env
<1>2. ASSUME NEW t \in Requests, Start(t) \/ Step(t) PROVE PhaseFits'
  <2>1. CASE Start(t) \/ TryMemory(t) \/ Reply(t) \/ Stat(t) \/ Validate(t) \/ Serve(t)
    BY <2>1 DEF Start, TryMemory, Reply, Serve, Answered, Answer, Stat, MissDisk, Validate
  <2>2. CASE Remove(t) \/ DeleteMetadata(t) \/ DeleteFromMemory(t) \/ Open(t)
    BY <2>2 DEF Remove, DeleteMetadata, DeleteFromMemory, MissDisk, Open
  <2>3. CASE RecordHit(t) \/ ReadFile(t) \/ MemSet(t) \/ LockRequest(t)
    BY <2>3 DEF RecordHit, Answered, ReadFile, Cached, MemSet, See,
       LockRequest, Mutex!Request
  <2>4. CASE LockGrant(t) \/ FetchNothing(t) \/ Fetch(t) \/ Stream(t)
    BY <2>4 DEF LockGrant, Mutex!Grant, FetchNothing, Answer, Fetch, Stream
  <2>5. CASE Check(t) \/ Rename(t) \/ Parse(t) \/ Load(t)
    BY <2>5 DEF Check, Accepts, Rename, Parse, See, Content, Load
  <2>6. CASE RecordMiss(t) \/ Restat(t) \/ Cleanup(t) \/ Unlock(t)
    BY <2>6 DEF RecordMiss, Restat, Cleanup, Unlock, Mutex!Release
  <2>7. CASE Return(t)
    BY <2>7 DEF Return, Answer
  <2> QED
    BY <1>2, <2>1, <2>2, <2>3, <2>4, <2>5, <2>6, <2>7 DEF Step, ClientStep, OwnStep
<1>3. CASE AdminStep
  <2>1. CASE AdminRemove \/ AdminDeleteFromMemory \/ AdminDeleteMetadata
            \/ AdminDeleteRow
    BY <2>1 DEF AdminRemove, AdminGoto, AdminDeleteFromMemory,
       AdminDeleteMetadata, AdminDeleteRow
  <2>2. CASE AdminWalk \/ AdminUpsert \/ AdminClearMemory
    BY <2>2 DEF AdminWalk, AdminGoto, AdminUpsert, AdminClearMemory
  <2> QED
    BY <1>3, <2>1, <2>2 DEF AdminStep
<1>4. CASE Age
  BY <1>4 DEF Age
<1>5. CASE Evict
  BY <1>5 DEF Evict
<1>6. CASE ExpectedChanges
  BY <1>6 DEF ExpectedChanges
<1>7. CASE Crash
  BY <1>7 DEF Crash, NoAnswer
<1>8. ASSUME NEW l \in Loaders, BackgroundStep(l) PROVE PhaseFits'
  BY <1>8 DEF BackgroundStep, BackgroundParse, BackgroundLoad
<1> QED
  BY <1>1, <1>2, <1>3, <1>4, <1>5, <1>6, <1>7, <1>8 DEF Next

\* The lock is held from the grant to the unlock.
LEMMA LockStep == TypeOK /\ PhaseFits /\ LockHeld /\ [Next]_vars => LockHeld'
<1> SUFFICES ASSUME TypeOK, PhaseFits, LockHeld, [Next]_vars PROVE LockHeld'
  OBVIOUS
<1>0. /\ pc \in [Requests -> Labels]
      /\ phase \in [Requests -> {"outside", "inside", "storing"}]
      /\ holder \in [{Path} -> Requests \cup {None}]
      /\ None \notin Requests
  BY PipelineAssumption DEF TypeOK
<1> USE <1>0 DEF PhaseFits, LockHeld, At, Goto, store, lock, request, env
<1>1. CASE UNCHANGED vars
  BY <1>1 DEF vars, store, lock, request, env
<1>2. ASSUME NEW t \in Requests, Start(t) \/ Step(t) PROVE LockHeld'
  <2>1. CASE Start(t) \/ TryMemory(t) \/ Reply(t) \/ Stat(t) \/ Validate(t) \/ Serve(t)
    BY <2>1 DEF Start, TryMemory, Reply, Serve, Answered, Answer, Stat, MissDisk, Validate
  <2>2. CASE Remove(t) \/ DeleteMetadata(t) \/ DeleteFromMemory(t) \/ Open(t)
    BY <2>2 DEF Remove, DeleteMetadata, DeleteFromMemory, MissDisk, Open
  <2>3. CASE RecordHit(t) \/ ReadFile(t) \/ MemSet(t) \/ LockRequest(t)
    BY <2>3 DEF RecordHit, Answered, ReadFile, Cached, MemSet, See,
       LockRequest, Mutex!Request
  <2>4. CASE LockGrant(t) \/ FetchNothing(t) \/ Fetch(t) \/ Stream(t)
    BY <2>4 DEF LockGrant, Mutex!Grant, FetchNothing, Answer, Fetch, Stream
  <2>5. CASE Check(t) \/ Rename(t) \/ Parse(t) \/ Load(t)
    BY <2>5 DEF Check, Accepts, Rename, Parse, See, Content, Load
  <2>6. CASE RecordMiss(t) \/ Restat(t) \/ Cleanup(t) \/ Unlock(t)
    BY <2>6 DEF RecordMiss, Restat, Cleanup, Unlock, Mutex!Release
  <2>7. CASE Return(t)
    BY <2>7 DEF Return, Answer
  <2> QED
    BY <1>2, <2>1, <2>2, <2>3, <2>4, <2>5, <2>6, <2>7 DEF Step, ClientStep, OwnStep
<1>3. CASE AdminStep
  <2>1. CASE AdminRemove \/ AdminDeleteFromMemory \/ AdminDeleteMetadata
            \/ AdminDeleteRow
    BY <2>1 DEF AdminRemove, AdminGoto, AdminDeleteFromMemory,
       AdminDeleteMetadata, AdminDeleteRow
  <2>2. CASE AdminWalk \/ AdminUpsert \/ AdminClearMemory
    BY <2>2 DEF AdminWalk, AdminGoto, AdminUpsert, AdminClearMemory
  <2> QED
    BY <1>3, <2>1, <2>2 DEF AdminStep
<1>4. CASE Age
  BY <1>4 DEF Age
<1>5. CASE Evict
  BY <1>5 DEF Evict
<1>6. CASE ExpectedChanges
  BY <1>6 DEF ExpectedChanges
<1>7. CASE Crash
  BY <1>7 DEF Crash, NoAnswer
<1>8. ASSUME NEW l \in Loaders, BackgroundStep(l) PROVE LockHeld'
  BY <1>8 DEF BackgroundStep, BackgroundParse, BackgroundLoad
<1> QED
  BY <1>1, <1>2, <1>3, <1>4, <1>5, <1>6, <1>7, <1>8 DEF Next

\* Only the holder of the lock puts a file at the path.
LEMMA NothingThereStep == TypeOK /\ PhaseFits /\ LockHeld /\ NothingThere /\ [Next]_vars => NothingThere'
<1> SUFFICES ASSUME TypeOK, PhaseFits, LockHeld, NothingThere, [Next]_vars PROVE NothingThere'
  OBVIOUS
<1>0. /\ pc \in [Requests -> Labels]
      /\ phase \in [Requests -> {"outside", "inside", "storing"}]
      /\ holder \in [{Path} -> Requests \cup {None}]
      /\ None \notin Requests
  BY PipelineAssumption DEF TypeOK
<1> USE <1>0 DEF PhaseFits, LockHeld, NothingThere, At, Goto, store, lock, request, env
<1>1. CASE UNCHANGED vars
  BY <1>1 DEF vars, store, lock, request, env
<1>2. ASSUME NEW t \in Requests, Start(t) \/ Step(t) PROVE NothingThere'
  <2>1. CASE Start(t) \/ TryMemory(t) \/ Reply(t) \/ Stat(t) \/ Validate(t) \/ Serve(t)
    BY <2>1 DEF Start, TryMemory, Reply, Serve, Answered, Answer, Stat, MissDisk, Validate
  <2>2. CASE Remove(t) \/ DeleteMetadata(t) \/ DeleteFromMemory(t) \/ Open(t)
    BY <2>2 DEF Remove, DeleteMetadata, DeleteSource, DeleteFromMemory, MissDisk, Open
  <2>3. CASE RecordHit(t) \/ ReadFile(t) \/ MemSet(t) \/ LockRequest(t)
    BY <2>3 DEF RecordHit, Answered, ReadFile, Cached, MemSet, See,
       LockRequest, Mutex!Request
  <2>4. CASE LockGrant(t) \/ FetchNothing(t) \/ Fetch(t) \/ Stream(t)
    BY <2>4 DEF LockGrant, Mutex!Grant, FetchNothing, Answer, Fetch, Stream
  <2>5. CASE Check(t) \/ Rename(t) \/ Parse(t) \/ Load(t)
    BY <2>5 DEF Check, Accepts, Rename, Parse, See, Content, Load, ReplaceSource
  <2>6. CASE RecordMiss(t) \/ Restat(t) \/ Cleanup(t) \/ Unlock(t)
    BY <2>6 DEF RecordMiss, Restat, Cleanup, Unlock, Mutex!Release
  <2>7. CASE Return(t)
    BY <2>7 DEF Return, Answer
  <2> QED
    BY <1>2, <2>1, <2>2, <2>3, <2>4, <2>5, <2>6, <2>7 DEF Step, ClientStep, OwnStep
<1>3. CASE AdminStep
  <2>1. CASE AdminRemove \/ AdminDeleteFromMemory \/ AdminDeleteMetadata
            \/ AdminDeleteRow
    BY <2>1 DEF AdminRemove, AdminGoto, AdminDeleteFromMemory,
       AdminDeleteMetadata, DeleteSource, AdminDeleteRow
  <2>2. CASE AdminWalk \/ AdminUpsert \/ AdminClearMemory
    BY <2>2 DEF AdminWalk, AdminGoto, AdminUpsert, AdminClearMemory
  <2> QED
    BY <1>3, <2>1, <2>2 DEF AdminStep
<1>4. CASE Age
  BY <1>4 DEF Age
<1>5. CASE Evict
  BY <1>5 DEF Evict
<1>6. CASE ExpectedChanges
  BY <1>6 DEF ExpectedChanges
<1>7. CASE Crash
  BY <1>7 DEF Crash, NoAnswer
<1>8. ASSUME NEW l \in Loaders, BackgroundStep(l) PROVE NothingThere'
  BY <1>8 DEF BackgroundStep, BackgroundParse, BackgroundLoad, ReplaceSource
<1> QED
  BY <1>1, <1>2, <1>3, <1>4, <1>5, <1>6, <1>7, <1>8 DEF Next

\* Locals are set before they are used.
LEMMA LocalsStep == TypeOK /\ LocalsSet /\ [Next]_vars => LocalsSet'
<1> SUFFICES ASSUME TypeOK, LocalsSet, [Next]_vars PROVE LocalsSet'
  OBVIOUS
<1>0. /\ pc \in [Requests -> Labels]
      /\ phase \in [Requests -> {"outside", "inside", "storing"}]
      /\ info \in [Requests -> Temp \cup {None}]
      /\ tmp \in [Requests -> Temp \cup {None}]
      /\ disk \in File \cup {None}
      /\ bg \in [Loaders -> [step : {"idle", "parse", "load"}, file : Temp \cup {None}]]
  BY PipelineAssumption DEF TypeOK
<1> USE <1>0 DEF LocalsSet, At, Goto, store, lock, request, env
<1>1. CASE UNCHANGED vars
  BY <1>1 DEF vars, store, lock, request, env
<1>2. ASSUME NEW t \in Requests, Start(t) \/ Step(t) PROVE LocalsSet'
  <2>1. CASE Start(t) \/ TryMemory(t) \/ Reply(t) \/ Stat(t) \/ Validate(t) \/ Serve(t)
    BY <2>1 DEF Start, TryMemory, Reply, Serve, Answered, Answer, Stat, MissDisk, Validate
  <2>2. CASE Remove(t) \/ DeleteMetadata(t) \/ DeleteFromMemory(t) \/ Open(t)
    BY <2>2 DEF Remove, DeleteMetadata, DeleteFromMemory, MissDisk, Open,
       Answer, Content
  <2>3. CASE RecordHit(t) \/ ReadFile(t) \/ MemSet(t) \/ LockRequest(t)
    BY <2>3 DEF RecordHit, Answered, ReadFile, Cached, See, Content, MemSet,
       LockRequest, Mutex!Request
  <2>4. CASE LockGrant(t) \/ FetchNothing(t)
    BY <2>4 DEF LockGrant, Mutex!Grant, FetchNothing, Answer
  <2>5. CASE Fetch(t)
    <3>1. \A v \in Versions : [ver |-> v, whole |-> FALSE] \in Temp
      BY DEF Temp
    <3>2. pc'[t] = "stream" => tmp'[t] \in Temp
      BY <2>5, <3>1 DEF Fetch
    <3> QED
      BY <2>5, <3>2 DEF Fetch
  <2>6. CASE Stream(t)
    <3>1. [tmp[t] EXCEPT !.whole = TRUE] \in Temp
      BY <2>6 DEF Stream, Temp
    <3>2. tmp'[t] \in Temp
      BY <2>6, <3>1 DEF Stream
    <3> QED
      BY <2>6, <3>2 DEF Stream
  <2>7. CASE Check(t) \/ Rename(t)
    BY <2>7 DEF Check, Accepts, Rename, Spawn
  <2>8. CASE Parse(t)
    <3>1. disk # None => Content(disk) \in Temp
      BY ContentType
    <3>2. pc'[t] = "load" => info'[t] \in Temp
      BY <2>8, <3>1 DEF Parse, See
    <3> QED
      BY <2>8, <3>2 DEF Parse, See
  <2>9. CASE Load(t) \/ RecordMiss(t) \/ Restat(t) \/ Cleanup(t)
    BY <2>9 DEF Load, See, RecordMiss, Restat, Cleanup
  <2>10. CASE Unlock(t) \/ Return(t)
    BY <2>10 DEF Unlock, Mutex!Release, Return, Answer
  <2> QED
    BY <1>2, <2>1, <2>2, <2>3, <2>4, <2>5, <2>6, <2>7, <2>8, <2>9, <2>10 DEF Step, ClientStep, OwnStep
<1>3. CASE AdminStep
  <2>1. CASE AdminRemove \/ AdminDeleteFromMemory \/ AdminDeleteMetadata
            \/ AdminDeleteRow
    BY <2>1 DEF AdminRemove, AdminGoto, AdminDeleteFromMemory,
       AdminDeleteMetadata, AdminDeleteRow
  <2>2. CASE AdminWalk \/ AdminUpsert \/ AdminClearMemory
    BY <2>2 DEF AdminWalk, AdminGoto, AdminUpsert, AdminClearMemory
  <2> QED
    BY <1>3, <2>1, <2>2 DEF AdminStep
<1>4. CASE Age
  BY <1>4 DEF Age
<1>5. CASE Evict
  BY <1>5 DEF Evict
<1>6. CASE ExpectedChanges
  BY <1>6 DEF ExpectedChanges
<1>7. CASE Crash
  BY <1>7 DEF Crash, NoAnswer, NoLoad
<1>8. ASSUME NEW l \in Loaders, BackgroundStep(l) PROVE LocalsSet'
  <2>1. disk # None => Content(disk) \in Temp
    BY ContentType
  <2> QED
    BY <1>8, <2>1 DEF BackgroundStep, BackgroundParse, BackgroundLoad, NoLoad
<1> QED
  BY <1>1, <1>2, <1>3, <1>4, <1>5, <1>6, <1>7, <1>8 DEF Next

\* The temporary file is removed before the unlock.
LEMMA TempStep == TypeOK /\ PhaseFits /\ TempOwned /\ [Next]_vars => TempOwned'
<1> SUFFICES ASSUME TypeOK, PhaseFits, TempOwned, [Next]_vars PROVE TempOwned'
  OBVIOUS
<1>0. /\ pc \in [Requests -> Labels]
      /\ phase \in [Requests -> {"outside", "inside", "storing"}]
      /\ info \in [Requests -> Temp \cup {None}]
      /\ tmp \in [Requests -> Temp \cup {None}]
  BY PipelineAssumption DEF TypeOK
<1> USE <1>0 DEF PhaseFits, TempOwned, At, Goto, store, lock, request, env
<1>1. CASE UNCHANGED vars
  BY <1>1 DEF vars, store, lock, request, env
<1>2. ASSUME NEW t \in Requests, Start(t) \/ Step(t) PROVE TempOwned'
  <2>1. CASE Start(t) \/ TryMemory(t) \/ Reply(t) \/ Stat(t) \/ Validate(t) \/ Serve(t)
    BY <2>1 DEF Start, TryMemory, Reply, Serve, Answered, Answer, Stat, MissDisk, Validate
  <2>2. CASE Remove(t) \/ DeleteMetadata(t) \/ DeleteFromMemory(t) \/ Open(t)
    BY <2>2 DEF Remove, DeleteMetadata, DeleteFromMemory, MissDisk, Open
  <2>3. CASE RecordHit(t) \/ ReadFile(t) \/ MemSet(t) \/ LockRequest(t)
    BY <2>3 DEF RecordHit, Answered, ReadFile, Cached, MemSet, See,
       LockRequest, Mutex!Request
  <2>4. CASE LockGrant(t) \/ FetchNothing(t) \/ Fetch(t) \/ Stream(t)
    BY <2>4 DEF LockGrant, Mutex!Grant, FetchNothing, Answer, Fetch, Stream
  <2>5. CASE Check(t) \/ Rename(t) \/ Parse(t) \/ Load(t)
    BY <2>5 DEF Check, Accepts, Rename, Parse, See, Content, Load
  <2>6. CASE RecordMiss(t) \/ Restat(t) \/ Cleanup(t) \/ Unlock(t)
    BY <2>6 DEF RecordMiss, Restat, Cleanup, Unlock, Mutex!Release
  <2>7. CASE Return(t)
    BY <2>7 DEF Return, Answer
  <2> QED
    BY <1>2, <2>1, <2>2, <2>3, <2>4, <2>5, <2>6, <2>7 DEF Step, ClientStep, OwnStep
<1>3. CASE AdminStep
  <2>1. CASE AdminRemove \/ AdminDeleteFromMemory \/ AdminDeleteMetadata
            \/ AdminDeleteRow
    BY <2>1 DEF AdminRemove, AdminGoto, AdminDeleteFromMemory,
       AdminDeleteMetadata, AdminDeleteRow
  <2>2. CASE AdminWalk \/ AdminUpsert \/ AdminClearMemory
    BY <2>2 DEF AdminWalk, AdminGoto, AdminUpsert, AdminClearMemory
  <2> QED
    BY <1>3, <2>1, <2>2 DEF AdminStep
<1>4. CASE Age
  BY <1>4 DEF Age
<1>5. CASE Evict
  BY <1>5 DEF Evict
<1>6. CASE ExpectedChanges
  BY <1>6 DEF ExpectedChanges
<1>7. CASE Crash
  BY <1>7 DEF Crash, NoAnswer
<1>8. ASSUME NEW l \in Loaders, BackgroundStep(l) PROVE TempOwned'
  BY <1>8 DEF BackgroundStep, BackgroundParse, BackgroundLoad
<1> QED
  BY <1>1, <1>2, <1>3, <1>4, <1>5, <1>6, <1>7, <1>8 DEF Next

\* What is renamed into place has been checked.
LEMMA DiskStep == TypeOK /\ DiskIntact /\ CopiesIntact /\ [Next]_vars => DiskIntact'
<1> SUFFICES ASSUME TypeOK, DiskIntact, CopiesIntact, [Next]_vars PROVE DiskIntact'
  OBVIOUS
<1>0. /\ pc \in [Requests -> Labels]
      /\ phase \in [Requests -> {"outside", "inside", "storing"}]
      /\ info \in [Requests -> Temp \cup {None}]
      /\ tmp \in [Requests -> Temp \cup {None}]
      /\ disk \in File \cup {None}
  BY PipelineAssumption DEF TypeOK
<1> USE <1>0 DEF DiskIntact, CopiesIntact, Intact, Signed, At, Goto, store, lock, request, env
<1>1. CASE UNCHANGED vars
  BY <1>1 DEF vars, store, lock, request, env
<1>2. ASSUME NEW t \in Requests, Start(t) \/ Step(t) PROVE DiskIntact'
  <2>1. CASE Start(t) \/ TryMemory(t) \/ Reply(t) \/ Stat(t) \/ Validate(t) \/ Serve(t)
    BY <2>1 DEF Start, TryMemory, Reply, Serve, Answered, Answer, Stat, MissDisk, Validate
  <2>2. CASE Remove(t) \/ DeleteMetadata(t) \/ DeleteFromMemory(t) \/ Open(t)
    BY <2>2 DEF Remove, DeleteMetadata, DeleteFromMemory, MissDisk, Open,
       Answer, Content
  <2>3. CASE RecordHit(t) \/ ReadFile(t) \/ MemSet(t) \/ LockRequest(t)
    BY <2>3 DEF RecordHit, Answered, ReadFile, Cached, See, Content, MemSet,
       LockRequest, Mutex!Request
  <2>4. CASE LockGrant(t) \/ FetchNothing(t) \/ Fetch(t) \/ Stream(t)
    BY <2>4 DEF LockGrant, Mutex!Grant, FetchNothing, Answer, Fetch, Stream
  <2>5. CASE Check(t)
    BY <2>5 DEF Check, Accepts
  <2>6. CASE Rename(t)
    <3>1. Intact(tmp[t]) =>
             Intact([ver |-> tmp[t].ver, whole |-> tmp[t].whole, old |-> FALSE])
      BY DEF Intact
    <3> QED
      BY <2>6, <3>1 DEF Rename
  <2>7. CASE Parse(t) \/ Load(t) \/ RecordMiss(t) \/ Restat(t)
    BY <2>7 DEF Parse, See, Content, Load, RecordMiss, Restat
  <2>8. CASE Cleanup(t) \/ Unlock(t) \/ Return(t)
    BY <2>8 DEF Cleanup, Unlock, Mutex!Release, Return, Answer
  <2> QED
    BY <1>2, <2>1, <2>2, <2>3, <2>4, <2>5, <2>6, <2>7, <2>8 DEF Step, ClientStep, OwnStep
<1>3. CASE AdminStep
  <2>1. CASE AdminRemove \/ AdminDeleteFromMemory \/ AdminDeleteMetadata
            \/ AdminDeleteRow
    BY <2>1 DEF AdminRemove, AdminGoto, AdminDeleteFromMemory,
       AdminDeleteMetadata, AdminDeleteRow
  <2>2. CASE AdminWalk \/ AdminUpsert \/ AdminClearMemory
    BY <2>2 DEF AdminWalk, AdminGoto, AdminUpsert, AdminClearMemory
  <2> QED
    BY <1>3, <2>1, <2>2 DEF AdminStep
<1>4. CASE Age
  <2>1. disk # None /\ Intact(disk) => Intact([disk EXCEPT !.old = TRUE])
    BY DEF File, Intact
  <2> QED
    BY <1>4, <2>1 DEF Age
<1>5. CASE Evict
  BY <1>5 DEF Evict
<1>6. CASE ExpectedChanges
  BY <1>6 DEF ExpectedChanges
<1>7. CASE Crash
  BY <1>7 DEF Crash, NoAnswer
<1>8. ASSUME NEW l \in Loaders, BackgroundStep(l) PROVE DiskIntact'
  BY <1>8 DEF BackgroundStep, BackgroundParse, BackgroundLoad
<1> QED
  BY <1>1, <1>2, <1>3, <1>4, <1>5, <1>6, <1>7, <1>8 DEF Next

\* What a request has in hand is intact.
LEMMA CopiesStep == TypeOK /\ LocalsSet /\ DiskIntact /\ CopiesIntact /\ [Next]_vars => CopiesIntact'
<1> SUFFICES ASSUME TypeOK, LocalsSet, DiskIntact, CopiesIntact, [Next]_vars PROVE CopiesIntact'
  OBVIOUS
<1>0. /\ pc \in [Requests -> Labels]
      /\ phase \in [Requests -> {"outside", "inside", "storing"}]
      /\ info \in [Requests -> Temp \cup {None}]
      /\ tmp \in [Requests -> Temp \cup {None}]
      /\ disk \in File \cup {None}
  BY PipelineAssumption DEF TypeOK
<1> USE <1>0 DEF LocalsSet, DiskIntact, CopiesIntact, Intact, Signed, At, Goto, store, lock, request, env
<1>1. CASE UNCHANGED vars
  BY <1>1 DEF vars, store, lock, request, env
<1>2. ASSUME NEW t \in Requests, Start(t) \/ Step(t) PROVE CopiesIntact'
  <2>1. CASE Start(t) \/ TryMemory(t) \/ Reply(t) \/ Stat(t) \/ Validate(t) \/ Serve(t)
    BY <2>1 DEF Start, TryMemory, Reply, Serve, Answered, Answer, Stat, MissDisk, Validate
  <2>2. CASE Remove(t) \/ DeleteMetadata(t) \/ DeleteFromMemory(t) \/ Open(t)
    BY <2>2 DEF Remove, DeleteMetadata, DeleteFromMemory, MissDisk, Open
  <2>3. CASE RecordHit(t)
    BY <2>3 DEF RecordHit, Answered
  <2>4. CASE ReadFile(t)
    <3>1. disk # None => Intact(Content(disk))
      BY ContentIntact DEF DiskIntact
    <3>2. /\ kind' = kind /\ tmp' = tmp
          /\ info' = info \/ (disk # None /\ info' = [info EXCEPT ![t] = Content(disk)])
          /\ \A u \in Requests : pc'[u] \in {"check", "rename"} => pc[u] = pc'[u]
      BY <2>4 DEF ReadFile, Cached, Answered, See
    <3> QED
      BY <3>1, <3>2
  <2>5. CASE MemSet(t) \/ LockRequest(t) \/ LockGrant(t) \/ FetchNothing(t)
    BY <2>5 DEF MemSet, Cached, Answered, See, LockRequest, Mutex!Request,
       LockGrant, Mutex!Grant, FetchNothing, Answer
  <2>6. CASE Fetch(t)
    BY <2>6 DEF Fetch, Answer
  <2>7. CASE Stream(t)
    <3>1. [tmp[t] EXCEPT !.whole = TRUE].whole
      BY <2>7 DEF Stream, Temp
    <3>2. pc'[t] = "check" => tmp'[t].whole
      BY <2>7, <3>1 DEF Stream
    <3> QED
      BY <2>7, <3>2 DEF Stream
  <2>8. CASE Check(t)
    <3>1. Accepts(tmp[t]) /\ tmp[t].whole => Intact(tmp[t])
      BY DEF Accepts, Intact
    <3> QED
      BY <2>8, <3>1 DEF Check
  <2>9. CASE Rename(t)
    BY <2>9 DEF Rename
  <2>10. CASE Parse(t)
    <3>1. disk # None => Intact(Content(disk))
      BY ContentIntact DEF DiskIntact
    <3> QED
      BY <2>10, <3>1 DEF Parse, See
  <2>11. CASE Load(t) \/ RecordMiss(t) \/ Restat(t) \/ Cleanup(t)
    BY <2>11 DEF Load, See, RecordMiss, Restat, Cleanup
  <2>12. CASE Unlock(t) \/ Return(t)
    BY <2>12 DEF Unlock, Mutex!Release, Return, Answer
  <2> QED
    BY <1>2, <2>1, <2>2, <2>3, <2>4, <2>5, <2>6, <2>7, <2>8, <2>9, <2>10,
       <2>11, <2>12 DEF Step, ClientStep, OwnStep
<1>3. CASE AdminStep
  <2>1. CASE AdminRemove \/ AdminDeleteFromMemory \/ AdminDeleteMetadata
            \/ AdminDeleteRow
    BY <2>1 DEF AdminRemove, AdminGoto, AdminDeleteFromMemory,
       AdminDeleteMetadata, AdminDeleteRow
  <2>2. CASE AdminWalk \/ AdminUpsert \/ AdminClearMemory
    BY <2>2 DEF AdminWalk, AdminGoto, AdminUpsert, AdminClearMemory
  <2> QED
    BY <1>3, <2>1, <2>2 DEF AdminStep
<1>4. CASE Age
  BY <1>4 DEF Age
<1>5. CASE Evict
  BY <1>5 DEF Evict
<1>6. CASE ExpectedChanges
  BY <1>6 DEF ExpectedChanges
<1>7. CASE Crash
  BY <1>7 DEF Crash, NoAnswer
<1>8. ASSUME NEW l \in Loaders, BackgroundStep(l) PROVE CopiesIntact'
  BY <1>8 DEF BackgroundStep, BackgroundParse, BackgroundLoad
<1> QED
  BY <1>1, <1>2, <1>3, <1>4, <1>5, <1>6, <1>7, <1>8 DEF Next

\* An answer that is intact when it comes from a cache.
LEMMA AnswerIntact ==
    ASSUME TypeOK, HitsIntact, kind' = kind, mem' = mem, NEW t \in Requests,
           NEW cache, NEW body, cache \in {"HIT", "MEMORY-HIT"} => Intact(body),
           Answer(t, cache, body)
    PROVE  HitsIntact'
<1>1. \A f : Intact(f) => (f.whole /\ (Signed' => f.ver \notin BadVersions))
  BY DEF Intact, Signed
<1>2. mem' # None => Intact(mem)'
  BY <1>1 DEF HitsIntact, Intact
<1>3. ASSUME NEW u \in Requests, out'[u].cache \in {"HIT", "MEMORY-HIT"}
      PROVE  Intact(out[u].body)'
  <2>1. CASE u = t
    <3>1. out'[u] = [cache |-> cache, body |-> body]
      BY <2>1 DEF Answer, TypeOK
    <3>2. out'[u].cache = cache /\ out'[u].body = body
      BY <3>1
    <3>3. Intact(body)
      BY <1>3, <3>2
    <3> QED
      BY <1>1, <3>2, <3>3 DEF Intact
  <2>2. CASE u # t
    <3>1. out'[u] = out[u]
      BY <2>2 DEF Answer, TypeOK
    <3>2. Intact(out[u].body)
      BY <1>3, <3>1 DEF HitsIntact
    <3> QED
      BY <1>1, <3>1, <3>2 DEF Intact
  <2> QED
    BY <2>1, <2>2
<1> QED
  BY <1>2, <1>3 DEF HitsIntact

\* What is answered from a cache or kept in memory is intact.
LEMMA HitsStep == TypeOK /\ DiskIntact /\ HitsIntact /\ CopiesIntact /\ [Next]_vars => HitsIntact'
<1> SUFFICES ASSUME TypeOK, DiskIntact, HitsIntact, CopiesIntact, [Next]_vars PROVE HitsIntact'
  OBVIOUS
<1>0. /\ pc \in [Requests -> Labels]
      /\ phase \in [Requests -> {"outside", "inside", "storing"}]
      /\ info \in [Requests -> Temp \cup {None}]
      /\ tmp \in [Requests -> Temp \cup {None}]
      /\ disk \in File \cup {None}
      /\ mem \in Temp \cup {None}
      /\ out \in [Requests -> Response]
  BY PipelineAssumption DEF TypeOK
<1> USE <1>0 DEF DiskIntact, HitsIntact, CopiesIntact, Intact, Signed, At, Goto, store, lock, request, env
<1>1. CASE UNCHANGED vars
  BY <1>1 DEF vars, store, lock, request, env
<1>2. ASSUME NEW t \in Requests, Start(t) \/ Step(t) PROVE HitsIntact'
  <2>1. CASE Start(t) \/ Reply(t) \/ Stat(t) \/ Validate(t) \/ Serve(t)
    BY <2>1 DEF Start, Reply, Serve, Stat, Validate
  <2>9. CASE TryMemory(t)
    <3>1. kind' = kind /\ mem' = mem
      BY <2>9 DEF TryMemory
    <3>2. CASE mem # None /\ Answer(t, "MEMORY-HIT", mem)
      BY <3>1, <3>2, AnswerIntact DEF HitsIntact
    <3>3. CASE out' = out
      BY <3>1, <3>3
    <3> QED
      BY <2>9, <3>2, <3>3 DEF TryMemory
  <2>2. CASE Remove(t) \/ DeleteMetadata(t) \/ DeleteFromMemory(t)
    BY <2>2 DEF Remove, DeleteMetadata, DeleteFromMemory, MissDisk
  <2>3. CASE Open(t)
    <3>1. disk # None => Intact(Content(disk))
      BY ContentIntact DEF DiskIntact
    <3>2. kind' = kind /\ mem' = mem
      BY <2>3 DEF Open
    <3>3. CASE disk # None /\ Answer(t, "HIT", Content(disk))
      BY <3>1, <3>2, <3>3, AnswerIntact
    <3>4. CASE out' = out
      BY <3>2, <3>4
    <3> QED
      BY <2>3, <3>3, <3>4 DEF Open
  <2>4. CASE RecordHit(t) \/ ReadFile(t) \/ MemSet(t) \/ LockRequest(t)
    BY <2>4 DEF RecordHit, Answered, ReadFile, Cached, MemSet, See,
       LockRequest, Mutex!Request
  <2>5. CASE LockGrant(t) \/ FetchNothing(t) \/ Fetch(t) \/ Stream(t)
    <3>1. kind' = kind /\ mem' = mem
      BY <2>5 DEF LockGrant, FetchNothing, Fetch, Stream
    <3>2. \/ out' = out
          \/ \E c \in {"ERROR", "BYPASS", "MISS"} : Answer(t, c, None)
      BY <2>5 DEF LockGrant, FetchNothing, Fetch, Stream
    <3>3. CASE out' = out
      BY <3>1, <3>3
    <3>4. ASSUME NEW c \in {"ERROR", "BYPASS", "MISS"}, Answer(t, c, None)
          PROVE  HitsIntact'
      <4>1. c \notin {"HIT", "MEMORY-HIT"}
        OBVIOUS
      <4> QED
        BY <3>1, <3>4, <4>1, AnswerIntact
    <3> QED
      BY <3>2, <3>3, <3>4
  <2>6. CASE Check(t) \/ Rename(t) \/ Parse(t) \/ Load(t)
    BY <2>6 DEF Check, Accepts, Rename, Parse, See, Content, Load
  <2>7. CASE RecordMiss(t) \/ Restat(t) \/ Cleanup(t) \/ Unlock(t)
    BY <2>7 DEF RecordMiss, Restat, Cleanup, Unlock, Mutex!Release
  <2>8. CASE Return(t)
    BY <2>8 DEF Return, Answer
  <2> QED
    BY <1>2, <2>1, <2>2, <2>3, <2>4, <2>5, <2>6, <2>7, <2>8, <2>9 DEF Step, ClientStep, OwnStep
<1>3. CASE AdminStep
  <2>1. CASE AdminRemove \/ AdminDeleteFromMemory \/ AdminDeleteMetadata
            \/ AdminDeleteRow
    BY <2>1 DEF AdminRemove, AdminGoto, AdminDeleteFromMemory,
       AdminDeleteMetadata, AdminDeleteRow
  <2>2. CASE AdminWalk \/ AdminUpsert \/ AdminClearMemory
    BY <2>2 DEF AdminWalk, AdminGoto, AdminUpsert, AdminClearMemory
  <2> QED
    BY <1>3, <2>1, <2>2 DEF AdminStep
<1>4. CASE Age
  BY <1>4 DEF Age
<1>5. CASE Evict
  BY <1>5 DEF Evict
<1>6. CASE ExpectedChanges
  BY <1>6 DEF ExpectedChanges
<1>7. CASE Crash
  BY <1>7 DEF Crash, NoAnswer
<1>8. ASSUME NEW l \in Loaders, BackgroundStep(l) PROVE HitsIntact'
  BY <1>8 DEF BackgroundStep, BackgroundParse, BackgroundLoad
<1> QED
  BY <1>1, <1>2, <1>3, <1>4, <1>5, <1>6, <1>7, <1>8 DEF Next

-----------------------------------------------------------------------------
LEMMA InitInv == Init => IInv
<1> SUFFICES ASSUME Init PROVE IInv
  OBVIOUS
<1>1. TypeOK
  <2>1. NoAnswer \in Response
    BY DEF NoAnswer, Response
  <2> QED
    BY <2>1 DEF Init, Mutex!Init, TypeOK, Labels, NoLoad
<1>2. PhaseFits /\ NothingThere /\ LocalsSet /\ TempOwned
  BY DEF Init, PhaseFits, NothingThere, LocalsSet, TempOwned, NoLoad
<1>3. LockHeld
  BY PipelineAssumption DEF Init, Mutex!Init, LockHeld
<1>4. DiskIntact /\ CopiesIntact
  BY DEF Init, DiskIntact, CopiesIntact
<1>5. HitsIntact
  BY DEF Init, HitsIntact, NoAnswer
<1> QED
  BY <1>1, <1>2, <1>3, <1>4, <1>5 DEF IInv

LEMMA NextInv == IInv /\ [Next]_vars => IInv'
  BY TypeStep, PhaseStep, LockStep, NothingThereStep, LocalsStep, TempStep,
     DiskStep, CopiesStep, HitsStep DEF IInv

LEMMA InvariantHolds == SafeSpec => []IInv
  BY InitInv, NextInv, PTL DEF SafeSpec

\* Types, for any number of requests and any versions.
THEOREM TypeCorrect == SafeSpec => []TypeOK
<1>1. IInv => TypeOK
  BY DEF IInv
<1> QED
  BY <1>1, InvariantHolds, PTL

\* The path never names a cut or unverified file, in any interleaving of
\* requests, deletions, evictions and crashes (fetchAndStore, tryDisk).
THEOREM DiskIntactHolds == SafeSpec => []DiskIntact
<1>1. IInv => DiskIntact
  BY DEF IInv
<1> QED
  BY <1>1, InvariantHolds, PTL

\* Answers from disk and from memory are whole and verified (tryMemory,
\* tryDisk, cacheDiskFileInMemory).
THEOREM HitsIntactHolds == SafeSpec => []HitsIntact
<1>1. IInv => HitsIntact
  BY DEF IInv
<1> QED
  BY <1>1, InvariantHolds, PTL

\* Downloads of a path exclude each other and find nothing at the path
\* (serveCached).
THEOREM NoNeedlessFetchHolds == SafeSpec => []NoNeedlessFetch
<1>1. IInv => NoNeedlessFetch
  BY DEF IInv, NothingThere, LockHeld, PhaseFits, NoNeedlessFetch
<1> QED
  BY <1>1, InvariantHolds, PTL

\* No temporary file and no lock outlive a request (the deferred calls of
\* serveCached and fetchAndStore).
THEOREM NothingLeftHolds == SafeSpec => []NothingLeft
<1>1. IInv => NothingLeft
  BY DEF IInv, TempOwned, LockHeld, PhaseFits, NothingLeft
<1> QED
  BY <1>1, InvariantHolds, PTL
-----------------------------------------------------------------------------
(* Requests that do not overlap.  While alone holds at most one request is *)
(* under way, or has left a background load that nothing new has joined,   *)
(* so that what was seen of the stores is still true: the records that are *)
(* loaded are those of the file at the path.                               *)

\* The calls of a request after its commit: no more of them looks for another
\* file or touches the records.
Tail == {"idle", "missrow", "restat", "read", "memset", "cleanup", "unlock", "done"}

Loading(l) == bg[l].step # "idle"

Solo ==
    alone =>
        /\ \A t, u \in Requests : t # u /\ pc[t] # "idle" => pc[u] = "idle"
        /\ \A l, m \in Loaders : l # m /\ Loading(l) => ~Loading(m)
        /\ \A l \in Loaders, t \in Requests : Loading(l) => pc[t] \in Tail

\* Records that nobody will replace are there because DeleteSource has failed.
Cleared == records # None => "metadata" \in failed

\* What the theorem promises of the two stores.
Match ==
    /\ records # None /\ (disk = None \/ records # disk.ver) => "metadata" \in failed
    /\ disk # None /\ records = None => failed \cap {"remove", "load"} # {}

\* Between these calls the two stores may differ.
Between == {"remove", "meta", "parse", "load"}

\* What a request, or a background load, knows between its calls.
Midway(t) ==
    /\ pc[t] = "meta" => disk = None \/ "remove" \in failed
    /\ pc[t] \in {"memdel", "fetch", "stream", "check", "rename"} => Cleared
    /\ pc[t] = "load" => disk # None /\ info[t].ver = disk.ver

MidLoad(l) ==
    /\ bg[l].step = "parse" => Cleared
    /\ bg[l].step = "load" => disk # None /\ bg[l].file.ver = disk.ver

InStep ==
    alone /\ IsIndex =>
        /\ (\A t \in Requests : pc[t] \notin Between) /\ (\A l \in Loaders : ~Loading(l))
              => Match
        /\ \A t \in Requests : Midway(t)
        /\ \A l \in Loaders : MidLoad(l)

AloneInv == Solo /\ InStep

\* A step of t changes nothing of another request, and neither the history
\* nor the kind of the path.
LEMMA StepIsLocal ==
    ASSUME TypeOK, NEW t \in Requests, Step(t)
    PROVE  /\ pc[t] # "idle" /\ alone' = alone /\ kind' = kind
           /\ \A u \in Requests :
                 u # t => pc'[u] = pc[u] /\ phase'[u] = phase[u] /\ info'[u] = info[u]
<1>0. /\ pc \in [Requests -> Labels]
      /\ phase \in [Requests -> {"outside", "inside", "storing"}]
      /\ info \in [Requests -> Temp \cup {None}]
  BY DEF TypeOK
<1> USE <1>0 DEF At, Goto, See, env
<1>1. CASE TryMemory(t) \/ Reply(t) \/ Stat(t) \/ Validate(t) \/ Serve(t)
  BY <1>1 DEF TryMemory, Reply, Answered, Stat, MissDisk, Validate, Serve
<1>2. CASE Remove(t) \/ DeleteMetadata(t) \/ DeleteFromMemory(t) \/ Open(t)
  BY <1>2 DEF Remove, DeleteMetadata, DeleteFromMemory, MissDisk, Open
<1>3. CASE RecordHit(t) \/ ReadFile(t) \/ MemSet(t) \/ LockRequest(t)
  BY <1>3 DEF RecordHit, Answered, ReadFile, Cached, MemSet, LockRequest
<1>4. CASE LockGrant(t) \/ FetchNothing(t) \/ Fetch(t) \/ Stream(t)
  BY <1>4 DEF LockGrant, FetchNothing, Fetch, Stream
<1>5. CASE Check(t) \/ Rename(t) \/ Parse(t) \/ Load(t)
  BY <1>5 DEF Check, Rename, Parse, Load
<1>6. CASE RecordMiss(t) \/ Restat(t) \/ Cleanup(t) \/ Unlock(t) \/ Return(t)
  BY <1>6 DEF RecordMiss, Restat, Cleanup, Unlock, Return
<1> QED
  BY <1>1, <1>2, <1>3, <1>4, <1>5, <1>6 DEF Step, ClientStep, OwnStep

\* What is not a step of a request or of a background load leaves both alone,
\* and of the stores touches only memory and the age of the file, unless it
\* ends the history of requests that do not overlap.
LEMMA RestIsQuiet ==
    ASSUME TypeOK, alone', [Next]_vars, ~ \E t \in Requests : Start(t) \/ Step(t),
           ~ \E l \in Loaders : BackgroundStep(l)
    PROVE  /\ alone /\ pc' = pc /\ info' = info /\ bg' = bg
           /\ kind' = kind /\ records' = records /\ failed' = failed
           /\ disk' # disk => disk # None /\ disk' # None /\ disk'.ver = disk.ver
<1>1. ~AdminStep /\ ~Crash
  BY DEF AdminStep, AdminRemove, AdminDeleteFromMemory, AdminDeleteMetadata,
     AdminDeleteRow, AdminWalk, AdminUpsert, AdminClearMemory, AdminGoto, Crash
<1>2. CASE Age
  <2>1. disk \in File /\ disk' = [disk EXCEPT !.old = TRUE]
    BY <1>2 DEF Age, TypeOK
  <2>2. disk' \in File /\ disk'.ver = disk.ver
    BY <2>1 DEF File
  <2>3. \A f \in File : f # None
    BY NoneAssumption
  <2> QED
    BY <1>2, <2>1, <2>2, <2>3 DEF Age, request, env
<1>3. CASE Evict
  BY <1>3 DEF Evict, request, env
<1>4. CASE ExpectedChanges
  BY <1>4 DEF ExpectedChanges, store, request
<1>5. CASE UNCHANGED vars
  BY <1>5 DEF vars, store, request, env
<1> QED
  BY <1>1, <1>2, <1>3, <1>4, <1>5 DEF Next

\* Only the commit of an index starts a background load.
LEMMA OnlyRenameSpawns ==
    ASSUME TypeOK, NEW t \in Requests, Step(t)
    PROVE  \/ bg' = bg
           \/ /\ pc[t] = "rename" /\ pc'[t] = "missrow"
              /\ \E l \in Loaders : bg' = [bg EXCEPT ![l].step = "parse"]
<1>0. pc \in [Requests -> Labels]
  BY DEF TypeOK
<1>1. CASE Rename(t)
  BY <1>0, <1>1 DEF Rename, Spawn, At, Goto, Async, IsIndex
<1>2. CASE TryMemory(t) \/ Reply(t) \/ Stat(t) \/ Validate(t) \/ Serve(t)
  BY <1>2 DEF TryMemory, Reply, Stat, Validate, Serve
<1>3. CASE Remove(t) \/ DeleteMetadata(t) \/ DeleteFromMemory(t) \/ Open(t)
  BY <1>3 DEF Remove, DeleteMetadata, DeleteFromMemory, Open
<1>4. CASE RecordHit(t) \/ ReadFile(t) \/ MemSet(t) \/ LockRequest(t)
  BY <1>4 DEF RecordHit, ReadFile, MemSet, LockRequest
<1>5. CASE LockGrant(t) \/ FetchNothing(t) \/ Fetch(t) \/ Stream(t) \/ Check(t)
  BY <1>5 DEF LockGrant, FetchNothing, Fetch, Stream, Check
<1>6. CASE Parse(t) \/ Load(t)
  BY <1>6 DEF Parse, Load
<1>7. CASE RecordMiss(t) \/ Restat(t) \/ Cleanup(t) \/ Unlock(t) \/ Return(t)
  BY <1>7 DEF RecordMiss, Restat, Cleanup, Unlock, Return
<1> QED
  BY <1>1, <1>2, <1>3, <1>4, <1>5, <1>6, <1>7 DEF Step, ClientStep, OwnStep

\* After its commit a request only ends.
LEMMA TailEnds ==
    ASSUME TypeOK, NEW t \in Requests, Step(t), pc[t] \in Tail
    PROVE  pc'[t] \in Tail
<1>0. pc \in [Requests -> Labels]
  BY DEF TypeOK
<1> USE <1>0 DEF At, Goto, Tail
<1>1. ~(TryMemory(t) \/ Reply(t) \/ Stat(t) \/ Validate(t) \/ Serve(t))
  BY DEF TryMemory, Reply, Stat, Validate, Serve
<1>2. ~(Remove(t) \/ DeleteMetadata(t) \/ DeleteFromMemory(t) \/ Open(t))
  BY DEF Remove, DeleteMetadata, DeleteFromMemory, Open
<1>3. ~(RecordHit(t) \/ LockRequest(t) \/ LockGrant(t) \/ FetchNothing(t))
  BY DEF RecordHit, LockRequest, LockGrant, FetchNothing
<1>4. ~(Fetch(t) \/ Stream(t) \/ Check(t) \/ Rename(t) \/ Parse(t) \/ Load(t))
  BY DEF Fetch, Stream, Check, Rename, Parse, Load
<1>5. CASE ReadFile(t) \/ MemSet(t)
  BY <1>5 DEF ReadFile, MemSet, Cached, Answered
<1>6. CASE RecordMiss(t) \/ Restat(t) \/ Cleanup(t) \/ Unlock(t) \/ Return(t)
  BY <1>6 DEF RecordMiss, Restat, Cleanup, Unlock, Return
<1> QED
  BY <1>1, <1>2, <1>3, <1>4, <1>5, <1>6 DEF Step, ClientStep, OwnStep

LEMMA SoloStep == TypeOK /\ Solo /\ [Next]_vars => Solo'
<1> SUFFICES ASSUME TypeOK, Solo, [Next]_vars, alone'
             PROVE  /\ \A t, u \in Requests : t # u /\ pc'[t] # "idle" => pc'[u] = "idle"
                    /\ \A l, m \in Loaders :
                          l # m /\ bg'[l].step # "idle" => bg'[m].step = "idle"
                    /\ \A l \in Loaders, t \in Requests :
                          bg'[l].step # "idle" => pc'[t] \in Tail
  BY DEF Solo, Loading
<1>0. /\ pc \in [Requests -> Labels]
      /\ bg \in [Loaders -> [step : {"idle", "parse", "load"}, file : Temp \cup {None}]]
  BY DEF TypeOK
<1>1. ASSUME NEW r \in Requests, Start(r)
      PROVE  /\ \A u \in Requests : u # r => pc'[u] = "idle"
             /\ \A l \in Loaders : bg'[l].step = "idle"
  BY <1>0, <1>1 DEF Start, Goto, Idle, At
<1>2. ASSUME NEW r \in Requests, Step(r)
      PROVE  /\ \A u \in Requests : u # r => pc'[u] = "idle"
             /\ \A l, m \in Loaders :
                   l # m /\ bg'[l].step # "idle" => bg'[m].step = "idle"
             /\ \A l \in Loaders : bg'[l].step # "idle" => pc'[r] \in Tail
  <2>1. alone /\ \A u \in Requests : u # r => pc'[u] = "idle"
    BY <1>2, StepIsLocal DEF Solo
  <2>2. CASE bg' = bg
    BY <1>2, <2>1, <2>2, TailEnds DEF Solo, Loading
  <2>3. ASSUME pc[r] = "rename", pc'[r] = "missrow", NEW k \in Loaders,
               bg' = [bg EXCEPT ![k].step = "parse"]
        PROVE  /\ \A l \in Loaders : l # k => bg'[l].step = "idle"
               /\ pc'[r] \in Tail
    <3>1. \A l \in Loaders : bg[l].step = "idle"
      BY <2>1, <2>3 DEF Solo, Loading, Tail
    <3> QED
      BY <1>0, <2>3, <3>1 DEF Tail
  <2> QED
    BY <1>2, <2>1, <2>2, <2>3, OnlyRenameSpawns
<1>3. ASSUME NEW k \in Loaders, BackgroundStep(k)
      PROVE  /\ alone /\ pc' = pc
             /\ \A l \in Loaders : bg'[l].step # "idle" => bg[l].step # "idle"
  BY <1>0, <1>3 DEF BackgroundStep, BackgroundParse, BackgroundLoad, NoLoad, request, env
<1>4. CASE ~(\E t \in Requests : Start(t) \/ Step(t))
           /\ ~(\E l \in Loaders : BackgroundStep(l))
  BY <1>4, RestIsQuiet DEF Solo, Loading
<1>5. CASE \E r \in Requests : Start(r)
  BY <1>1, <1>5
<1>6. CASE \E r \in Requests : Step(r)
  BY <1>2, <1>6 DEF Tail
<1>7. CASE \E k \in Loaders : BackgroundStep(k)
  BY <1>3, <1>7 DEF Solo, Loading
<1> QED
  BY <1>4, <1>5, <1>6, <1>7

\* Most calls need the two stores in step and leave them so.
LEMMA QuietCalls ==
    ASSUME TypeOK, NEW t \in Requests, Step(t),
           ~ (Remove(t) \/ DeleteMetadata(t) \/ Check(t) \/ Rename(t) \/ Parse(t) \/ Load(t))
    PROVE  /\ pc[t] \notin Between /\ pc'[t] \notin {"meta", "load"}
           /\ pc'[t] \in {"memdel", "fetch", "stream", "check", "rename"} =>
                 \/ pc[t] \in {"memdel", "fetch", "stream", "check", "rename"}
                 \/ disk = None /\ pc[t] \in {"stat", "open"}
           /\ disk' = disk /\ records' = records /\ failed' = failed /\ bg' = bg
<1>0. pc \in [Requests -> Labels]
  BY DEF TypeOK
<1> USE <1>0 DEF Between, At, Goto, store
<1>1. CASE TryMemory(t) \/ Reply(t)
  BY <1>1 DEF TryMemory, Reply, Answered
<1>2. CASE Stat(t) \/ Validate(t) \/ Serve(t)
  BY <1>2 DEF Stat, MissDisk, Validate, Serve
<1>3. CASE DeleteFromMemory(t) \/ Open(t)
  BY <1>3 DEF DeleteFromMemory, Open, MissDisk
<1>4. CASE RecordHit(t) \/ ReadFile(t)
  BY <1>4 DEF RecordHit, Answered, ReadFile, Cached
<1>5. CASE MemSet(t) \/ LockRequest(t)
  BY <1>5 DEF MemSet, Answered, Cached, LockRequest
<1>6. CASE LockGrant(t) \/ FetchNothing(t) \/ Fetch(t)
  BY <1>6 DEF LockGrant, FetchNothing, Fetch
<1>7. CASE Stream(t)
  BY <1>7 DEF Stream
<1>8. CASE RecordMiss(t) \/ Restat(t) \/ Cleanup(t)
  BY <1>8 DEF RecordMiss, Restat, Cleanup
<1>9. CASE Unlock(t) \/ Return(t)
  BY <1>9 DEF Unlock, Return
<1> QED
  BY <1>1, <1>2, <1>3, <1>4, <1>5, <1>6, <1>7, <1>8, <1>9 DEF Step, ClientStep, OwnStep

\* A step of the one request that is under way keeps what it and its background
\* load know of the stores.
LEMMA RequestInStep ==
    ASSUME TypeOK, IsIndex, NEW t \in Requests, Step(t), Midway(t),
           \A l \in Loaders : MidLoad(l),
           pc[t] \notin Between /\ (\A l \in Loaders : ~Loading(l)) => Match,
           pc[t] \in Tail \/ \A l \in Loaders : ~Loading(l),
           pc[t] = "check" => disk = None \/ "remove" \in failed
    PROVE  /\ Midway(t)'
           /\ \A l \in Loaders : MidLoad(l)'
           /\ pc'[t] \notin Between /\ (\A l \in Loaders : bg'[l].step = "idle") => Match'
<1>0. /\ pc \in [Requests -> Labels] /\ info \in [Requests -> Temp \cup {None}]
      /\ bg \in [Loaders -> [step : {"idle", "parse", "load"}, file : Temp \cup {None}]]
  BY DEF TypeOK
<1>1. CASE ~ (Remove(t) \/ DeleteMetadata(t) \/ Check(t) \/ Rename(t) \/ Parse(t) \/ Load(t))
  <2>1. /\ pc[t] \notin Between /\ pc'[t] \notin {"meta", "load"}
        /\ pc'[t] \in {"memdel", "fetch", "stream", "check", "rename"} =>
              \/ pc[t] \in {"memdel", "fetch", "stream", "check", "rename"}
              \/ disk = None /\ pc[t] \in {"stat", "open"}
        /\ disk' = disk /\ records' = records /\ failed' = failed /\ bg' = bg
    BY <1>1, QuietCalls
  <2>2. disk = None /\ pc[t] \in {"stat", "open"} => Cleared
    BY <2>1 DEF Tail, Between, Match, Cleared
  <2>3. Midway(t)'
    BY <2>1, <2>2 DEF Midway, Cleared
  <2>4. \A l \in Loaders : MidLoad(l)'
    BY <2>1 DEF MidLoad, Cleared
  <2>5. (\A l \in Loaders : bg'[l].step = "idle") => Match'
    BY <2>1 DEF Match, Loading
  <2> QED
    BY <2>3, <2>4, <2>5
<1>2. ASSUME pc[t] \in {"remove", "meta", "check", "rename", "parse", "load"}
      PROVE  \A l \in Loaders : bg[l].step = "idle"
  BY <1>2 DEF Tail, Loading
<1>3. ASSUME bg' = bg, pc[t] \in {"remove", "meta", "check", "rename", "parse", "load"}
      PROVE  \A l \in Loaders : MidLoad(l)'
  BY <1>2, <1>3 DEF MidLoad
<1>4. CASE Remove(t)
  <2>1. /\ pc[t] = "remove" /\ pc'[t] = "meta" /\ bg' = bg
        /\ disk' = None \/ "remove" \in failed'
    BY <1>0, <1>4 DEF Remove, At, Goto
  <2> QED
    BY <1>3, <2>1 DEF Midway, Between
<1>5. CASE DeleteMetadata(t)
  <2>1. /\ pc[t] = "meta" /\ pc'[t] = "memdel" /\ disk' = disk /\ bg' = bg
        /\ \/ records' = None /\ failed' = failed \ {"metadata"}
           \/ /\ records # None /\ records' = records
              /\ failed' = failed \cup {"metadata"}
    BY <1>0, <1>5 DEF DeleteMetadata, DeleteSource, At, Goto
  <2>2. disk = None \/ "remove" \in failed
    BY <2>1 DEF Midway
  <2>3. Midway(t)' /\ Match'
    BY <2>1, <2>2 DEF Midway, Match, Cleared
  <2> QED
    BY <1>3, <2>1, <2>3
<1>6. CASE Check(t)
  <2>1. /\ pc[t] = "check" /\ pc'[t] \in {"rename", "meta"} /\ bg' = bg
        /\ disk' = disk /\ records' = records /\ failed' = failed
    BY <1>0, <1>6 DEF Check, At, Goto, store
  <2>2. Midway(t)'
    BY <2>1 DEF Midway, Cleared
  <2>3. pc'[t] \notin Between => Match'
    BY <1>2, <2>1 DEF Between, Match, Loading
  <2> QED
    BY <1>3, <2>1, <2>2, <2>3
<1>7. CASE Rename(t)
  <2>1. pc[t] = "rename" /\ Cleared /\ Match /\ records' = records
    BY <1>0, <1>2, <1>7 DEF Rename, At, Midway, Between, Loading
  <2>2. CASE pc'[t] = "cleanup"
    <3>1. disk' = disk /\ failed' = failed /\ bg' = bg
      BY <1>0, <1>7, <2>2 DEF Rename, Goto
    <3>2. Midway(t)' /\ Match'
      BY <2>1, <2>2, <3>1 DEF Midway, Match
    <3> QED
      BY <1>3, <2>1, <3>1, <3>2
  <2>3. CASE pc'[t] = "parse"
    <3>1. bg' = bg
      BY <1>0, <1>7, <2>3 DEF Rename, Goto
    <3>2. Midway(t)'
      BY <2>3 DEF Midway
    <3> QED
      BY <1>3, <2>1, <2>3, <3>1, <3>2 DEF Between
  <2>4. CASE pc'[t] = "missrow"
    <3>1. Spawn
      BY <1>0, <1>7, <2>4 DEF Rename, Goto, IsIndex
    <3>2. Midway(t)'
      BY <2>4 DEF Midway
    <3>3. ASSUME NEW k \in Loaders, bg' = [bg EXCEPT ![k].step = "parse"],
                 failed' = failed \ {"remove", "load"}
          PROVE  bg'[k].step # "idle" /\ \A l \in Loaders : MidLoad(l)'
      <4>1. bg'[k].step = "parse" /\ \A l \in Loaders : l # k => bg'[l].step = "idle"
        BY <1>0, <1>2, <2>1, <3>3
      <4>2. Cleared'
        BY <2>1, <3>3 DEF Cleared
      <4> QED
        BY <4>1, <4>2 DEF MidLoad
    <3>4. ASSUME bg' = bg, failed' = (failed \ {"remove"}) \cup {"load"}
          PROVE  Match' /\ \A l \in Loaders : MidLoad(l)'
      <4>1. Match'
        BY <2>1, <3>4 DEF Cleared, Match
      <4> QED
        BY <1>3, <2>1, <3>4, <4>1
    <3> QED
      BY <3>1, <3>2, <3>3, <3>4 DEF Spawn
  <2> QED
    BY <1>0, <1>7, <2>2, <2>3, <2>4 DEF Rename, Goto
<1>8. CASE Parse(t)
  <2>1. /\ pc[t] = "parse" /\ bg' = bg
        /\ \/ pc'[t] = "remove"
           \/ pc'[t] = "load" /\ disk' = disk /\ disk # None /\ info'[t] = Content(disk)
    BY <1>0, <1>8 DEF Parse, At, Goto, See, store
  <2>2. Midway(t)' /\ pc'[t] \in Between
    BY <2>1 DEF Midway, Between, Content
  <2> QED
    BY <1>3, <2>1, <2>2
<1>9. CASE Load(t)
  <2>1. /\ pc[t] = "load" /\ pc'[t] = "missrow" /\ bg' = bg
        /\ records' = info[t].ver /\ disk' = disk /\ disk # None /\ info[t].ver = disk.ver
    BY <1>0, <1>9 DEF Load, ReplaceSource, At, Goto, Midway
  <2>2. disk.ver # None
    BY <2>1, PipelineAssumption DEF TypeOK, File
  <2>3. Midway(t)' /\ Match'
    BY <2>1, <2>2 DEF Midway, Match
  <2> QED
    BY <1>3, <2>1, <2>3
<1> QED
  BY <1>1, <1>4, <1>5, <1>6, <1>7, <1>8, <1>9

\* So does a step of the background load.
LEMMA LoadInStep ==
    ASSUME TypeOK, NEW k \in Loaders, BackgroundStep(k), MidLoad(k),
           \A l \in Loaders : l # k => ~Loading(l)
    PROVE  /\ disk' = disk /\ \A l \in Loaders : MidLoad(l)'
           /\ (\A l \in Loaders : bg'[l].step = "idle") => Match'
<1>0. /\ bg \in [Loaders -> [step : {"idle", "parse", "load"}, file : Temp \cup {None}]]
      /\ disk \in File \cup {None} /\ \A f \in File : f.ver \in Versions
      /\ None \notin Versions
  BY PipelineAssumption DEF TypeOK, File
<1>1. ASSUME NEW l \in Loaders, l # k PROVE bg'[l].step = "idle"
  BY <1>0, <1>1 DEF BackgroundStep, BackgroundParse, BackgroundLoad, NoLoad, Loading
<1>2. CASE bg[k].step = "parse" /\ bg'[k].step = "load"
  <2>1. bg'[k].file = Content(disk) /\ disk # None /\ disk' = disk
    BY <1>0, <1>2 DEF BackgroundStep, BackgroundParse, BackgroundLoad, NoLoad, store
  <2> QED
    BY <1>1, <1>2, <2>1 DEF MidLoad, Content
<1>3. CASE bg[k].step = "parse" /\ bg'[k].step # "load"
  <2>1. /\ bg'[k].step = "idle" /\ disk' = disk /\ records' = records
        /\ failed' = failed \cup {"load"}
    BY <1>0, <1>3 DEF BackgroundStep, BackgroundParse, BackgroundLoad, NoLoad, store
  <2>2. Match'
    BY <1>3, <2>1 DEF MidLoad, Cleared, Match
  <2> QED
    BY <1>1, <2>1, <2>2 DEF MidLoad
<1>4. CASE bg[k].step = "load"
  <2>1. bg'[k].step = "idle" /\ disk' = disk /\ records' = bg[k].file.ver
    BY <1>0, <1>4 DEF BackgroundStep, BackgroundParse, BackgroundLoad, ReplaceSource, NoLoad
  <2>2. Match'
    BY <1>0, <1>4, <2>1 DEF MidLoad, Match
  <2> QED
    BY <1>1, <2>1, <2>2 DEF MidLoad
<1> QED
  BY <1>2, <1>3, <1>4 DEF BackgroundStep, BackgroundParse, BackgroundLoad

LEMMA InStepStep ==
    TypeOK /\ NothingThere /\ Solo /\ InStep /\ [Next]_vars => InStep'
<1> SUFFICES ASSUME TypeOK, NothingThere, Solo, InStep, [Next]_vars, alone', IsIndex'
             PROVE  /\ (\A u \in Requests : pc'[u] \notin Between)
                       /\ (\A l \in Loaders : bg'[l].step = "idle") => Match'
                    /\ \A u \in Requests : Midway(u)'
                    /\ \A l \in Loaders : MidLoad(l)'
  BY DEF InStep, Loading
<1>0. pc \in [Requests -> Labels] /\ info \in [Requests -> Temp \cup {None}]
  BY DEF TypeOK
<1>1. ASSUME NEW t \in Requests, Start(t)
      PROVE  /\ Match' /\ \A u \in Requests : Midway(u)'
             /\ \A l \in Loaders : MidLoad(l)'
  <2>1. /\ alone /\ kind' = kind /\ disk' = disk /\ records' = records
        /\ failed' = failed /\ bg' = bg
        /\ \A u \in Requests : pc[u] = "idle"
        /\ \A l \in Loaders : bg[l].step = "idle"
    BY <1>1 DEF Start, Idle, At, store
  <2>2. \A u \in Requests : pc'[u] = "idle" \/ pc'[u] = "mem"
    BY <1>0, <1>1, <2>1 DEF Start, Goto
  <2>3. Match
    BY <2>1 DEF InStep, IsIndex, Between, Loading
  <2>4. Match'
    BY <2>1, <2>3 DEF Match
  <2> QED
    BY <2>1, <2>2, <2>4 DEF Midway, MidLoad
<1>2. ASSUME NEW t \in Requests, Step(t)
      PROVE  /\ pc'[t] \notin Between /\ (\A l \in Loaders : bg'[l].step = "idle") => Match'
             /\ \A u \in Requests : Midway(u)'
             /\ \A l \in Loaders : MidLoad(l)'
  <2>1. /\ alone /\ kind' = kind
        /\ \A u \in Requests : u # t => pc[u] = "idle" /\ pc'[u] = "idle"
    BY <1>2, StepIsLocal DEF Solo
  <2>2. /\ IsIndex /\ Midway(t) /\ \A l \in Loaders : MidLoad(l)
        /\ pc[t] \notin Between /\ (\A l \in Loaders : ~Loading(l)) => Match
    BY <2>1 DEF InStep, IsIndex, Between
  <2>3. pc[t] \in Tail \/ \A l \in Loaders : ~Loading(l)
    BY <2>1 DEF Solo
  <2>4. pc[t] = "check" => disk = None \/ "remove" \in failed
    BY DEF NothingThere
  <2>5. /\ Midway(t)' /\ \A l \in Loaders : MidLoad(l)'
        /\ pc'[t] \notin Between /\ (\A l \in Loaders : bg'[l].step = "idle") => Match'
    BY <1>2, <2>2, <2>3, <2>4, RequestInStep
  <2>6. \A u \in Requests : u # t => Midway(u)'
    BY <2>1 DEF Midway
  <2> QED
    BY <2>5, <2>6
<1>3. ASSUME NEW k \in Loaders, BackgroundStep(k)
      PROVE  /\ (\A l \in Loaders : bg'[l].step = "idle") => Match'
             /\ \A u \in Requests : Midway(u)'
             /\ \A l \in Loaders : MidLoad(l)'
  <2>1. alone /\ kind' = kind /\ pc' = pc /\ Loading(k)
    BY <1>3 DEF BackgroundStep, BackgroundParse, BackgroundLoad, Loading, request, env
  <2>2. /\ IsIndex /\ MidLoad(k) /\ \A l \in Loaders : l # k => ~Loading(l)
        /\ \A u \in Requests : pc'[u] \in Tail
    BY <2>1 DEF InStep, IsIndex, Solo
  <2>3. \A u \in Requests : Midway(u)'
    BY <2>2 DEF Midway, Tail
  <2> QED
    BY <1>3, <2>2, <2>3, LoadInStep
<1>4. CASE ~(\E t \in Requests : Start(t) \/ Step(t))
           /\ ~(\E l \in Loaders : BackgroundStep(l))
  <2>1. /\ alone /\ pc' = pc /\ info' = info /\ bg' = bg
        /\ kind' = kind /\ records' = records /\ failed' = failed
        /\ disk' = disk \/ (disk # None /\ disk' # None /\ disk'.ver = disk.ver)
    BY <1>4, RestIsQuiet
  <2>2. Match => Match'
    BY <2>1 DEF Match
  <2>3. \A u \in Requests : Midway(u) => Midway(u)'
    BY <2>1 DEF Midway, Cleared
  <2>4. \A l \in Loaders : MidLoad(l) => MidLoad(l)'
    BY <2>1 DEF MidLoad, Cleared
  <2> QED
    BY <2>1, <2>2, <2>3, <2>4 DEF InStep, IsIndex, Loading
<1>5. CASE \E t \in Requests : Start(t)
  BY <1>1, <1>5
<1>6. CASE \E t \in Requests : Step(t)
  BY <1>2, <1>6
<1>7. CASE \E k \in Loaders : BackgroundStep(k)
  BY <1>3, <1>7
<1> QED
  BY <1>4, <1>5, <1>6, <1>7

LEMMA AloneHolds == SafeSpec => []AloneInv
<1>1. Init => AloneInv
  BY DEF Init, AloneInv, Solo, InStep, Match, Midway, MidLoad, Loading, NoLoad
<1>2. IInv /\ AloneInv /\ [Next]_vars => AloneInv'
  BY SoloStep, InStepStep DEF AloneInv, IInv
<1> QED
  BY <1>1, <1>2, InvariantHolds, PTL DEF SafeSpec

\* Without overlap the hash store holds, when requests and the background load
\* are over, the records of exactly the cached index, whichever downloads,
\* validations, renames and loads have failed, but for what a dropped error of
\* os.Remove, of DeleteSource or of a background load has left.
THEOREM RecordsFollowIndexHolds == SafeSpec => []RecordsFollowIndex
<1>1. AloneInv => RecordsFollowIndex
  BY DEF AloneInv, InStep, Between, Match, Loading, RecordsFollowIndex, Quiescent, Idle, At
<1> QED
  BY <1>1, AloneHolds, PTL
-----------------------------------------------------------------------------
(***************************************************************************)
(* How long a request is.  That it returns (EveryRequestReturns) rests on  *)
(* fairness and is left to TLC; that its steps are numbered is proved.     *)
(***************************************************************************)

\* The steps left of tryMemory, tryDisk and cacheDiskFileInMemory.
Looking(label) ==
    CASE label = "mem" -> 9
      [] label = "stat" -> 8
      [] label = "validate" -> 7
      [] label \in {"remove", "open"} -> 6
      [] label = "meta" -> 5
      [] label \in {"memdel", "serve"} -> 4
      [] label = "hitrow" -> 3
      [] label = "read" -> 2
      [] label = "memset" -> 1

\* The steps left of fetchAndStore.
Storing(label) ==
    CASE label = "stream" -> 9
      [] label = "check" -> 8
      [] label = "rename" -> 7
      [] label = "parse" -> 6
      [] label \in {"load", "remove"} -> 5
      [] label \in {"missrow", "meta"} -> 4
      [] label \in {"restat", "memdel"} -> 3
      [] label = "read" -> 2
      [] label = "memset" -> 1
      [] label = "cleanup" -> 0

\* A bound on the steps a request still takes: it looks twice, outside the lock
\* and inside it, and stores once.
Left(t) ==
    CASE pc[t] = "idle" -> 0
      [] pc[t] = "done" -> 1
      [] pc[t] = "unlock" -> 2
      [] pc[t] = "reply" -> 3
      [] pc[t] = "fetch" -> 13
      [] pc[t] = "waiting" -> 23
      [] pc[t] = "lock" -> 24
      [] pc[t] \notin {"idle", "done", "unlock", "reply", "fetch", "waiting", "lock"} ->
            CASE phase[t] = "storing" -> 3 + Storing(pc[t])
              [] phase[t] = "inside" -> 13 + Looking(pc[t])
              [] phase[t] = "outside" -> 24 + Looking(pc[t])

\* Every step of a request brings its return nearer, and nothing that others
\* do to the file, the memory or the records makes its way longer.
EveryStepCounts ==
    [][\A t \in Requests :
           /\ Left(t) \in 0 .. 33
           /\ Step(t) => Left(t)' < Left(t)
           /\ pc[t] # "idle" => Step(t) \/ Left(t)' = Left(t) \/ Crash]_vars

LEMMA LeftBounded ==
    ASSUME TypeOK, PhaseFits, NEW t \in Requests
    PROVE  Left(t) \in 0 .. 33
<1>1. pc[t] \in Labels /\ phase[t] \in {"outside", "inside", "storing"}
  BY DEF TypeOK
<1>2. ASSUME NEW label \in {"mem", "stat", "validate", "remove", "meta", "memdel",
                            "open", "serve", "hitrow", "read", "memset"}
      PROVE  Looking(label) \in 1 .. 9
  BY <1>2 DEF Looking
<1>3. ASSUME NEW label \in {"stream", "check", "rename", "parse", "load", "remove",
                            "missrow", "meta", "restat", "memdel", "read",
                            "memset", "cleanup"}
      PROVE  Storing(label) \in 0 .. 9
  BY <1>3 DEF Storing
<1>4. CASE pc[t] \in {"idle", "done", "unlock", "reply", "fetch", "waiting", "lock"}
  BY <1>4 DEF Left
<1>5. CASE pc[t] \notin {"idle", "done", "unlock", "reply", "fetch", "waiting", "lock"}
  <2>1. CASE phase[t] = "storing"
    <3>1. Storing(pc[t]) \in 0 .. 9
      BY <1>1, <1>3, <1>5, <2>1 DEF PhaseFits, Labels
    <3> QED
      BY <1>5, <2>1, <3>1 DEF Left
  <2>2. CASE phase[t] # "storing"
    <3>1. Looking(pc[t]) \in 1 .. 9
      BY <1>1, <1>2, <1>5, <2>2 DEF PhaseFits, Labels
    <3> QED
      BY <1>1, <1>5, <2>2, <3>1 DEF Left
  <2> QED
    BY <2>1, <2>2
<1> QED
  BY <1>4, <1>5

\* The step of a request brings it forward.
LEMMA LeftDrops ==
    ASSUME TypeOK, PhaseFits, NEW t \in Requests, Step(t)
    PROVE  Left(t)' < Left(t)
<1>0. /\ pc \in [Requests -> Labels]
      /\ phase \in [Requests -> {"outside", "inside", "storing"}]
      /\ phase[t] \in {"outside", "inside", "storing"}
  BY DEF TypeOK
<1> USE <1>0 DEF At, Goto, Left, Looking, Storing, PhaseFits, request
<1>1. CASE TryMemory(t) \/ Reply(t)
  BY <1>1 DEF TryMemory, Reply, Answered
<1>2. CASE Stat(t) \/ Validate(t) \/ Serve(t)
  BY <1>2 DEF Stat, MissDisk, Validate, Serve
<1>3. CASE Remove(t) \/ DeleteMetadata(t)
  BY <1>3 DEF Remove, DeleteMetadata
<1>4. CASE DeleteFromMemory(t)
  BY <1>4 DEF DeleteFromMemory, MissDisk
<1>5. CASE Open(t)
  BY <1>5 DEF Open, MissDisk
<1>6. CASE RecordHit(t)
  BY <1>6 DEF RecordHit, Answered
<1>7. CASE ReadFile(t) \/ MemSet(t)
  BY <1>7 DEF ReadFile, MemSet, Cached, Answered
<1>8. CASE LockRequest(t) \/ LockGrant(t)
  BY <1>8 DEF LockRequest, LockGrant
<1>9. CASE FetchNothing(t) \/ Fetch(t)
  BY <1>9 DEF FetchNothing, Fetch
<1>10. CASE Stream(t) \/ Check(t) \/ Rename(t)
  BY <1>10 DEF Stream, Check, Rename
<1>11. CASE Parse(t) \/ Load(t) \/ RecordMiss(t) \/ Restat(t)
  BY <1>11 DEF Parse, Load, RecordMiss, Restat
<1>12. CASE Cleanup(t) \/ Unlock(t) \/ Return(t)
  BY <1>12 DEF Cleanup, Unlock, Return
<1> QED
  BY <1>1, <1>2, <1>3, <1>4, <1>5, <1>6, <1>7, <1>8, <1>9, <1>10, <1>11, <1>12
     DEF Step, ClientStep, OwnStep

\* A request returns after at most 33 steps of its own, whatever other
\* requests, the administrator, the caches and the indexes do between them:
\* serveCached looks, waits, looks again, downloads and cleans up once each,
\* and nothing in it is a retry.
THEOREM EveryStepCountsHolds == SafeSpec => EveryStepCounts
<1> DEFINE Counts == \A t \in Requests :
               /\ Left(t) \in 0 .. 33
               /\ Step(t) => Left(t)' < Left(t)
               /\ pc[t] # "idle" => Step(t) \/ Left(t)' = Left(t) \/ Crash
<1>1. ASSUME IInv, Next, NEW t \in Requests, pc[t] # "idle", ~Step(t), ~Crash
      PROVE  Left(t)' = Left(t)
  <2>1. pc'[t] = pc[t] /\ phase'[t] = phase[t]
    <3>1. ASSUME NEW u \in Requests, Start(u) \/ Step(u)
          PROVE  pc'[t] = pc[t] /\ phase'[t] = phase[t]
      <4>1. u # t
        BY <1>1, <3>1 DEF Start, At
      <4>2. CASE Start(u)
        BY <1>1, <4>1, <4>2 DEF Start, Goto, IInv, TypeOK
      <4>3. CASE Step(u)
        BY <1>1, <4>1, <4>3, StepIsLocal DEF IInv
      <4> QED
        BY <3>1, <4>2, <4>3
    <3>2. CASE AdminStep
      BY <3>2 DEF AdminStep, AdminGoto, AdminRemove, AdminDeleteFromMemory,
                  AdminDeleteMetadata, AdminDeleteRow, AdminWalk, AdminUpsert,
                  AdminClearMemory, request
    <3>3. CASE Age \/ Evict \/ ExpectedChanges
      BY <3>3 DEF Age, Evict, ExpectedChanges, request
    <3>4. ASSUME NEW l \in Loaders, BackgroundStep(l) PROVE pc'[t] = pc[t] /\ phase'[t] = phase[t]
      BY <3>4 DEF BackgroundStep, BackgroundParse, BackgroundLoad, request
    <3> QED
      BY <1>1, <3>1, <3>2, <3>3, <3>4 DEF Next
  <2> QED
    BY <2>1 DEF Left
<1>2. IInv /\ [Next]_vars => [Counts]_vars
  <2> SUFFICES ASSUME IInv, Next PROVE Counts
    OBVIOUS
  <2> QED
    BY <1>1, LeftBounded, LeftDrops DEF IInv
<1> QED
  BY <1>2, InvariantHolds, PTL DEF SafeSpec, EveryStepCounts
=============================================================================
