------------------------------- MODULE Vault --------------------------------
(***************************************************************************)
(* The Vault (core/vault/index.ts) over the local storage backend: one      *)
(* process that keeps the metadata map `meta`, the vector index and the     *)
(* encrypted index cache in step with a directory of .mem files that a sync *)
(* client, another device or an editor changes underneath it.               *)
(*                                                                          *)
(* The process is a single Node thread: several calls are in flight and     *)
(* every `await` is a point where another call, the file system or a crash  *)
(* may come in between.  Each action is the code between two such points.   *)
(* Calls that change state run under the write lock; reads do not, although *)
(* a read that finds its file gone also drops the memento from RAM.         *)
(***************************************************************************)
EXTENDS ChunkIndex, FiniteSets

CONSTANTS
    Tasks,        \* calls that can be in flight at once
    Ops,          \* operations the callers use in this instance
    EnvKinds,     \* what happens to the directory from outside
    EnvAtBoot,    \* may the outside change the directory during startup?
    LateMiss,     \* may a failed read be delivered late?
    InitialFiles, \* the versions the directory may hold at the beginning
    MaxClock      \* bound on the number of file writes

LockedOps == {"write", "ingest", "update", "delete", "sync", "flush"}
AllOps    == LockedOps \cup {"read"}
AllKinds  == {"create", "delete", "edit", "corrupt", "restore"}

ASSUME VaultAssumption ==
    /\ Ops \subseteq AllOps
    /\ EnvKinds \subseteq AllKinds
    /\ EnvAtBoot \in BOOLEAN /\ LateMiss \in BOOLEAN
    /\ MaxClock \in Nat
    /\ None \notin Tasks
    /\ InitialFiles \subseteq {v \in Version : v.at = 0}

VARIABLES
    disk,          \* [Ids -> version of <id>.mem, or None]
    trash,         \* the last version of <id>.mem removed from outside
    born,          \* ids that ever had a file
    clock,         \* number of file writes so far; stamps the next mtime
    cache,         \* the index cache file, or None (absent or unreadable)
    phase,         \* "down", "loading", "ready"
    boot,          \* locals of startup()
    meta,          \* metaById: [Ids -> metadata, or None]
    index,         \* the vector index, see ChunkIndex
    dirty,         \* cacheDirty
    lock,          \* the call that holds the write lock, or None
    stage,         \* where the holder is
    work,          \* locals of the holder
    pc,            \* where each call is
    call,          \* arguments of each call
    inFlightSync,  \* the call whose doSync others await, or None
    touched        \* history: ids changed by someone else since a mark

diskVars == <<disk, trash, born, clock>>
ramVars  == <<meta, index, dirty>>
callVars == <<pc, call, inFlightSync>>
lockVars == <<lock, stage, work>>
vars     == <<diskVars, cache, phase, boot, ramVars, lockVars, callVars, touched>>

(* MemMetadata: the content version registered and the mtime recorded for   *)
(* it.  Both are taken from the file, not always at the same moment.  An    *)
(* mtime of None is the 0 recorded when stat fails.                         *)
Meta == [of : Version, mtime : Version \cup {None}]

ASSUME MetaAssumption == None \notin Meta

NoIds   == [id \in Ids |-> None]
NoWork  == [seen |-> NoIds, known |-> NoIds, todo |-> {}, listed |-> {},
            changed |-> FALSE, entries |-> {}, native |-> {}, names |-> {}]
NoBoot  == [warm |-> FALSE, todo |-> {}, got |-> NoIds, mtimes |-> NoIds, failed |-> {}]
NoCall  == [op |-> "none", ids |-> {}, txt |-> None]

Present(id)  == disk[id] # None
Readable(id) == Present(id) /\ disk[id].ok
InRam        == {id \in Ids : meta[id] # None}
Entries      == {<<id, meta[id].mtime>> : id \in InRam}
DiskEntries  == {<<id, disk[id]>> : id \in {i \in Ids : Present(i)}}

(* The version a write of text x produces.                                  *)
Written(x) == [at |-> clock + 1, txt |-> x, ok |-> TRUE]
CanWrite   == clock < MaxClock
Tick       == clock' = clock + 1

Register(id, v, m)  == meta' = [meta EXCEPT ![id] = [of |-> v, mtime |-> m]]
OneChunked(id, v)   == [k \in ChunkKeys(id, v) |-> v]

(***************************************************************************)
(* Startup.  Not under the lock: no call is served before it returns.       *)
(***************************************************************************)

(* list(), then tryLoadIndexCache: the cache is used iff its entries are    *)
(* exactly the {id, mtime} pairs on disk.                                   *)
Startup ==
    /\ phase = "down"
    /\ LET files == {id \in Ids : Present(id)}
           warm  == files # {} /\ cache # None /\ cache.entries = DiskEntries
       IN  /\ boot' = [NoBoot EXCEPT !.warm = warm, !.todo = files,
                                     !.mtimes = IF warm THEN disk ELSE NoIds]
           /\ index' = IF warm THEN Load(cache.names, cache.native) ELSE EmptyIndex
    /\ phase' = "loading"
    /\ touched' = {}
    /\ UNCHANGED <<diskVars, cache, meta, dirty, lockVars, callVars>>

(* loadAndRegister on the warm path: the chunks are already in the index.   *)
LoadWarm(id) ==
    /\ phase = "loading" /\ boot.warm /\ id \in boot.todo
    /\ IF Readable(id)
         THEN /\ Register(id, disk[id], boot.mtimes[id])
              /\ boot' = [boot EXCEPT !.todo = @ \ {id}]
         ELSE /\ boot' = [boot EXCEPT !.todo = @ \ {id}, !.failed = @ \cup {id}]
              /\ UNCHANGED meta
    /\ UNCHANGED <<diskVars, cache, phase, index, dirty, lockVars, callVars, touched>>

(* loadAndRegister on the cold path reads the file first ...                *)
LoadColdGet(id) ==
    /\ phase = "loading" /\ ~boot.warm /\ id \in boot.todo
    /\ boot' = [boot EXCEPT !.todo = @ \ {id},
                            !.got[id] = IF Readable(id) THEN disk[id] ELSE None]
    /\ UNCHANGED <<diskVars, cache, phase, ramVars, lockVars, callVars, touched>>

(* ... and stats it afterwards.                                             *)
LoadColdStat(id) ==
    /\ phase = "loading" /\ boot.got[id] # None
    /\ Register(id, boot.got[id], disk[id])
    /\ index' = Add(index, OneChunked(id, boot.got[id]))
    /\ boot' = [boot EXCEPT !.got[id] = None]
    /\ UNCHANGED <<diskVars, cache, phase, dirty, lockVars, callVars, touched>>

(* The chunks of files that failed to load are tombstoned.                  *)
StartupDone ==
    /\ phase = "loading" /\ boot.todo = {} /\ boot.got = NoIds
    /\ index' = RemoveMementos(index, boot.failed)
    /\ dirty' = IF boot.warm THEN boot.failed # {} ELSE InRam # {}
    /\ phase' = "ready"
    /\ boot' = NoBoot
    /\ UNCHANGED <<diskVars, cache, meta, lockVars, callVars, touched>>

(* The process dies, or exits.  A cache file being written is left torn.    *)
Crash ==
    /\ phase # "down"
    /\ cache' \in {cache} \cup (IF stage = "flushWrite" THEN {None} ELSE {})
    /\ phase' = "down"
    /\ boot' = NoBoot
    /\ meta' = NoIds /\ index' = EmptyIndex /\ dirty' = FALSE
    /\ lock' = None /\ stage' = "none" /\ work' = NoWork
    /\ pc' = [t \in Tasks |-> "idle"] /\ call' = [t \in Tasks |-> NoCall]
    /\ inFlightSync' = None
    /\ touched' = {}
    /\ UNCHANGED diskVars

(***************************************************************************)
(* Callers.  syncIfStale runs a doSync first when the throttle has elapsed, *)
(* one for all callers that find it elapsed; elapsing is nondeterministic.  *)
(***************************************************************************)

Arguments(op) ==
    CASE op = "write"  -> [ids : {{}}, txt : Texts]
      [] op = "ingest" -> [ids : SUBSET Ids \ {{}}, txt : Texts]
      [] op = "update" -> [ids : {{id} : id \in Ids}, txt : Texts]
      [] op \in {"delete", "read"} -> [ids : {{id} : id \in Ids}, txt : {None}]
      [] OTHER -> [ids : {{}}, txt : {None}]

(* Fault: calls are served while startup is still loading.                  *)
Invoke_Early(t) ==
    /\ phase # "down" /\ pc[t] = "idle"
    /\ \E op \in Ops : \E a \in Arguments(op) :
          call' = [call EXCEPT ![t] = [op |-> op, ids |-> a.ids, txt |-> a.txt]]
    /\ pc' = [pc EXCEPT ![t] = "go"]
    /\ UNCHANGED <<diskVars, cache, phase, boot, ramVars, lockVars, inFlightSync, touched>>

Invoke(t) ==
    /\ phase = "ready" /\ pc[t] = "idle"
    /\ \E op \in Ops : \E a \in Arguments(op) :
          /\ op = "flush" => \A u \in Tasks : call[u].op # "flush"
          /\ call' = [call EXCEPT ![t] = [op |-> op, ids |-> a.ids, txt |-> a.txt]]
          /\ \/ /\ pc' = [pc EXCEPT ![t] = "go"]
                /\ UNCHANGED inFlightSync
             \/ /\ op \notin {"sync", "flush"} /\ "sync" \in Ops
                /\ IF inFlightSync = None
                     THEN /\ pc' = [pc EXCEPT ![t] = "lead"]
                          /\ inFlightSync' = t
                     ELSE /\ pc' = [pc EXCEPT ![t] = "join"]
                          /\ UNCHANGED inFlightSync
    /\ UNCHANGED <<diskVars, cache, phase, boot, ramVars, lockVars, touched>>

(* What call t wants the lock for.                                          *)
Wants(t) == IF pc[t] = "lead" THEN "sync" ELSE call[t].op
Waiting(t) == pc[t] = "lead" \/ (pc[t] = "go" /\ call[t].op \in LockedOps)

(* Fault: a leader that ends does not wake the callers that joined it.      *)
EndOf_Alone(t, ok) ==
    /\ pc' = [pc EXCEPT ![t] = IF inFlightSync = t /\ ok THEN "go" ELSE "idle"]
    /\ call' = [call EXCEPT ![t] = IF inFlightSync = t /\ ok THEN @ ELSE NoCall]
    /\ inFlightSync' = IF inFlightSync = t THEN None ELSE inFlightSync

(* The call ends.  If it led a shared sync, those who joined share its fate: *)
(* they go on after a success and fail with it.                             *)
EndOf(t, ok) ==
    IF inFlightSync = t
      THEN /\ inFlightSync' = None
           /\ pc' = [u \in Tasks |->
                       IF u = t \/ pc[u] = "join"
                         THEN IF ok THEN "go" ELSE "idle" ELSE pc[u]]
           /\ call' = [u \in Tasks |->
                         IF (u = t \/ pc[u] = "join") /\ ~ok THEN NoCall ELSE call[u]]
      ELSE /\ pc' = [pc EXCEPT ![t] = "idle"]
           /\ call' = [call EXCEPT ![t] = NoCall]
           /\ UNCHANGED inFlightSync

(* proper-lockfile: acquire, or give up with VaultBusyError.                *)
Acquire(t) ==
    /\ Waiting(t) /\ lock = None
    /\ lock' = t
    /\ stage' = Wants(t)
    /\ UNCHANGED <<diskVars, cache, phase, boot, ramVars, work, callVars, touched>>

Busy(t) ==
    /\ Waiting(t) /\ lock \notin {None, t}
    /\ EndOf(t, FALSE)
    /\ UNCHANGED <<diskVars, cache, phase, boot, ramVars, lockVars, touched>>

Release(t, ok) ==
    /\ lock' = None /\ stage' = "none" /\ work' = NoWork
    /\ EndOf(t, ok)

At(t, s) == lock = t /\ stage = s
Goto(s)  == lock' = lock /\ stage' = s /\ UNCHANGED callVars

(* A storage call that throws ends the operation with RAM as it was.        *)
StorageFails(t) ==
    /\ lock = t /\ stage \in {"writePut", "updatePut", "deleteDo", "sync"}
    /\ Release(t, FALSE)
    /\ UNCHANGED <<diskVars, cache, phase, boot, ramVars, touched>>

(***************************************************************************)
(* writeMemento: reject a duplicate of an indexed first chunk, write the    *)
(* file under a fresh id, register it.                                      *)
(***************************************************************************)

(* findDuplicate: the nearest neighbour of the first chunk.  Equal texts    *)
(* stand for vectors within the duplicate threshold.                        *)
Duplicate(x) ==
    /\ \E k \in Key : index.strToNum[k] # None
    /\ \E l \in index.native : l[1][2] = 0 /\ l[2].txt = x

WriteCheck(t) ==
    /\ At(t, "write")
    /\ IF Duplicate(call[t].txt)
         THEN Release(t, FALSE)
         ELSE Goto("writePut") /\ UNCHANGED work
    /\ UNCHANGED <<diskVars, cache, phase, boot, ramVars, touched>>

WritePut(t) ==
    /\ At(t, "writePut") /\ CanWrite
    /\ \E id \in Ids \ born :
          /\ disk' = [disk EXCEPT ![id] = Written(call[t].txt)]
          /\ born' = born \cup {id}
          /\ work' = [work EXCEPT !.seen[id] = Written(call[t].txt)]
    /\ Tick /\ UNCHANGED trash
    /\ Goto("register")
    /\ UNCHANGED <<cache, phase, boot, ramVars, touched>>

(* Fault: the mtime comes from a stat after the write, not from the write.  *)
RegisterAll_StatsLater(ix) ==
    LET new  == {id \in Ids : work.seen[id] # None}
        keys == UNION {ChunkKeys(id, work.seen[id]) : id \in new}
    IN  /\ meta' = [id \in Ids |-> IF id \in new
                                     THEN [of |-> work.seen[id], mtime |-> disk[id]]
                                     ELSE meta[id]]
        /\ index' = Add(ix, [k \in keys |-> work.seen[k[1]]])
        /\ dirty' = TRUE

(* Register every version in work.seen, the mtime taken from the write.     *)
RegisterAll(ix) ==
    LET new  == {id \in Ids : work.seen[id] # None}
        keys == UNION {ChunkKeys(id, work.seen[id]) : id \in new}
    IN  /\ meta' = [id \in Ids |-> IF id \in new
                                     THEN [of |-> work.seen[id], mtime |-> work.seen[id]]
                                     ELSE meta[id]]
        /\ index' = Add(ix, [k \in keys |-> work.seen[k[1]]])
        /\ dirty' = TRUE

RegisterWritten(t) ==
    /\ At(t, "register")
    /\ RegisterAll(index)
    /\ Release(t, TRUE)
    /\ UNCHANGED <<diskVars, cache, phase, boot, touched>>

(***************************************************************************)
(* ingest: write the mementos RAM does not know in one batch.  The writes   *)
(* run concurrently; once all have settled, one failure rolls the batch     *)
(* back by removing the files that did not exist before it.                 *)
(***************************************************************************)

(* listed is preExisting; known, the files themselves, is kept only for the  *)
(* comparison BatchUndone makes: no step of a batch reads it.               *)
IngestCheck(t) ==
    /\ At(t, "ingest")
    /\ LET fresh == call[t].ids \ InRam
       IN  IF fresh = {}
             THEN Release(t, TRUE)
             ELSE /\ work' = [work EXCEPT !.todo = fresh, !.known = disk,
                                          !.listed = {id \in fresh : Present(id)}]
                  /\ Goto("ingestPut")
    /\ touched' = {}
    /\ UNCHANGED <<diskVars, cache, phase, boot, ramVars>>

IngestPut(t, id) ==
    /\ At(t, "ingestPut") /\ id \in work.todo /\ CanWrite
    /\ disk' = [disk EXCEPT ![id] = Written(call[t].txt)]
    /\ born' = born \cup {id}
    /\ work' = [work EXCEPT !.todo = @ \ {id}, !.seen[id] = Written(call[t].txt)]
    /\ Tick /\ UNCHANGED trash
    /\ Goto("ingestPut")
    /\ UNCHANGED <<cache, phase, boot, ramVars, touched>>

IngestPutFails(t, id) ==
    /\ At(t, "ingestPut") /\ id \in work.todo
    /\ work' = [work EXCEPT !.todo = @ \ {id}, !.changed = TRUE]
    /\ Goto("ingestPut")
    /\ UNCHANGED <<diskVars, cache, phase, boot, ramVars, touched>>

(* Fault: files the batch was to replace are unlinked like those it created. *)
IngestRollback_All(t) ==
    /\ At(t, "ingestPut") /\ work.todo = {} /\ work.changed
    /\ disk' = [id \in Ids |-> IF work.seen[id] # None THEN None ELSE disk[id]]
    /\ Release(t, FALSE)
    /\ UNCHANGED <<trash, born, clock, cache, phase, boot, ramVars, touched>>

IngestRollback(t) ==
    /\ At(t, "ingestPut") /\ work.todo = {} /\ work.changed
    /\ LET created == {id \in Ids : work.seen[id] # None} \ work.listed
       IN  disk' = [id \in Ids |-> IF id \in created THEN None ELSE disk[id]]
    /\ Release(t, FALSE)
    /\ UNCHANGED <<trash, born, clock, cache, phase, boot, ramVars, touched>>

(* Fault: settled is taken for fulfilled.                                   *)
IngestSettled_Anyway(t) ==
    /\ At(t, "ingestPut") /\ work.todo = {}
    /\ RegisterAll(index)
    /\ Release(t, TRUE)
    /\ UNCHANGED <<diskVars, cache, phase, boot, touched>>

IngestSettled(t) ==
    /\ At(t, "ingestPut") /\ work.todo = {} /\ ~work.changed
    /\ RegisterAll(index)
    /\ Release(t, TRUE)
    /\ UNCHANGED <<diskVars, cache, phase, boot, touched>>

(***************************************************************************)
(* updateMemento: read with the etag, write if the etag still matches,      *)
(* replace the chunks of the version that was read.                         *)
(***************************************************************************)

Unregister(ids) ==
    LET keys == UNION {ChunkKeys(id, meta[id].of) : id \in ids}
    IN  /\ meta'  = [id \in Ids |-> IF id \in ids THEN None ELSE meta[id]]
        /\ index' = Remove(index, keys)

(* readMemento on a missing file drops the memento from RAM.                *)
Reconcile(id) ==
    /\ Unregister({id} \cap InRam)
    /\ touched' = touched \cup {id}
    /\ UNCHANGED dirty

UpdateRead(t) ==
    /\ At(t, "update")
    /\ \E id \in call[t].ids :
          \/ /\ ~Present(id)
             /\ Reconcile(id)
             /\ Release(t, FALSE)
          \/ /\ Present(id) /\ ~Readable(id)
             /\ Release(t, FALSE)
             /\ UNCHANGED <<ramVars, touched>>
          \/ /\ Readable(id)
             /\ work' = [work EXCEPT !.known[id] = disk[id]]
             /\ Goto("updateCheck")
             /\ UNCHANGED <<ramVars, touched>>
    /\ UNCHANGED <<diskVars, cache, phase, boot>>

(* assertIfMatch: the file read again still has the etag.                   *)
UpdateCheck(t) ==
    /\ At(t, "updateCheck")
    /\ \E id \in call[t].ids :
          IF disk[id] = work.known[id]
            THEN Goto("updatePut") /\ UNCHANGED work
            ELSE Release(t, FALSE)
    /\ touched' = {}
    /\ UNCHANGED <<diskVars, cache, phase, boot, ramVars>>

UpdatePut(t) ==
    /\ At(t, "updatePut") /\ CanWrite
    /\ \E id \in call[t].ids :
          /\ disk' = [disk EXCEPT ![id] = Written(call[t].txt)]
          /\ work' = [work EXCEPT !.seen[id] = Written(call[t].txt)]
    /\ Tick /\ UNCHANGED <<trash, born>>
    /\ Goto("updateRegister")
    /\ UNCHANGED <<cache, phase, boot, ramVars, touched>>

(* Fault: the new chunks are added before the old ones are dropped.         *)
UpdateRegister_AddFirst(t) ==
    /\ At(t, "updateRegister")
    /\ \E id \in call[t].ids :
          /\ Register(id, work.seen[id], work.seen[id])
          /\ index' = Remove(Add(index, OneChunked(id, work.seen[id])),
                             ChunkKeys(id, work.known[id]))
    /\ dirty' = TRUE
    /\ Release(t, TRUE)
    /\ UNCHANGED <<diskVars, cache, phase, boot, touched>>

(* Fault: the chunks dropped are counted on the new text.                   *)
UpdateRegister_NewCount(t) ==
    /\ At(t, "updateRegister")
    /\ \E id \in call[t].ids : RegisterAll(Remove(index, ChunkKeys(id, work.seen[id])))
    /\ Release(t, TRUE)
    /\ UNCHANGED <<diskVars, cache, phase, boot, touched>>

UpdateRegister(t) ==
    /\ At(t, "updateRegister")
    /\ \E id \in call[t].ids : RegisterAll(Remove(index, ChunkKeys(id, work.known[id])))
    /\ Release(t, TRUE)
    /\ UNCHANGED <<diskVars, cache, phase, boot, touched>>

(***************************************************************************)
(* deleteMemento: only a memento RAM knows; the file first, then RAM.       *)
(***************************************************************************)

DeleteCheck(t) ==
    /\ At(t, "delete")
    /\ \E id \in call[t].ids :
          IF id \in InRam
            THEN /\ work' = [work EXCEPT !.known[id] = meta[id].of]
                 /\ Goto("deleteDo")
            ELSE Release(t, FALSE)
    /\ UNCHANGED <<diskVars, cache, phase, boot, ramVars, touched>>

DeleteDo(t) ==
    /\ At(t, "deleteDo")
    /\ \E id \in call[t].ids : disk' = [disk EXCEPT ![id] = None]
    /\ Goto("deleteRegister")
    /\ UNCHANGED <<trash, born, clock, cache, phase, boot, ramVars, work, touched>>

(* Fault: the metadata goes, the chunks stay in the index.                  *)
DeleteRegister_MetaOnly(t) ==
    /\ At(t, "deleteRegister")
    /\ \E id \in call[t].ids : meta' = [meta EXCEPT ![id] = None]
    /\ dirty' = TRUE
    /\ Release(t, TRUE)
    /\ UNCHANGED <<diskVars, cache, phase, boot, index, touched>>

DeleteRegister(t) ==
    /\ At(t, "deleteRegister")
    /\ \E id \in call[t].ids :
          /\ meta'  = [meta EXCEPT ![id] = None]
          /\ index' = Remove(index, ChunkKeys(id, work.known[id]))
    /\ dirty' = TRUE
    /\ Release(t, TRUE)
    /\ UNCHANGED <<diskVars, cache, phase, boot, touched>>

(***************************************************************************)
(* doSync: list the directory, reload what is new or changed, drop what is  *)
(* gone.  Each file is statted before it is read.                           *)
(***************************************************************************)

SyncList(t) ==
    /\ At(t, "sync")
    /\ LET files == {id \in Ids : Present(id)}
       IN  work' = [NoWork EXCEPT !.todo = files, !.listed = files, !.known = meta]
    /\ Goto("syncFiles")
    /\ touched' = {}
    /\ UNCHANGED <<diskVars, cache, phase, boot, ramVars>>

SyncStat(t, id) ==
    /\ At(t, "syncFiles") /\ id \in work.todo
    /\ LET known   == work.known[id]
           changed == Present(id) /\ (known = None \/ known.mtime # disk[id])
       IN  work' = [work EXCEPT !.todo = @ \ {id},
                                !.seen[id] = IF changed THEN disk[id] ELSE None]
    /\ Goto("syncFiles")
    /\ UNCHANGED <<diskVars, cache, phase, boot, ramVars, touched>>

(* A file that cannot be read or authenticated keeps its old RAM entry.     *)
SyncLoad(t, id) ==
    /\ At(t, "syncFiles") /\ work.seen[id] # None
    /\ IF Readable(id)
         THEN LET old == IF work.known[id] = None THEN {}
                         ELSE ChunkKeys(id, work.known[id].of)
              IN  /\ index' = Add(Remove(index, old), OneChunked(id, disk[id]))
                  /\ Register(id, disk[id], work.seen[id])
                  /\ work' = [work EXCEPT !.seen[id] = None, !.changed = TRUE]
         ELSE /\ work' = [work EXCEPT !.seen[id] = None]
              /\ UNCHANGED <<meta, index>>
    /\ Goto("syncFiles")
    /\ UNCHANGED <<diskVars, cache, phase, boot, dirty, touched>>

(* Fault: mementos whose file is gone stay in RAM.                          *)
SyncPrune_KeepsGone(t) ==
    /\ At(t, "syncFiles") /\ work.todo = {} /\ work.seen = NoIds
    /\ dirty' = (dirty \/ work.changed)
    /\ Release(t, TRUE)
    /\ UNCHANGED <<diskVars, cache, phase, boot, meta, index, touched>>

SyncPrune(t) ==
    /\ At(t, "syncFiles") /\ work.todo = {} /\ work.seen = NoIds
    /\ Unregister(InRam \ work.listed)
    /\ dirty' = (dirty \/ work.changed \/ InRam \ work.listed # {})
    /\ Release(t, TRUE)
    /\ UNCHANGED <<diskVars, cache, phase, boot, touched>>

(***************************************************************************)
(* flushCache: snapshot the entries, serialize the index (the native graph  *)
(* first, its names after two awaits), write the file.  A failed save is    *)
(* swallowed and still clears the dirty flag.                               *)
(***************************************************************************)

FlushCheck(t) ==
    /\ At(t, "flush")
    /\ IF dirty
         THEN work' = [work EXCEPT !.entries = Entries] /\ Goto("flushGraph")
         ELSE Release(t, TRUE)
    /\ UNCHANGED <<diskVars, cache, phase, boot, ramVars, touched>>

FlushGraph(t) ==
    /\ At(t, "flushGraph")
    /\ work' = [work EXCEPT !.native = index.native]
    /\ Goto("flushNames")
    /\ UNCHANGED <<diskVars, cache, phase, boot, ramVars, touched>>

FlushNames(t) ==
    /\ At(t, "flushNames")
    /\ work' = [work EXCEPT !.names = index.numToStr]
    /\ Goto("flushWrite")
    /\ UNCHANGED <<diskVars, cache, phase, boot, ramVars, touched>>

FlushWrite(t) ==
    /\ At(t, "flushWrite")
    /\ cache' = [entries |-> work.entries, native |-> work.native, names |-> work.names]
    /\ dirty' = FALSE
    /\ Release(t, TRUE)
    /\ UNCHANGED <<diskVars, phase, boot, meta, index, touched>>

FlushFails(t) ==
    /\ lock = t /\ stage \in {"flushGraph", "flushNames", "flushWrite"}
    /\ dirty' = FALSE
    /\ Release(t, TRUE)
    /\ UNCHANGED <<diskVars, cache, phase, boot, meta, index, touched>>

(***************************************************************************)
(* readMemento outside the lock, which every read goes through.             *)
(***************************************************************************)

ReadHit(t) ==
    /\ pc[t] = "go" /\ call[t].op = "read"
    /\ \E id \in call[t].ids : Present(id)
    /\ EndOf(t, TRUE)
    /\ UNCHANGED <<diskVars, cache, phase, boot, ramVars, lockVars, touched>>

ReadMiss(t) ==
    /\ pc[t] = "go" /\ call[t].op = "read"
    /\ \E id \in call[t].ids : ~Present(id) /\ Reconcile(id)
    /\ EndOf(t, TRUE)
    /\ UNCHANGED <<diskVars, cache, phase, boot, lockVars>>

(* The file operations run on a thread pool: the miss may be delivered      *)
(* after the completions of operations that started later.                  *)
ReadMissLate(t) ==
    /\ LateMiss
    /\ pc[t] = "go" /\ call[t].op = "read"
    /\ \E id \in call[t].ids : ~Present(id)
    /\ pc' = [pc EXCEPT ![t] = "gone"]
    /\ UNCHANGED <<diskVars, cache, phase, boot, ramVars, lockVars, call, inFlightSync, touched>>

ReadGone(t) ==
    /\ pc[t] = "gone"
    /\ \E id \in call[t].ids : Reconcile(id)
    /\ EndOf(t, TRUE)
    /\ UNCHANGED <<diskVars, cache, phase, boot, lockVars>>

(***************************************************************************)
(* The directory as a sync client, another device or an editor changes it.  *)
(***************************************************************************)

Outside(id, kind) ==
    /\ kind \in EnvKinds
    /\ phase = "loading" => EnvAtBoot
    /\ touched' = touched \cup {id}
    /\ UNCHANGED <<cache, phase, boot, ramVars, lockVars, callVars>>

Arrives(id, x) ==
    /\ Outside(id, "create") /\ id \notin born /\ CanWrite
    /\ disk' = [disk EXCEPT ![id] = Written(x)] /\ born' = born \cup {id}
    /\ Tick /\ UNCHANGED trash

Edited(id, x) ==
    /\ Outside(id, "edit") /\ Present(id) /\ CanWrite
    /\ disk' = [disk EXCEPT ![id] = Written(x)]
    /\ Tick /\ UNCHANGED <<trash, born>>

Corrupted(id) ==
    /\ Outside(id, "corrupt") /\ Readable(id) /\ CanWrite
    /\ disk' = [disk EXCEPT ![id] = [at |-> clock + 1, txt |-> @.txt, ok |-> FALSE]]
    /\ Tick /\ UNCHANGED <<trash, born>>

Removed(id) ==
    /\ Outside(id, "delete") /\ Present(id)
    /\ disk' = [disk EXCEPT ![id] = None]
    /\ trash' = [trash EXCEPT ![id] = IF "restore" \in EnvKinds THEN disk[id] ELSE None]
    /\ UNCHANGED <<born, clock>>

(* A sync client puts a removed file back with its mtime preserved.         *)
Restored(id) ==
    /\ Outside(id, "restore") /\ ~Present(id) /\ trash[id] # None
    /\ disk' = [disk EXCEPT ![id] = trash[id]] /\ trash' = [trash EXCEPT ![id] = None]
    /\ UNCHANGED <<born, clock>>

(***************************************************************************)
(* Specification                                                            *)
(***************************************************************************)

Init ==
    /\ disk \in [Ids -> InitialFiles \cup {None}]
    /\ trash = NoIds
    /\ born = {id \in Ids : Present(id)}
    /\ clock = 0
    /\ cache = None
    /\ phase = "down" /\ boot = NoBoot
    /\ meta = NoIds /\ index = EmptyIndex /\ dirty = FALSE
    /\ lock = None /\ stage = "none" /\ work = NoWork
    /\ pc = [t \in Tasks |-> "idle"] /\ call = [t \in Tasks |-> NoCall]
    /\ inFlightSync = None
    /\ touched = {}

Boot == Startup \/ StartupDone \/ \E id \in Ids : LoadWarm(id) \/ LoadColdGet(id) \/ LoadColdStat(id)

Holder(t) ==
    \/ WriteCheck(t) \/ WritePut(t) \/ RegisterWritten(t)
    \/ IngestCheck(t) \/ IngestRollback(t) \/ IngestSettled(t)
    \/ \E id \in Ids : IngestPut(t, id) \/ IngestPutFails(t, id)
    \/ UpdateRead(t) \/ UpdateCheck(t) \/ UpdatePut(t) \/ UpdateRegister(t)
    \/ DeleteCheck(t) \/ DeleteDo(t) \/ DeleteRegister(t)
    \/ SyncList(t) \/ SyncPrune(t)
    \/ \E id \in Ids : SyncStat(t, id) \/ SyncLoad(t, id)
    \/ FlushCheck(t) \/ FlushGraph(t) \/ FlushNames(t) \/ FlushWrite(t) \/ FlushFails(t)
    \/ StorageFails(t)

Step(t) == Acquire(t) \/ Busy(t) \/ Holder(t) \/ ReadHit(t) \/ ReadMiss(t) \/ ReadMissLate(t) \/ ReadGone(t)

Environment ==
    \E id \in Ids :
       \/ Corrupted(id) \/ Removed(id) \/ Restored(id)
       \/ \E x \in Texts : Arrives(id, x) \/ Edited(id, x)

Next ==
    \/ Boot
    \/ Crash
    \/ Environment
    \/ \E t \in Tasks : Invoke(t) \/ Step(t)

Spec == Init /\ [][Next]_vars

(* The event loop runs every call that can run; callers, the outside and    *)
(* crashes owe nothing.                                                     *)
FairSpec == Spec /\ \A t \in Tasks : WF_vars(Step(t))

(***************************************************************************)
(* Properties                                                               *)
(***************************************************************************)

Stages == {"none", "write", "writePut", "register", "ingest", "ingestPut", "update",
           "updateCheck", "updatePut", "updateRegister", "delete", "deleteDo",
           "deleteRegister", "sync", "syncFiles", "flush", "flushGraph", "flushNames",
           "flushWrite"}

MaybeVersion == Version \cup {None}
MaybeMeta    == Meta \cup {None}
EntrySet     == SUBSET (Ids \X MaybeVersion)

Work == [seen : [Ids -> MaybeVersion], known : [Ids -> MaybeVersion \cup Meta],
         todo : SUBSET Ids, listed : SUBSET Ids, changed : BOOLEAN, entries : EntrySet,
         native : SUBSET Labels, names : SUBSET Labels]

DiskTypes ==
    /\ disk \in [Ids -> MaybeVersion] /\ trash \in [Ids -> MaybeVersion]
    /\ born \subseteq Ids /\ clock \in Nat

CacheType ==
    \/ cache = None
    \/ cache \in [entries : EntrySet, native : SUBSET Labels, names : SUBSET Labels]

BootTypes ==
    /\ phase \in {"down", "loading", "ready"}
    /\ boot \in [warm : BOOLEAN, todo : SUBSET Ids, got : [Ids -> MaybeVersion],
                 mtimes : [Ids -> MaybeVersion], failed : SUBSET Ids]
    /\ touched \subseteq Ids

RamTypes == meta \in [Ids -> MaybeMeta] /\ index \in Index /\ dirty \in BOOLEAN

LockTypes ==
    /\ lock \in Tasks \cup {None} /\ stage \in Stages /\ work \in Work
    /\ lock = None => stage = "none" /\ work = NoWork

CallTypes ==
    /\ pc \in [Tasks -> {"idle", "go", "lead", "join", "gone"}]
    /\ call \in [Tasks -> [op : AllOps \cup {"none"}, ids : SUBSET Ids,
                           txt : Texts \cup {None}]]
    /\ inFlightSync \in Tasks \cup {None}

TypeOK == DiskTypes /\ CacheType /\ BootTypes /\ RamTypes /\ LockTypes /\ CallTypes

(* The startup comment's "index <-> metaById in lockstep": once the vault   *)
(* serves calls, the keys the index holds are exactly the chunk keys of the *)
(* mementos RAM knows, and every native label has a name.  A key too many is *)
(* a memento recall ranks and cannot read; a label without a name is an      *)
(* exception of mapResults for the whole query.                             *)
Lockstep ==
    /\ phase = "ready" =>
           {k \in Key : index.strToNum[k] # None}
             = UNION {ChunkKeys(id, meta[id].of) : id \in InRam}
    /\ index.native \subseteq index.numToStr

(* Every memento RAM knows is searchable by every chunk of the version it   *)
(* was registered with, whatever order reads, syncs and writes came in.     *)
RegisteredIsIndexed ==
    phase = "ready" =>
        \A id \in InRam : \A k \in ChunkKeys(id, meta[id].of) :
            index.strToNum[k] = meta[id].of

(* A cache file that the next startup would accept restores exactly the     *)
(* index a cold startup would build from the files.                         *)
CacheSound ==
    (cache # None /\ cache.entries = DiskEntries) =>
        LET ix == Load(cache.names, cache.native)
            k2v == UNION {{<<k, disk[id]>> : k \in ChunkKeys(id, disk[id])} :
                            id \in {i \in Ids : Present(i)}}
        IN  ix.numToStr = k2v /\ ix.native = k2v

(* What the duplicate check of a write found is still true when the memento *)
(* is registered, two awaits later: nobody else indexes the text meanwhile. *)
NoDuplicateWrite ==
    (stage \in {"writePut", "register"}) => ~ Duplicate(call[lock].txt)

(* A sync, or a startup, that nobody disturbed leaves RAM equal to the      *)
(* readable files: ids changed by the outside or dropped by a concurrent    *)
(* read since the listing are excused, an unreadable file keeps its entry.  *)
Mirrors(id) ==
    /\ Readable(id) => meta'[id] # None /\ meta'[id].of = disk[id]
    /\ ~Present(id) => meta'[id] = None

MirrorsDisk ==
    [][(((stage = "syncFiles" /\ stage' = "none") \/ phase = "loading") /\ phase' = "ready")
         => \A id \in Ids \ touched : Mirrors(id)]_vars

(* An ingest ends with every memento it was given in RAM and searchable, or *)
(* with RAM as it was ("a throw leaves disk and RAM both at 'nothing        *)
(* written'"); mementos a concurrent read found gone are excused.           *)
IngestComplete ==
    [][(stage = "ingestPut" /\ stage' = "none" /\ phase' = "ready" /\ <<meta, index>>' # <<meta, index>>)
         => \A id \in call[lock].ids \ touched :
               /\ meta'[id] # None
               /\ \A k \in ChunkKeys(id, meta'[id].of) : index'.strToNum[k] # None]_vars

(* A batch that fails leaves the directory as it found it, but for the      *)
(* content of files it was to replace: what it created is gone, what was    *)
(* there is still there (putBatch: rollback "unlinks ONLY files that did    *)
(* not exist before this batch").  Files changed from outside meanwhile are *)
(* excused.                                                                 *)
BatchUndone ==
    [][(stage = "ingestPut" /\ stage' = "none" /\ phase' = "ready" /\ <<meta, index>>' = <<meta, index>>)
         => \A id \in Ids \ touched :
               /\ (disk'[id] = None) = (work.known[id] = None)
               /\ (id \in call[lock].ids => id \in InRam) => disk'[id] = work.known[id]]_vars

(* RAM never records the mtime of one version for the content of another:   *)
(* otherwise no later sync reloads the file and the cache persists it.      *)
NoSilentStaleness ==
    \A id \in InRam : (Present(id) /\ meta[id].mtime = disk[id]) => meta[id].of = disk[id]

(* Every call ends, by finishing or by an error its caller sees.            *)
EveryCallReturns == \A t \in Tasks : (pc[t] # "idle") ~> (pc[t] = "idle")
=============================================================================
