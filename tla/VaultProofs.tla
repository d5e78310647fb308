---------------------------- MODULE VaultProofs -----------------------------
(***************************************************************************)
(* Theorems about Vault, for any number of mementos, texts and calls, any   *)
(* outside interference and any bound on the clock.                         *)
(***************************************************************************)
EXTENDS Vault, TLAPS

(***************************************************************************)
(* What the operators of ChunkIndex return, for every set of mementos and   *)
(* every way texts are split.                                               *)
(***************************************************************************)

(* The chunk keys of a version are keys.                                    *)
LEMMA ChunkKeysType ==
    ASSUME NEW id \in Ids, NEW v \in Version
    PROVE  ChunkKeys(id, v) \subseteq Key
<1>1. Size[v.txt] \in 1..MaxChunks /\ MaxChunks \in Nat
  BY SizeAssumption DEF Version
<1>2. \A i \in 0..(Size[v.txt] - 1) : i \in 0..(MaxChunks - 1)
  BY <1>1
<1> QED BY <1>2 DEF ChunkKeys, Key

(* The empty index is an index.                                             *)
LEMMA EmptyIndexType == EmptyIndex \in Index
BY DEF EmptyIndex, Index

(* add() keeps the index an index.                                          *)
LEMMA AddType ==
    ASSUME NEW ix \in Index, NEW f,
           DOMAIN f \subseteq Key, \A k \in DOMAIN f : f[k] \in Version
    PROVE  Add(ix, f) \in Index
<1> DEFINE new == {<<k, f[k]>> : k \in DOMAIN f}
           num == [k \in Key |-> IF k \in DOMAIN f THEN f[k] ELSE ix.strToNum[k]]
<1>1. new \subseteq Labels
  BY DEF Labels
<1>2. ix.strToNum \in [Key -> Version \cup {None}] /\ ix.numToStr \subseteq Labels /\ ix.native \subseteq Labels
  BY DEF Index
<1>3. num \in [Key -> Version \cup {None}]
  BY <1>2
<1>4. Add(ix, f) = [strToNum |-> num, numToStr |-> ix.numToStr \cup new, native |-> ix.native \cup new]
  BY DEF Add
<1> HIDE DEF new, num
<1> QED BY <1>1, <1>2, <1>3, <1>4 DEF Index

(* remove() keeps the index an index, and neither names nor revives a label.*)
LEMMA RemoveType ==
    ASSUME NEW ix \in Index, NEW keys
    PROVE  /\ Remove(ix, keys) \in Index
           /\ Remove(ix, keys).native \subseteq ix.native
           /\ Remove(ix, keys).numToStr \subseteq ix.numToStr
           /\ \A k \in Key : Remove(ix, keys).strToNum[k] # None => ix.strToNum[k] # None
<1> DEFINE gone == {<<k, ix.strToNum[k]>> : k \in keys}
           num  == [k \in Key |-> IF k \in keys THEN None ELSE ix.strToNum[k]]
<1>1. ix.strToNum \in [Key -> Version \cup {None}] /\ ix.numToStr \subseteq Labels /\ ix.native \subseteq Labels
  BY DEF Index
<1>2. num \in [Key -> Version \cup {None}]
  BY <1>1
<1>3. Remove(ix, keys) = [strToNum |-> num, numToStr |-> ix.numToStr \ gone, native |-> ix.native \ gone]
  BY DEF Remove
<1>4. \A k \in Key : num[k] # None => ix.strToNum[k] # None
  OBVIOUS
<1> HIDE DEF gone, num
<1> QED BY <1>1, <1>2, <1>3, <1>4 DEF Index

(* What load() makes of a cache file is an index.                           *)
LEMMA LoadType ==
    ASSUME NEW names \in SUBSET Labels, NEW graph \in SUBSET Labels
    PROVE  Load(names, graph) \in Index
<1>1. ASSUME NEW k \in Key
      PROVE  NewestOf(names, k) \in Version \cup {None}
  <2> DEFINE vs   == {l[2] : l \in {m \in names : m[1] = k}}
             last == {v \in vs : \A w \in vs : w.at <= v.at}
  <2>1. vs \subseteq Version
    BY DEF Labels
  <2>2. NewestOf(names, k) = IF last = {} THEN None ELSE CHOOSE v \in last : TRUE
    BY DEF NewestOf
  <2>3. last \subseteq Version
    BY <2>1
  <2> HIDE DEF vs, last
  <2> QED BY <2>2, <2>3
<1> QED BY <1>1 DEF Load, Index

(***************************************************************************)
(* The inductive invariant behind type correctness.  A text is written to   *)
(* disk several awaits after the call passed it, so that the version is a   *)
(* version rests on who holds the lock and in which stage of what.          *)
(***************************************************************************)

StagesOf(op) ==
    CASE op = "write"  -> {"write", "writePut", "register"}
      [] op = "ingest" -> {"ingest", "ingestPut"}
      [] op = "update" -> {"update", "updateCheck", "updatePut", "updateRegister"}
      [] op = "delete" -> {"delete", "deleteDo", "deleteRegister"}
      [] op = "sync"   -> {"sync", "syncFiles"}
      [] op = "flush"  -> {"flush", "flushGraph", "flushNames", "flushWrite"}
      [] OTHER         -> {}

CallInv ==
    \A t \in Tasks :
       /\ call[t].op \in {"write", "ingest", "update"} => call[t].txt \in Texts
       /\ call[t].op \in {"update", "delete", "read"} => \E id \in Ids : call[t].ids = {id}

HolderInv ==
    lock # None => phase = "ready" /\ Waiting(lock) /\ stage \in StagesOf(Wants(lock))

ReadyInv == phase # "ready" => \A t \in Tasks : pc[t] = "idle"

IInv == TypeOK /\ CallInv /\ HolderInv /\ ReadyInv

(***************************************************************************)
(* Facts every action uses.                                                 *)
(***************************************************************************)

LEMMA NoneIsNoTask == \A t \in Tasks : t # None
BY VaultAssumption

LEMMA NoWorkType == NoWork \in Work
BY DEF NoWork, Work, NoIds, MaybeVersion, EntrySet

LEMMA NoBootType ==
    NoBoot \in [warm : BOOLEAN, todo : SUBSET Ids, got : [Ids -> MaybeVersion],
                mtimes : [Ids -> MaybeVersion], failed : SUBSET Ids]
BY DEF NoBoot, NoIds, MaybeVersion

LEMMA NoCallType == NoCall \in [op : AllOps \cup {"none"}, ids : SUBSET Ids, txt : Texts \cup {None}]
BY DEF NoCall

(* The version a write produces.                                            *)
LEMMA WrittenType ==
    ASSUME clock \in Nat, NEW x \in Texts
    PROVE  Written(x) \in Version
BY DEF Written, Version

(* When a call ends, its own place and those of the calls that joined its   *)
(* sync change; every other call stays where it is.                         *)
LEMMA EndOfKeeps ==
    ASSUME CallTypes, CallInv, NEW t \in Tasks, NEW ok \in BOOLEAN, EndOf(t, ok)
    PROVE  /\ CallTypes' /\ CallInv'
           /\ \A u \in Tasks : u # t /\ pc[u] # "join" => pc'[u] = pc[u] /\ call'[u] = call[u]
<1>1. \A u \in Tasks : pc'[u] = pc[u] \/ pc'[u] \in {"go", "idle"}
  BY DEF EndOf, CallTypes
<1>2. \A u \in Tasks : call'[u] = call[u] \/ call'[u] = NoCall
  BY DEF EndOf, CallTypes
<1>3. CallTypes'
  BY <1>1, <1>2, NoCallType DEF EndOf, CallTypes
<1>4. CallInv'
  BY <1>2 DEF CallInv, NoCall
<1>5. \A u \in Tasks : u # t /\ pc[u] # "join" => pc'[u] = pc[u] /\ call'[u] = call[u]
  BY DEF EndOf, CallTypes
<1> QED BY <1>3, <1>4, <1>5

LEMMA ReleaseKeeps ==
    ASSUME IInv, NEW t \in Tasks, NEW ok \in BOOLEAN, lock = t, Release(t, ok),
           UNCHANGED phase
    PROVE  LockTypes' /\ CallTypes' /\ CallInv' /\ HolderInv' /\ ReadyInv'
<1>1. CallTypes' /\ CallInv'
  BY EndOfKeeps DEF IInv, TypeOK, Release
<1>2. LockTypes'
  BY NoWorkType DEF Release, LockTypes, Stages
<1>3. HolderInv'
  BY DEF Release, HolderInv
<1>4. ReadyInv'
  BY NoneIsNoTask DEF IInv, HolderInv, ReadyInv
<1> QED BY <1>1, <1>2, <1>3, <1>4

LEMMA GotoKeeps ==
    ASSUME IInv, NEW s \in Stages, lock # None, Goto(s), UNCHANGED phase,
           s \in StagesOf(Wants(lock)), work' \in Work
    PROVE  LockTypes' /\ CallTypes' /\ CallInv' /\ HolderInv' /\ ReadyInv'
<1>1. CallTypes'
  BY DEF IInv, TypeOK, CallTypes, Goto, callVars
<1>2. CallInv'
  BY DEF IInv, CallInv, Goto, callVars
<1>3. LockTypes'
  BY DEF IInv, TypeOK, LockTypes, Goto
<1>4. HolderInv'
  BY DEF IInv, HolderInv, Goto, callVars, Waiting, Wants
<1>5. ReadyInv'
  BY DEF IInv, HolderInv, ReadyInv
<1> QED BY <1>1, <1>2, <1>3, <1>4, <1>5

(* A call that ends without holding the lock leaves the holder alone.       *)
LEMMA OtherEndKeeps ==
    ASSUME IInv, NEW t \in Tasks, NEW ok \in BOOLEAN, EndOf(t, ok), lock # t,
           pc[t] # "idle", UNCHANGED <<lockVars, phase>>
    PROVE  LockTypes' /\ CallTypes' /\ CallInv' /\ HolderInv' /\ ReadyInv'
<1>1. CallTypes' /\ CallInv'
  BY EndOfKeeps DEF IInv, TypeOK
<1>2. LockTypes'
  BY DEF IInv, TypeOK, LockTypes, lockVars
<1>3. ASSUME lock # None
      PROVE  pc'[lock] = pc[lock] /\ call'[lock] = call[lock]
  <2>1. lock \in Tasks /\ pc[lock] # "join"
    BY <1>3 DEF IInv, TypeOK, LockTypes, HolderInv, Waiting
  <2> QED BY <2>1, EndOfKeeps DEF IInv, TypeOK
<1>4. HolderInv'
  BY <1>3 DEF IInv, HolderInv, Waiting, Wants, lockVars
<1>5. ReadyInv'
  BY DEF IInv, ReadyInv
<1> QED BY <1>1, <1>2, <1>4, <1>5

(***************************************************************************)
(* The initial states, startup, crashes and the outside.                    *)
(***************************************************************************)

LEMMA InitInv == Init => IInv
<1> SUFFICES ASSUME Init PROVE IInv
  OBVIOUS
<1>1. DiskTypes /\ CacheType
  BY VaultAssumption DEF Init, DiskTypes, CacheType, MaybeVersion, NoIds
<1>2. BootTypes /\ RamTypes
  BY NoBootType, EmptyIndexType DEF Init, BootTypes, RamTypes, NoIds, MaybeMeta
<1>3. LockTypes /\ CallTypes
  BY NoWorkType, NoCallType DEF Init, LockTypes, CallTypes, Stages
<1>4. CallInv /\ HolderInv /\ ReadyInv
  BY DEF Init, CallInv, HolderInv, ReadyInv, NoCall
<1> QED BY <1>1, <1>2, <1>3, <1>4 DEF IInv, TypeOK

(* Nobody holds the lock before the vault is ready.                         *)
LEMMA LoadingUnlocked == IInv /\ phase # "ready" => lock = None
BY DEF IInv, HolderInv

LEMMA BootKeeps ==
    ASSUME IInv, phase # "ready", UNCHANGED <<diskVars, cache, lockVars, callVars>>,
           BootTypes', RamTypes'
    PROVE  IInv'
<1>1. DiskTypes' /\ CacheType'
  BY DEF IInv, TypeOK, DiskTypes, CacheType, diskVars
<1>2. LockTypes' /\ CallTypes'
  BY DEF IInv, TypeOK, LockTypes, CallTypes, lockVars, callVars
<1>3. CallInv' /\ HolderInv' /\ ReadyInv'
  BY LoadingUnlocked DEF IInv, CallInv, HolderInv, ReadyInv, lockVars, callVars
<1> QED BY <1>1, <1>2, <1>3 DEF IInv, TypeOK

LEMMA StartupInv == IInv /\ Startup => IInv'
<1> SUFFICES ASSUME IInv, Startup PROVE IInv'
  OBVIOUS
<1>1. cache # None => cache.names \in SUBSET Labels /\ cache.native \in SUBSET Labels
  BY DEF IInv, TypeOK, CacheType
<1>2. index' \in Index
  BY <1>1, LoadType, EmptyIndexType DEF Startup
<1>3. RamTypes'
  BY <1>2 DEF Startup, IInv, TypeOK, RamTypes
<1>4. BootTypes'
  <2>1. boot' \in [warm : BOOLEAN, todo : SUBSET Ids, got : [Ids -> MaybeVersion],
                   mtimes : [Ids -> MaybeVersion], failed : SUBSET Ids]
    BY DEF Startup, IInv, TypeOK, DiskTypes, NoBoot, NoIds, MaybeVersion
  <2> QED BY <2>1 DEF Startup, BootTypes
<1>5. phase # "ready" /\ UNCHANGED <<diskVars, cache, lockVars, callVars>>
  BY DEF Startup
<1> QED BY <1>3, <1>4, <1>5, BootKeeps

LEMMA LoadWarmInv == ASSUME IInv, NEW id \in Ids, LoadWarm(id) PROVE IInv'
<1>1. phase # "ready" /\ UNCHANGED <<diskVars, cache, lockVars, callVars>>
  BY DEF LoadWarm
<1>2. RamTypes'
  <2>1. disk[id] \in MaybeVersion /\ boot.mtimes[id] \in Version \cup {None}
    BY DEF IInv, TypeOK, DiskTypes, BootTypes, MaybeVersion
  <2>2. Readable(id) => [of |-> disk[id], mtime |-> boot.mtimes[id]] \in Meta
    BY <2>1 DEF Readable, Present, MaybeVersion, Meta
  <2>3. meta \in [Ids -> MaybeMeta] /\ index \in Index /\ dirty \in BOOLEAN
    BY DEF IInv, TypeOK, RamTypes
  <2>4. CASE Readable(id)
    BY <2>2, <2>3, <2>4 DEF LoadWarm, Register, RamTypes, MaybeMeta
  <2>5. CASE ~Readable(id)
    BY <2>3, <2>5 DEF LoadWarm, RamTypes
  <2> QED BY <2>4, <2>5
<1>3. BootTypes'
  <2>1. BootTypes
    BY DEF IInv, TypeOK
  <2>2. CASE Readable(id)
    BY <2>1, <2>2 DEF LoadWarm, BootTypes
  <2>3. CASE ~Readable(id)
    <3>1. boot.todo \ {id} \in SUBSET Ids /\ boot.failed \cup {id} \in SUBSET Ids
      BY <2>1 DEF BootTypes
    <3>2. boot' = [boot EXCEPT !.todo = boot.todo \ {id}, !.failed = boot.failed \cup {id}]
      BY <2>3 DEF LoadWarm
    <3>3. boot' \in [warm : BOOLEAN, todo : SUBSET Ids, got : [Ids -> MaybeVersion],
                     mtimes : [Ids -> MaybeVersion], failed : SUBSET Ids]
      BY <2>1, <3>1, <3>2 DEF BootTypes
    <3> QED BY <2>1, <3>3 DEF LoadWarm, BootTypes
  <2> QED BY <2>2, <2>3
<1> QED BY <1>1, <1>2, <1>3, BootKeeps

LEMMA LoadColdGetInv == ASSUME IInv, NEW id \in Ids, LoadColdGet(id) PROVE IInv'
<1>1. phase # "ready" /\ UNCHANGED <<diskVars, cache, lockVars, callVars>>
  BY DEF LoadColdGet
<1>2. RamTypes'
  BY DEF LoadColdGet, IInv, TypeOK, RamTypes, ramVars
<1>3. BootTypes'
  BY DEF LoadColdGet, IInv, TypeOK, BootTypes, DiskTypes, MaybeVersion
<1> QED BY <1>1, <1>2, <1>3, BootKeeps

LEMMA LoadColdStatInv == ASSUME IInv, NEW id \in Ids, LoadColdStat(id) PROVE IInv'
<1>1. phase # "ready" /\ UNCHANGED <<diskVars, cache, lockVars, callVars>>
  BY DEF LoadColdStat
<1>2. boot.got[id] \in Version
  BY DEF LoadColdStat, IInv, TypeOK, BootTypes, MaybeVersion
<1>3. index' \in Index
  BY <1>2, AddType, ChunkKeysType DEF LoadColdStat, OneChunked, IInv, TypeOK, RamTypes
<1>4. RamTypes'
  BY <1>2, <1>3 DEF LoadColdStat, Register, IInv, TypeOK, RamTypes, DiskTypes, MaybeMeta,
                    MaybeVersion, Meta
<1>5. BootTypes'
  BY DEF LoadColdStat, IInv, TypeOK, BootTypes, MaybeVersion
<1> QED BY <1>1, <1>4, <1>5, BootKeeps

LEMMA StartupDoneInv == IInv /\ StartupDone => IInv'
<1> SUFFICES ASSUME IInv, StartupDone PROVE IInv'
  OBVIOUS
<1>1. phase # "ready" /\ UNCHANGED <<diskVars, cache, lockVars, callVars>>
  BY DEF StartupDone
<1>2. RamTypes'
  BY RemoveType DEF StartupDone, RemoveMementos, IInv, TypeOK, RamTypes, BootTypes
<1>3. BootTypes'
  BY NoBootType DEF StartupDone, IInv, TypeOK, BootTypes
<1> QED BY <1>1, <1>2, <1>3, BootKeeps

LEMMA CrashInv == IInv /\ Crash => IInv'
<1> SUFFICES ASSUME IInv, Crash PROVE IInv'
  OBVIOUS
<1>1. DiskTypes' /\ CacheType'
  BY DEF Crash, IInv, TypeOK, DiskTypes, CacheType, diskVars
<1>2. BootTypes' /\ RamTypes'
  BY NoBootType, EmptyIndexType DEF Crash, BootTypes, RamTypes, NoIds, MaybeMeta
<1>3. LockTypes' /\ CallTypes'
  BY NoWorkType, NoCallType DEF Crash, LockTypes, CallTypes, Stages
<1>4. CallInv' /\ HolderInv' /\ ReadyInv'
  BY DEF Crash, CallInv, HolderInv, ReadyInv, NoCall
<1> QED BY <1>1, <1>2, <1>3, <1>4 DEF IInv, TypeOK

LEMMA OutsideKeeps ==
    ASSUME IInv, NEW id \in Ids, NEW kind, Outside(id, kind), DiskTypes'
    PROVE  IInv'
<1>1. CacheType' /\ RamTypes'
  BY DEF Outside, IInv, TypeOK, CacheType, RamTypes, ramVars
<1>2. BootTypes'
  BY DEF Outside, IInv, TypeOK, BootTypes
<1>3. LockTypes' /\ CallTypes'
  BY DEF Outside, IInv, TypeOK, LockTypes, CallTypes, lockVars, callVars
<1>4. CallInv' /\ HolderInv' /\ ReadyInv'
  BY DEF Outside, IInv, CallInv, HolderInv, ReadyInv, Waiting, Wants, lockVars, callVars
<1> QED BY <1>1, <1>2, <1>3, <1>4 DEF IInv, TypeOK

LEMMA EnvironmentInv == IInv /\ Environment => IInv'
<1> SUFFICES ASSUME IInv, NEW id \in Ids,
                    \/ Corrupted(id) \/ Removed(id) \/ Restored(id)
                    \/ \E x \in Texts : Arrives(id, x) \/ Edited(id, x)
             PROVE  IInv'
  BY DEF Environment
<1>1. DiskTypes
  BY DEF IInv, TypeOK
<1>2. CASE Corrupted(id)
  <2>1. [at |-> clock + 1, txt |-> disk[id].txt, ok |-> FALSE] \in Version
    <3>1. disk[id] \in Version /\ clock \in Nat
      BY <1>1, <1>2 DEF Corrupted, Readable, Present, DiskTypes, MaybeVersion
    <3> QED BY <3>1 DEF Version
  <2>2. DiskTypes'
    BY <1>1, <1>2, <2>1 DEF Corrupted, DiskTypes, MaybeVersion, Tick
  <2> QED BY <1>2, <2>2, OutsideKeeps DEF Corrupted
<1>3. CASE Removed(id)
  <2>1. DiskTypes'
    BY <1>1, <1>3 DEF Removed, DiskTypes, MaybeVersion
  <2> QED BY <1>3, <2>1, OutsideKeeps DEF Removed
<1>4. CASE Restored(id)
  <2>1. DiskTypes'
    BY <1>1, <1>4 DEF Restored, DiskTypes, MaybeVersion
  <2> QED BY <1>4, <2>1, OutsideKeeps DEF Restored
<1>5. ASSUME NEW x \in Texts, Arrives(id, x) PROVE IInv'
  <2>1. DiskTypes'
    BY <1>1, <1>5, WrittenType DEF Arrives, DiskTypes, MaybeVersion, Tick
  <2> QED BY <1>5, <2>1, OutsideKeeps DEF Arrives
<1>6. ASSUME NEW x \in Texts, Edited(id, x) PROVE IInv'
  <2>1. DiskTypes'
    BY <1>1, <1>6, WrittenType DEF Edited, DiskTypes, MaybeVersion, Tick
  <2> QED BY <1>6, <2>1, OutsideKeeps DEF Edited
<1> QED BY <1>2, <1>3, <1>4, <1>5, <1>6

(***************************************************************************)
(* Calls come, wait for the lock, read.                                     *)
(***************************************************************************)

(* Actions of calls leave the directory and the boot locals alone unless    *)
(* said otherwise.                                                          *)
LEMMA StillKeeps ==
    ASSUME IInv
    PROVE  /\ UNCHANGED diskVars => DiskTypes'
           /\ UNCHANGED cache => CacheType'
           /\ UNCHANGED <<phase, boot, touched>> => BootTypes'
           /\ UNCHANGED ramVars => RamTypes'
BY DEF IInv, TypeOK, DiskTypes, CacheType, BootTypes, RamTypes, diskVars, ramVars

LEMMA InvokeInv == ASSUME IInv, NEW t \in Tasks, Invoke(t) PROVE IInv'
<1>0. PICK op \in Ops : \E a \in Arguments(op) :
        call' = [call EXCEPT ![t] = [op |-> op, ids |-> a.ids, txt |-> a.txt]]
  BY DEF Invoke
<1>1. PICK a \in Arguments(op) :
        call' = [call EXCEPT ![t] = [op |-> op, ids |-> a.ids, txt |-> a.txt]]
  BY <1>0
<1>2. op \in AllOps
  BY VaultAssumption
<1>3. /\ a.ids \in SUBSET Ids /\ a.txt \in Texts \cup {None}
      /\ op \in {"write", "ingest", "update"} => a.txt \in Texts
      /\ op \in {"update", "delete", "read"} => \E id \in Ids : a.ids = {id}
  <2>1. CASE op = "write"
    BY <2>1 DEF Arguments
  <2>2. CASE op = "ingest"
    BY <2>2 DEF Arguments
  <2>3. CASE op = "update"
    BY <2>3 DEF Arguments
  <2>4. CASE op \in {"delete", "read"}
    BY <2>4 DEF Arguments
  <2>5. CASE op \in {"sync", "flush"}
    BY <2>5 DEF Arguments
  <2> QED BY <1>2, <2>1, <2>2, <2>3, <2>4, <2>5 DEF AllOps, LockedOps
<1>4. DiskTypes' /\ CacheType' /\ BootTypes' /\ RamTypes'
  BY StillKeeps DEF Invoke
<1>5. CallTypes'
  BY <1>1, <1>2, <1>3 DEF Invoke, IInv, TypeOK, CallTypes
<1>6. CallInv'
  <2>1. \A u \in Tasks : u # t => call'[u] = call[u]
    BY <1>1 DEF IInv, TypeOK, CallTypes
  <2>2. call'[t] = [op |-> op, ids |-> a.ids, txt |-> a.txt]
    BY <1>1 DEF IInv, TypeOK, CallTypes
  <2> QED BY <1>3, <2>1, <2>2 DEF IInv, CallInv
<1>7. LockTypes'
  BY DEF Invoke, IInv, TypeOK, LockTypes, lockVars
<1>8. HolderInv'
  <2>1. lock # None => lock \in Tasks /\ lock # t
    BY DEF Invoke, IInv, TypeOK, LockTypes, HolderInv, Waiting
  <2>2. lock # None => pc'[lock] = pc[lock] /\ call'[lock] = call[lock]
    BY <1>1, <2>1 DEF Invoke, IInv, TypeOK, CallTypes
  <2> QED BY <2>2 DEF Invoke, IInv, HolderInv, Waiting, Wants, lockVars
<1>9. ReadyInv'
  BY DEF Invoke, ReadyInv
<1> QED BY <1>4, <1>5, <1>6, <1>7, <1>8, <1>9 DEF IInv, TypeOK

LEMMA AcquireInv == ASSUME IInv, NEW t \in Tasks, Acquire(t) PROVE IInv'
<1>1. DiskTypes' /\ CacheType' /\ BootTypes' /\ RamTypes'
  BY StillKeeps DEF Acquire
<1>2. phase = "ready"
  BY DEF Acquire, Waiting, IInv, ReadyInv
<1>3. Wants(t) \in StagesOf(Wants(t)) /\ Wants(t) \in Stages
  BY DEF Acquire, Waiting, Wants, StagesOf, Stages, LockedOps
<1>4. CallTypes' /\ CallInv' /\ ReadyInv'
  BY DEF Acquire, IInv, TypeOK, CallTypes, CallInv, ReadyInv, callVars
<1>5. LockTypes'
  BY <1>3, NoneIsNoTask DEF Acquire, IInv, TypeOK, LockTypes
<1>6. HolderInv'
  BY <1>2, <1>3 DEF Acquire, HolderInv, Waiting, Wants, callVars
<1> QED BY <1>1, <1>4, <1>5, <1>6 DEF IInv, TypeOK

LEMMA BusyInv == ASSUME IInv, NEW t \in Tasks, Busy(t) PROVE IInv'
<1>1. DiskTypes' /\ CacheType' /\ BootTypes' /\ RamTypes'
  BY StillKeeps DEF Busy
<1>2. LockTypes' /\ CallTypes' /\ CallInv' /\ HolderInv' /\ ReadyInv'
  BY OtherEndKeeps DEF Busy, Waiting
<1> QED BY <1>1, <1>2 DEF IInv, TypeOK

(* Dropping mementos from RAM.                                              *)
LEMMA UnregisterType ==
    ASSUME RamTypes, NEW ids, Unregister(ids)
    PROVE  meta' \in [Ids -> MaybeMeta] /\ index' \in Index
BY RemoveType DEF Unregister, RamTypes, MaybeMeta

LEMMA ReconcileKeeps ==
    ASSUME IInv, NEW id \in Ids, Reconcile(id), UNCHANGED <<phase, boot>>
    PROVE  BootTypes' /\ RamTypes'
<1>1. RamTypes'
  BY UnregisterType DEF Reconcile, IInv, TypeOK, RamTypes
<1>2. BootTypes'
  BY DEF Reconcile, IInv, TypeOK, BootTypes
<1> QED BY <1>1, <1>2

(* A read does not hold the lock.                                           *)
LEMMA ReaderIsNotHolder ==
    ASSUME IInv, NEW t \in Tasks,
           \/ pc[t] = "go" /\ call[t].op = "read"
           \/ pc[t] = "gone"
    PROVE  lock # t
BY NoneIsNoTask DEF IInv, HolderInv, Waiting, LockedOps

LEMMA ReadHitInv == ASSUME IInv, NEW t \in Tasks, ReadHit(t) PROVE IInv'
<1>1. DiskTypes' /\ CacheType' /\ BootTypes' /\ RamTypes'
  BY StillKeeps DEF ReadHit
<1>2. LockTypes' /\ CallTypes' /\ CallInv' /\ HolderInv' /\ ReadyInv'
  BY OtherEndKeeps, ReaderIsNotHolder DEF ReadHit
<1> QED BY <1>1, <1>2 DEF IInv, TypeOK

LEMMA ReadMissInv == ASSUME IInv, NEW t \in Tasks, ReadMiss(t) PROVE IInv'
<1>1. PICK id \in call[t].ids : Reconcile(id)
  BY DEF ReadMiss
<1>2. id \in Ids
  BY DEF IInv, TypeOK, CallTypes
<1>3. DiskTypes' /\ CacheType'
  BY StillKeeps DEF ReadMiss
<1>4. BootTypes' /\ RamTypes'
  BY <1>1, <1>2, ReconcileKeeps DEF ReadMiss
<1>5. LockTypes' /\ CallTypes' /\ CallInv' /\ HolderInv' /\ ReadyInv'
  BY OtherEndKeeps, ReaderIsNotHolder DEF ReadMiss
<1> QED BY <1>3, <1>4, <1>5 DEF IInv, TypeOK

LEMMA ReadGoneInv == ASSUME IInv, NEW t \in Tasks, ReadGone(t) PROVE IInv'
<1>1. PICK id \in call[t].ids : Reconcile(id)
  BY DEF ReadGone
<1>2. id \in Ids
  BY DEF IInv, TypeOK, CallTypes
<1>3. DiskTypes' /\ CacheType'
  BY StillKeeps DEF ReadGone
<1>4. BootTypes' /\ RamTypes'
  BY <1>1, <1>2, ReconcileKeeps DEF ReadGone
<1>5. LockTypes' /\ CallTypes' /\ CallInv' /\ HolderInv' /\ ReadyInv'
  BY OtherEndKeeps, ReaderIsNotHolder DEF ReadGone
<1> QED BY <1>3, <1>4, <1>5 DEF IInv, TypeOK

LEMMA ReadMissLateInv == ASSUME IInv, NEW t \in Tasks, ReadMissLate(t) PROVE IInv'
<1>1. DiskTypes' /\ CacheType' /\ BootTypes' /\ RamTypes'
  BY StillKeeps DEF ReadMissLate
<1>2. CallTypes' /\ CallInv' /\ ReadyInv'
  BY DEF ReadMissLate, IInv, TypeOK, CallTypes, CallInv, ReadyInv
<1>3. LockTypes'
  BY DEF ReadMissLate, IInv, TypeOK, LockTypes, lockVars
<1>4. HolderInv'
  <2>1. lock # t
    BY ReaderIsNotHolder DEF ReadMissLate
  <2>2. lock # None => pc'[lock] = pc[lock]
    BY <2>1 DEF ReadMissLate, IInv, TypeOK, LockTypes, CallTypes
  <2> QED BY <2>2 DEF ReadMissLate, IInv, HolderInv, Waiting, Wants, lockVars
<1> QED BY <1>1, <1>2, <1>3, <1>4 DEF IInv, TypeOK

(***************************************************************************)
(* The holder of the lock.                                                  *)
(***************************************************************************)

(* The stage of the holder tells what it was called for.                    *)
LEMMA HolderIs ==
    ASSUME IInv, NEW t \in Tasks, lock = t
    PROVE  /\ phase = "ready" /\ Waiting(t) /\ lock # None
           /\ Wants(t) \in LockedOps /\ stage \in StagesOf(Wants(t))
<1>1. phase = "ready" /\ Waiting(t) /\ lock # None /\ stage \in StagesOf(Wants(t))
  BY NoneIsNoTask DEF IInv, HolderInv
<1>2. Wants(t) \in LockedOps
  BY <1>1 DEF Waiting, Wants, LockedOps
<1> QED BY <1>1, <1>2

LEMMA StageTellsOp ==
    ASSUME IInv, NEW t \in Tasks, lock = t
    PROVE  /\ stage \in {"write", "writePut", "register"}
                 => Wants(t) = "write" /\ call[t].op = "write" /\ call[t].txt \in Texts
           /\ stage \in {"ingest", "ingestPut"}
                 => Wants(t) = "ingest" /\ call[t].op = "ingest" /\ call[t].txt \in Texts
           /\ stage \in {"update", "updateCheck", "updatePut", "updateRegister"}
                 => Wants(t) = "update" /\ call[t].op = "update" /\ call[t].txt \in Texts
           /\ stage \in {"delete", "deleteDo", "deleteRegister"}
                 => Wants(t) = "delete" /\ call[t].op = "delete"
           /\ stage \in {"sync", "syncFiles"} => Wants(t) = "sync"
           /\ stage \in {"flush", "flushGraph", "flushNames", "flushWrite"} => Wants(t) = "flush"
<1>1. Wants(t) \in LockedOps /\ stage \in StagesOf(Wants(t))
  BY HolderIs
<1>2. Wants(t) # "sync" => call[t].op = Wants(t)
  BY DEF Wants
<1>3. call[t].op \in {"write", "ingest", "update"} => call[t].txt \in Texts
  BY DEF IInv, CallInv
<1> QED BY <1>1, <1>2, <1>3 DEF StagesOf, LockedOps

(* Registering what was written keeps the types.                            *)
LEMMA RegisterAllType ==
    ASSUME RamTypes, work \in Work, NEW ix \in Index, RegisterAll(ix)
    PROVE  RamTypes'
<1> DEFINE new  == {id \in Ids : work.seen[id] # None}
           keys == UNION {ChunkKeys(id, work.seen[id]) : id \in new}
           f    == [k \in keys |-> work.seen[k[1]]]
<1>1. \A id \in new : work.seen[id] \in Version
  BY DEF Work, MaybeVersion
<1>2. keys \subseteq Key
  BY <1>1, ChunkKeysType
<1>3. \A k \in keys : f[k] \in Version
  <2> SUFFICES ASSUME NEW id \in new, NEW k \in ChunkKeys(id, work.seen[id])
               PROVE  work.seen[k[1]] \in Version
    OBVIOUS
  <2>1. k[1] = id
    BY DEF ChunkKeys
  <2> QED BY <1>1, <2>1
<1>4. index' = Add(ix, f) /\ dirty' = TRUE
  BY DEF RegisterAll
<1>5. index' \in Index
  <2> HIDE DEF keys
  <2> QED BY <1>2, <1>3, <1>4, AddType
<1>6. meta' \in [Ids -> MaybeMeta]
  BY <1>1 DEF RegisterAll, RamTypes, MaybeMeta, Meta
<1> QED BY <1>4, <1>5, <1>6 DEF RamTypes

LEMMA WriteCheckInv == ASSUME IInv, NEW t \in Tasks, WriteCheck(t) PROVE IInv'
<1>1. DiskTypes' /\ CacheType' /\ BootTypes' /\ RamTypes'
  BY StillKeeps DEF WriteCheck
<1>2. LockTypes' /\ CallTypes' /\ CallInv' /\ HolderInv' /\ ReadyInv'
  <2>1. CASE Duplicate(call[t].txt)
    BY <2>1, ReleaseKeeps DEF WriteCheck, At
  <2>2. CASE ~Duplicate(call[t].txt)
    <3>1. lock = t /\ Goto("writePut") /\ work' = work /\ UNCHANGED phase /\ lock # None
      BY <2>2, NoneIsNoTask DEF WriteCheck, At
    <3>2. "writePut" \in StagesOf(Wants(t)) /\ "writePut" \in Stages /\ work' \in Work
      BY <3>1, StageTellsOp DEF WriteCheck, At, StagesOf, Stages, IInv, TypeOK, LockTypes
    <3> QED BY <3>1, <3>2, GotoKeeps
  <2> QED BY <2>1, <2>2
<1> QED BY <1>1, <1>2 DEF IInv, TypeOK

LEMMA WritePutInv == ASSUME IInv, NEW t \in Tasks, WritePut(t) PROVE IInv'
<1>1. PICK id \in Ids : /\ disk' = [disk EXCEPT ![id] = Written(call[t].txt)]
                        /\ born' = born \cup {id}
                        /\ work' = [work EXCEPT !.seen[id] = Written(call[t].txt)]
  BY DEF WritePut
<1>2. lock = t /\ stage = "writePut" /\ Goto("register") /\ UNCHANGED phase /\ lock # None
  BY NoneIsNoTask DEF WritePut, At
<1>3. call[t].txt \in Texts /\ Wants(t) = "write"
  BY <1>2, StageTellsOp
<1>4. Written(call[t].txt) \in Version
  BY <1>3, WrittenType DEF IInv, TypeOK, DiskTypes
<1>5. DiskTypes'
  BY <1>1, <1>4 DEF WritePut, Tick, IInv, TypeOK, DiskTypes, MaybeVersion
<1>6. CacheType' /\ BootTypes' /\ RamTypes'
  BY StillKeeps DEF WritePut
<1>7. work' \in Work
  BY <1>1, <1>4 DEF IInv, TypeOK, LockTypes, Work, MaybeVersion
<1>8. LockTypes' /\ CallTypes' /\ CallInv' /\ HolderInv' /\ ReadyInv'
  BY <1>2, <1>3, <1>7, GotoKeeps DEF StagesOf, Stages
<1> QED BY <1>5, <1>6, <1>8 DEF IInv, TypeOK

LEMMA RegisterWrittenInv == ASSUME IInv, NEW t \in Tasks, RegisterWritten(t) PROVE IInv'
<1>1. DiskTypes' /\ CacheType' /\ BootTypes'
  BY StillKeeps DEF RegisterWritten
<1>2. RamTypes'
  BY RegisterAllType DEF RegisterWritten, IInv, TypeOK, RamTypes, LockTypes
<1>3. LockTypes' /\ CallTypes' /\ CallInv' /\ HolderInv' /\ ReadyInv'
  BY ReleaseKeeps DEF RegisterWritten, At
<1> QED BY <1>1, <1>2, <1>3 DEF IInv, TypeOK

LEMMA IngestCheckInv == ASSUME IInv, NEW t \in Tasks, IngestCheck(t) PROVE IInv'
<1> DEFINE fresh == call[t].ids \ InRam
<1>1. DiskTypes' /\ CacheType' /\ RamTypes'
  BY StillKeeps DEF IngestCheck
<1>2. BootTypes'
  BY DEF IngestCheck, IInv, TypeOK, BootTypes
<1>3. LockTypes' /\ CallTypes' /\ CallInv' /\ HolderInv' /\ ReadyInv'
  <2>1. CASE fresh = {}
    BY <2>1, ReleaseKeeps DEF IngestCheck, At
  <2>2. CASE fresh # {}
    <3>1. /\ lock = t /\ stage = "ingest" /\ lock # None /\ Goto("ingestPut") /\ UNCHANGED phase
          /\ work' = [work EXCEPT !.todo = fresh, !.known = disk,
                                  !.listed = {id \in fresh : Present(id)}]
      BY <2>2, NoneIsNoTask DEF IngestCheck, At
    <3>2. fresh \in SUBSET Ids /\ {id \in fresh : Present(id)} \in SUBSET Ids
      BY DEF IInv, TypeOK, CallTypes
    <3>3. work' \in Work
      BY <3>1, <3>2 DEF IInv, TypeOK, LockTypes, DiskTypes, Work
    <3>4. "ingestPut" \in StagesOf(Wants(t)) /\ "ingestPut" \in Stages
      BY <3>1, StageTellsOp DEF StagesOf, Stages
    <3> QED BY <3>1, <3>3, <3>4, GotoKeeps
  <2> QED BY <2>1, <2>2
<1> QED BY <1>1, <1>2, <1>3 DEF IInv, TypeOK

LEMMA IngestPutInv == ASSUME IInv, NEW t \in Tasks, NEW id \in Ids, IngestPut(t, id) PROVE IInv'
<1>1. lock = t /\ stage = "ingestPut" /\ Goto("ingestPut") /\ UNCHANGED phase /\ lock # None
  BY NoneIsNoTask DEF IngestPut, At
<1>2. call[t].txt \in Texts /\ Wants(t) = "ingest"
  BY <1>1, StageTellsOp
<1>3. Written(call[t].txt) \in Version
  BY <1>2, WrittenType DEF IInv, TypeOK, DiskTypes
<1>4. DiskTypes'
  BY <1>3 DEF IngestPut, Tick, IInv, TypeOK, DiskTypes, MaybeVersion
<1>5. CacheType' /\ BootTypes' /\ RamTypes'
  BY StillKeeps DEF IngestPut
<1>6. work' \in Work
  <2>1. work' = [work EXCEPT !.todo = work.todo \ {id}, !.seen[id] = Written(call[t].txt)]
    BY DEF IngestPut
  <2>2. work.todo \ {id} \in SUBSET Ids
    BY DEF IInv, TypeOK, LockTypes, Work
  <2> QED BY <1>3, <2>1, <2>2 DEF IInv, TypeOK, LockTypes, Work, MaybeVersion
<1>7. LockTypes' /\ CallTypes' /\ CallInv' /\ HolderInv' /\ ReadyInv'
  BY <1>1, <1>2, <1>6, GotoKeeps DEF StagesOf, Stages
<1> QED BY <1>4, <1>5, <1>7 DEF IInv, TypeOK

LEMMA IngestPutFailsInv ==
    ASSUME IInv, NEW t \in Tasks, NEW id \in Ids, IngestPutFails(t, id) PROVE IInv'
<1>1. lock = t /\ stage = "ingestPut" /\ Goto("ingestPut") /\ UNCHANGED phase /\ lock # None
  BY NoneIsNoTask DEF IngestPutFails, At
<1>2. Wants(t) = "ingest"
  BY <1>1, StageTellsOp
<1>3. DiskTypes' /\ CacheType' /\ BootTypes' /\ RamTypes'
  BY StillKeeps DEF IngestPutFails
<1>4. work' \in Work
  BY DEF IngestPutFails, IInv, TypeOK, LockTypes, Work
<1>5. LockTypes' /\ CallTypes' /\ CallInv' /\ HolderInv' /\ ReadyInv'
  BY <1>1, <1>2, <1>4, GotoKeeps DEF StagesOf, Stages
<1> QED BY <1>3, <1>5 DEF IInv, TypeOK

LEMMA IngestRollbackInv == ASSUME IInv, NEW t \in Tasks, IngestRollback(t) PROVE IInv'
<1>1. DiskTypes'
  BY DEF IngestRollback, IInv, TypeOK, DiskTypes, MaybeVersion
<1>2. CacheType' /\ BootTypes' /\ RamTypes'
  BY StillKeeps DEF IngestRollback
<1>3. LockTypes' /\ CallTypes' /\ CallInv' /\ HolderInv' /\ ReadyInv'
  BY ReleaseKeeps DEF IngestRollback, At
<1> QED BY <1>1, <1>2, <1>3 DEF IInv, TypeOK

LEMMA IngestSettledInv == ASSUME IInv, NEW t \in Tasks, IngestSettled(t) PROVE IInv'
<1>1. DiskTypes' /\ CacheType' /\ BootTypes'
  BY StillKeeps DEF IngestSettled
<1>2. RamTypes'
  BY RegisterAllType DEF IngestSettled, IInv, TypeOK, RamTypes, LockTypes
<1>3. LockTypes' /\ CallTypes' /\ CallInv' /\ HolderInv' /\ ReadyInv'
  BY ReleaseKeeps DEF IngestSettled, At
<1> QED BY <1>1, <1>2, <1>3 DEF IInv, TypeOK

LEMMA UpdateReadInv == ASSUME IInv, NEW t \in Tasks, UpdateRead(t) PROVE IInv'
<1>1. PICK id \in call[t].ids :
          \/ ~Present(id) /\ Reconcile(id) /\ Release(t, FALSE)
          \/ Release(t, FALSE) /\ UNCHANGED <<ramVars, touched>>
          \/ /\ Readable(id) /\ work' = [work EXCEPT !.known[id] = disk[id]]
             /\ Goto("updateCheck") /\ UNCHANGED <<ramVars, touched>>
  BY DEF UpdateRead
<1>2. id \in Ids
  BY DEF IInv, TypeOK, CallTypes
<1>3. lock = t /\ stage = "update" /\ lock # None /\ UNCHANGED <<diskVars, cache, phase, boot>>
  BY NoneIsNoTask DEF UpdateRead, At
<1>4. DiskTypes' /\ CacheType'
  BY <1>3, StillKeeps
<1>5. CASE Reconcile(id) /\ Release(t, FALSE)
  BY <1>2, <1>3, <1>4, <1>5, ReconcileKeeps, ReleaseKeeps DEF IInv, TypeOK
<1>6. CASE Release(t, FALSE) /\ UNCHANGED <<ramVars, touched>>
  BY <1>3, <1>4, <1>6, StillKeeps, ReleaseKeeps DEF IInv, TypeOK
<1>7. CASE /\ work' = [work EXCEPT !.known[id] = disk[id]]
           /\ Goto("updateCheck") /\ UNCHANGED <<ramVars, touched>>
  <2>1. work' \in Work
    BY <1>2, <1>7 DEF IInv, TypeOK, DiskTypes, LockTypes, Work
  <2>2. "updateCheck" \in StagesOf(Wants(t)) /\ "updateCheck" \in Stages
    BY <1>3, StageTellsOp DEF StagesOf, Stages
  <2>3. BootTypes' /\ RamTypes'
    BY <1>3, <1>7, StillKeeps
  <2> QED BY <1>3, <1>4, <1>7, <2>1, <2>2, <2>3, GotoKeeps DEF IInv, TypeOK
<1> QED BY <1>1, <1>5, <1>6, <1>7

LEMMA UpdateCheckInv == ASSUME IInv, NEW t \in Tasks, UpdateCheck(t) PROVE IInv'
<1>1. \/ Goto("updatePut") /\ UNCHANGED work
      \/ Release(t, FALSE)
  BY DEF UpdateCheck
<1>2. lock = t /\ stage = "updateCheck" /\ lock # None /\ UNCHANGED phase
  BY NoneIsNoTask DEF UpdateCheck, At
<1>3. DiskTypes' /\ CacheType' /\ RamTypes'
  BY StillKeeps DEF UpdateCheck
<1>4. BootTypes'
  BY DEF UpdateCheck, IInv, TypeOK, BootTypes
<1>5. CASE Goto("updatePut") /\ UNCHANGED work
  <2>1. "updatePut" \in StagesOf(Wants(t)) /\ "updatePut" \in Stages /\ work' \in Work
    BY <1>2, <1>5, StageTellsOp DEF StagesOf, Stages, IInv, TypeOK, LockTypes
  <2> QED BY <1>2, <1>3, <1>4, <1>5, <2>1, GotoKeeps DEF IInv, TypeOK
<1>6. CASE Release(t, FALSE)
  BY <1>2, <1>3, <1>4, <1>6, ReleaseKeeps DEF IInv, TypeOK
<1> QED BY <1>1, <1>5, <1>6

LEMMA UpdatePutInv == ASSUME IInv, NEW t \in Tasks, UpdatePut(t) PROVE IInv'
<1>1. PICK id \in call[t].ids : /\ disk' = [disk EXCEPT ![id] = Written(call[t].txt)]
                                /\ work' = [work EXCEPT !.seen[id] = Written(call[t].txt)]
  BY DEF UpdatePut
<1>2. lock = t /\ stage = "updatePut" /\ Goto("updateRegister") /\ UNCHANGED phase /\ lock # None
  BY NoneIsNoTask DEF UpdatePut, At
<1>3. call[t].txt \in Texts /\ Wants(t) = "update"
  BY <1>2, StageTellsOp
<1>4. Written(call[t].txt) \in Version
  BY <1>3, WrittenType DEF IInv, TypeOK, DiskTypes
<1>5. DiskTypes'
  <2>1. disk' \in [Ids -> MaybeVersion]
    BY <1>1, <1>4 DEF IInv, TypeOK, DiskTypes, MaybeVersion
  <2> QED BY <2>1 DEF UpdatePut, Tick, IInv, TypeOK, DiskTypes
<1>6. CacheType' /\ BootTypes' /\ RamTypes'
  BY StillKeeps DEF UpdatePut
<1>7. work' \in Work
  BY <1>1, <1>4 DEF IInv, TypeOK, LockTypes, Work, MaybeVersion
<1>8. LockTypes' /\ CallTypes' /\ CallInv' /\ HolderInv' /\ ReadyInv'
  BY <1>2, <1>3, <1>7, GotoKeeps DEF StagesOf, Stages
<1> QED BY <1>5, <1>6, <1>8 DEF IInv, TypeOK

LEMMA UpdateRegisterInv == ASSUME IInv, NEW t \in Tasks, UpdateRegister(t) PROVE IInv'
<1>1. PICK id \in call[t].ids : RegisterAll(Remove(index, ChunkKeys(id, work.known[id])))
  BY DEF UpdateRegister
<1>2. DiskTypes' /\ CacheType' /\ BootTypes'
  BY StillKeeps DEF UpdateRegister
<1>3. RamTypes'
  <2>1. Remove(index, ChunkKeys(id, work.known[id])) \in Index
    BY RemoveType DEF IInv, TypeOK, RamTypes
  <2> QED BY <1>1, <2>1, RegisterAllType DEF IInv, TypeOK, LockTypes
<1>4. LockTypes' /\ CallTypes' /\ CallInv' /\ HolderInv' /\ ReadyInv'
  BY ReleaseKeeps DEF UpdateRegister, At
<1> QED BY <1>2, <1>3, <1>4 DEF IInv, TypeOK

LEMMA DeleteCheckInv == ASSUME IInv, NEW t \in Tasks, DeleteCheck(t) PROVE IInv'
<1>1. PICK id \in call[t].ids :
          \/ /\ id \in InRam /\ work' = [work EXCEPT !.known[id] = meta[id].of]
             /\ Goto("deleteDo")
          \/ Release(t, FALSE)
  BY DEF DeleteCheck
<1>2. id \in Ids
  BY DEF IInv, TypeOK, CallTypes
<1>3. lock = t /\ stage = "delete" /\ lock # None /\ UNCHANGED phase
  BY NoneIsNoTask DEF DeleteCheck, At
<1>4. DiskTypes' /\ CacheType' /\ BootTypes' /\ RamTypes'
  BY StillKeeps DEF DeleteCheck
<1>5. CASE /\ id \in InRam /\ work' = [work EXCEPT !.known[id] = meta[id].of]
           /\ Goto("deleteDo")
  <2>1. meta[id].of \in Version
    BY <1>2, <1>5 DEF InRam, IInv, TypeOK, RamTypes, MaybeMeta, Meta
  <2>2. work' \in Work
    BY <1>2, <1>5, <2>1 DEF IInv, TypeOK, LockTypes, Work, MaybeVersion
  <2>3. "deleteDo" \in StagesOf(Wants(t)) /\ "deleteDo" \in Stages
    BY <1>3, StageTellsOp DEF StagesOf, Stages
  <2> QED BY <1>3, <1>4, <1>5, <2>2, <2>3, GotoKeeps DEF IInv, TypeOK
<1>6. CASE Release(t, FALSE)
  BY <1>3, <1>4, <1>6, ReleaseKeeps DEF IInv, TypeOK
<1> QED BY <1>1, <1>5, <1>6

LEMMA DeleteDoInv == ASSUME IInv, NEW t \in Tasks, DeleteDo(t) PROVE IInv'
<1>1. DiskTypes'
  BY DEF DeleteDo, IInv, TypeOK, DiskTypes, MaybeVersion
<1>2. CacheType' /\ BootTypes' /\ RamTypes'
  BY StillKeeps DEF DeleteDo
<1>3. lock = t /\ stage = "deleteDo" /\ Goto("deleteRegister") /\ UNCHANGED phase /\ lock # None
  BY NoneIsNoTask DEF DeleteDo, At
<1>4. "deleteRegister" \in StagesOf(Wants(t)) /\ "deleteRegister" \in Stages /\ work' \in Work
  BY <1>3, StageTellsOp DEF DeleteDo, StagesOf, Stages, IInv, TypeOK, LockTypes
<1>5. LockTypes' /\ CallTypes' /\ CallInv' /\ HolderInv' /\ ReadyInv'
  BY <1>3, <1>4, GotoKeeps
<1> QED BY <1>1, <1>2, <1>5 DEF IInv, TypeOK

LEMMA DeleteRegisterInv == ASSUME IInv, NEW t \in Tasks, DeleteRegister(t) PROVE IInv'
<1>1. PICK id \in call[t].ids : /\ meta'  = [meta EXCEPT ![id] = None]
                                /\ index' = Remove(index, ChunkKeys(id, work.known[id]))
  BY DEF DeleteRegister
<1>2. DiskTypes' /\ CacheType' /\ BootTypes'
  BY StillKeeps DEF DeleteRegister
<1>3. RamTypes'
  BY <1>1, RemoveType DEF DeleteRegister, IInv, TypeOK, RamTypes, MaybeMeta
<1>4. LockTypes' /\ CallTypes' /\ CallInv' /\ HolderInv' /\ ReadyInv'
  BY ReleaseKeeps DEF DeleteRegister, At
<1> QED BY <1>2, <1>3, <1>4 DEF IInv, TypeOK

LEMMA SyncListInv == ASSUME IInv, NEW t \in Tasks, SyncList(t) PROVE IInv'
<1>1. lock = t /\ stage = "sync" /\ Goto("syncFiles") /\ UNCHANGED phase /\ lock # None
  BY NoneIsNoTask DEF SyncList, At
<1>2. work' \in Work
  BY NoWorkType DEF SyncList, IInv, TypeOK, RamTypes, Work, MaybeMeta, MaybeVersion
<1>3. "syncFiles" \in StagesOf(Wants(t)) /\ "syncFiles" \in Stages
  BY <1>1, StageTellsOp DEF StagesOf, Stages
<1>4. DiskTypes' /\ CacheType' /\ RamTypes'
  BY StillKeeps DEF SyncList
<1>5. BootTypes'
  BY DEF SyncList, IInv, TypeOK, BootTypes
<1> QED BY <1>1, <1>2, <1>3, <1>4, <1>5, GotoKeeps DEF IInv, TypeOK

LEMMA SyncStatInv == ASSUME IInv, NEW t \in Tasks, NEW id \in Ids, SyncStat(t, id) PROVE IInv'
<1>1. lock = t /\ stage = "syncFiles" /\ Goto("syncFiles") /\ UNCHANGED phase /\ lock # None
  BY NoneIsNoTask DEF SyncStat, At
<1>2. PICK v \in {disk[id], None} :
        work' = [work EXCEPT !.todo = work.todo \ {id}, !.seen[id] = v]
  BY DEF SyncStat
<1>3. v \in MaybeVersion /\ work.todo \ {id} \in SUBSET Ids
  BY DEF IInv, TypeOK, DiskTypes, LockTypes, Work, MaybeVersion
<1>4. work' \in Work
  BY <1>2, <1>3 DEF IInv, TypeOK, LockTypes, Work
<1>5. "syncFiles" \in StagesOf(Wants(t)) /\ "syncFiles" \in Stages
  BY <1>1, StageTellsOp DEF StagesOf, Stages
<1>6. DiskTypes' /\ CacheType' /\ BootTypes' /\ RamTypes'
  BY StillKeeps DEF SyncStat
<1> QED BY <1>1, <1>4, <1>5, <1>6, GotoKeeps DEF IInv, TypeOK

LEMMA SyncLoadInv == ASSUME IInv, NEW t \in Tasks, NEW id \in Ids, SyncLoad(t, id) PROVE IInv'
<1>1. lock = t /\ stage = "syncFiles" /\ Goto("syncFiles") /\ UNCHANGED phase /\ lock # None
  BY NoneIsNoTask DEF SyncLoad, At
<1>2. "syncFiles" \in StagesOf(Wants(t)) /\ "syncFiles" \in Stages
  BY <1>1, StageTellsOp DEF StagesOf, Stages
<1>3. DiskTypes' /\ CacheType' /\ BootTypes'
  BY StillKeeps DEF SyncLoad
<1>4. CASE Readable(id)
  <2> DEFINE old == IF work.known[id] = None THEN {} ELSE ChunkKeys(id, work.known[id].of)
  <2>1. disk[id] \in Version /\ work.seen[id] \in MaybeVersion
    BY <1>4 DEF Readable, Present, IInv, TypeOK, DiskTypes, LockTypes, Work, MaybeVersion
  <2>2. /\ index' = Add(Remove(index, old), OneChunked(id, disk[id]))
        /\ Register(id, disk[id], work.seen[id])
        /\ work' = [work EXCEPT !.seen[id] = None, !.changed = TRUE]
    BY <1>4 DEF SyncLoad
  <2>3. Remove(index, old) \in Index
    BY RemoveType DEF IInv, TypeOK, RamTypes
  <2>4. index' \in Index
    BY <2>1, <2>2, <2>3, AddType, ChunkKeysType DEF OneChunked
  <2>5. RamTypes'
    BY <2>1, <2>2, <2>4 DEF SyncLoad, Register, IInv, TypeOK, RamTypes, MaybeMeta, MaybeVersion, Meta
  <2>6. work' \in Work
    BY <2>2 DEF IInv, TypeOK, LockTypes, Work, MaybeVersion
  <2> QED BY <1>1, <1>2, <1>3, <2>5, <2>6, GotoKeeps DEF IInv, TypeOK
<1>5. CASE ~Readable(id)
  <2>1. work' \in Work
    BY <1>5 DEF SyncLoad, IInv, TypeOK, LockTypes, Work, MaybeVersion
  <2>2. RamTypes'
    BY <1>5 DEF SyncLoad, IInv, TypeOK, RamTypes
  <2> QED BY <1>1, <1>2, <1>3, <2>1, <2>2, GotoKeeps DEF IInv, TypeOK
<1> QED BY <1>4, <1>5

LEMMA SyncPruneInv == ASSUME IInv, NEW t \in Tasks, SyncPrune(t) PROVE IInv'
<1>1. DiskTypes' /\ CacheType' /\ BootTypes'
  BY StillKeeps DEF SyncPrune
<1>2. RamTypes'
  BY UnregisterType DEF SyncPrune, IInv, TypeOK, RamTypes
<1>3. LockTypes' /\ CallTypes' /\ CallInv' /\ HolderInv' /\ ReadyInv'
  BY ReleaseKeeps DEF SyncPrune, At
<1> QED BY <1>1, <1>2, <1>3 DEF IInv, TypeOK

(* The steps of a flush before the cache is written.                        *)
LEMMA FlushGoes ==
    ASSUME IInv, NEW t \in Tasks, lock = t, stage \in {"flush", "flushGraph", "flushNames"},
           NEW s \in {"flushGraph", "flushNames", "flushWrite"}, Goto(s), work' \in Work,
           UNCHANGED <<diskVars, cache, phase, boot, ramVars, touched>>
    PROVE  IInv'
<1>1. s \in StagesOf(Wants(t)) /\ s \in Stages /\ lock # None
  BY StageTellsOp, NoneIsNoTask DEF StagesOf, Stages
<1> QED BY <1>1, StillKeeps, GotoKeeps DEF IInv, TypeOK

LEMMA FlushCheckInv == ASSUME IInv, NEW t \in Tasks, FlushCheck(t) PROVE IInv'
<1>1. lock = t /\ stage = "flush" /\ UNCHANGED <<diskVars, cache, phase, boot, ramVars, touched>>
  BY DEF FlushCheck, At
<1>2. CASE dirty
  <2>1. Entries \in EntrySet
    BY DEF Entries, InRam, IInv, TypeOK, RamTypes, MaybeMeta, Meta, EntrySet, MaybeVersion
  <2>2. work' \in Work
    BY <1>2, <2>1 DEF FlushCheck, IInv, TypeOK, LockTypes, Work
  <2> QED BY <1>1, <1>2, <2>2, FlushGoes DEF FlushCheck
<1>3. CASE ~dirty
  BY <1>1, <1>3, StillKeeps, ReleaseKeeps DEF FlushCheck, IInv, TypeOK
<1> QED BY <1>2, <1>3

LEMMA FlushGraphInv == ASSUME IInv, NEW t \in Tasks, FlushGraph(t) PROVE IInv'
<1>1. work' \in Work
  BY DEF FlushGraph, IInv, TypeOK, LockTypes, RamTypes, Work, Index
<1> QED BY <1>1, FlushGoes DEF FlushGraph, At

LEMMA FlushNamesInv == ASSUME IInv, NEW t \in Tasks, FlushNames(t) PROVE IInv'
<1>1. work' \in Work
  BY DEF FlushNames, IInv, TypeOK, LockTypes, RamTypes, Work, Index
<1> QED BY <1>1, FlushGoes DEF FlushNames, At

LEMMA FlushWriteInv == ASSUME IInv, NEW t \in Tasks, FlushWrite(t) PROVE IInv'
<1>1. DiskTypes' /\ BootTypes'
  BY StillKeeps DEF FlushWrite
<1>2. CacheType'
  BY DEF FlushWrite, IInv, TypeOK, LockTypes, Work, CacheType
<1>3. RamTypes'
  BY DEF FlushWrite, IInv, TypeOK, RamTypes
<1>4. LockTypes' /\ CallTypes' /\ CallInv' /\ HolderInv' /\ ReadyInv'
  BY ReleaseKeeps DEF FlushWrite, At
<1> QED BY <1>1, <1>2, <1>3, <1>4 DEF IInv, TypeOK

LEMMA FlushFailsInv == ASSUME IInv, NEW t \in Tasks, FlushFails(t) PROVE IInv'
<1>1. DiskTypes' /\ CacheType' /\ BootTypes'
  BY StillKeeps DEF FlushFails
<1>2. RamTypes'
  BY DEF FlushFails, IInv, TypeOK, RamTypes
<1>3. LockTypes' /\ CallTypes' /\ CallInv' /\ HolderInv' /\ ReadyInv'
  BY ReleaseKeeps DEF FlushFails
<1> QED BY <1>1, <1>2, <1>3 DEF IInv, TypeOK

LEMMA StorageFailsInv == ASSUME IInv, NEW t \in Tasks, StorageFails(t) PROVE IInv'
<1>1. DiskTypes' /\ CacheType' /\ BootTypes' /\ RamTypes'
  BY StillKeeps DEF StorageFails
<1>2. LockTypes' /\ CallTypes' /\ CallInv' /\ HolderInv' /\ ReadyInv'
  BY ReleaseKeeps DEF StorageFails
<1> QED BY <1>1, <1>2 DEF IInv, TypeOK

(***************************************************************************)
(* Type correctness.                                                        *)
(***************************************************************************)

LEMMA HolderKeeps == ASSUME IInv, NEW t \in Tasks, Holder(t) PROVE IInv'
BY WriteCheckInv, WritePutInv, RegisterWrittenInv, IngestCheckInv, IngestPutInv,
   IngestPutFailsInv, IngestRollbackInv, IngestSettledInv, UpdateReadInv, UpdateCheckInv,
   UpdatePutInv, UpdateRegisterInv, DeleteCheckInv, DeleteDoInv, DeleteRegisterInv,
   SyncListInv, SyncStatInv, SyncLoadInv, SyncPruneInv, FlushCheckInv, FlushGraphInv,
   FlushNamesInv, FlushWriteInv, FlushFailsInv, StorageFailsInv
   DEF Holder

LEMMA StutterKeeps == IInv /\ UNCHANGED vars => IInv'
BY DEF IInv, TypeOK, DiskTypes, CacheType, BootTypes, RamTypes, LockTypes, CallTypes, CallInv,
       HolderInv, ReadyInv, Waiting, Wants, vars, diskVars, ramVars, callVars, lockVars

LEMMA NextKeeps == IInv /\ [Next]_vars => IInv'
<1> SUFFICES ASSUME IInv, [Next]_vars PROVE IInv'
  OBVIOUS
<1>1. CASE Boot
  BY <1>1, StartupInv, StartupDoneInv, LoadWarmInv, LoadColdGetInv, LoadColdStatInv DEF Boot
<1>2. CASE Crash
  BY <1>2, CrashInv
<1>3. CASE Environment
  BY <1>3, EnvironmentInv
<1>4. ASSUME NEW t \in Tasks, Invoke(t) PROVE IInv'
  BY <1>4, InvokeInv
<1>5. ASSUME NEW t \in Tasks, Step(t) PROVE IInv'
  BY <1>5, AcquireInv, BusyInv, HolderKeeps, ReadHitInv, ReadMissInv, ReadMissLateInv,
     ReadGoneInv DEF Step
<1>6. CASE UNCHANGED vars
  BY <1>6, StutterKeeps
<1> QED BY <1>1, <1>2, <1>3, <1>4, <1>5, <1>6 DEF Next

THEOREM InvariantHolds == Spec => []IInv
BY InitInv, NextKeeps, PTL DEF Spec

(* Every variable of the vault keeps its type; in particular whatever ends  *)
(* up in a file, in RAM or in the cache is a version some call passed or    *)
(* the outside wrote, across every interleaving and crash.                  *)
THEOREM TypeCorrect == Spec => []TypeOK
<1>1. IInv => TypeOK
  BY DEF IInv
<1> QED BY <1>1, InvariantHolds, PTL

(***************************************************************************)
(* What a check under the lock found still holds when it is acted upon.     *)
(*                                                                          *)
(* Steps of anybody but the holder leave the holder's stage, arguments and  *)
(* locals alone, can only take labels out of the index and mementos out of  *)
(* RAM, and mark the files they change as touched.                          *)
(***************************************************************************)

Shrinks ==
    /\ index'.native \subseteq index.native
    /\ \A k \in Key : index'.strToNum[k] # None => index.strToNum[k] # None
    /\ \A id \in Ids : meta'[id] # None => meta[id] # None

Marked ==
    /\ touched \subseteq touched'
    /\ \A id \in Ids \ touched' : disk'[id] = disk[id]

Steady == UNCHANGED lockVars /\ call'[lock] = call[lock] /\ Shrinks /\ Marked

LEMMA ReconcileShrinks == ASSUME IInv, NEW id, Reconcile(id) PROVE Shrinks
BY RemoveType DEF Reconcile, Unregister, Shrinks, IInv, TypeOK, RamTypes

LEMMA OtherEndSteady ==
    ASSUME IInv, lock # None, NEW t \in Tasks, NEW ok \in BOOLEAN, EndOf(t, ok), lock # t
    PROVE  call'[lock] = call[lock]
<1>1. lock \in Tasks /\ pc[lock] # "join"
  BY DEF IInv, TypeOK, LockTypes, HolderInv, Waiting
<1> QED BY <1>1, EndOfKeeps DEF IInv, TypeOK

LEMMA OthersAreSteady ==
    ASSUME IInv, lock # None, NEW t \in Tasks,
           Invoke(t) \/ Busy(t) \/ ReadHit(t) \/ ReadMiss(t) \/ ReadMissLate(t) \/ ReadGone(t)
    PROVE  Steady
<1>1. lock \in Tasks
  BY DEF IInv, TypeOK, LockTypes
<1>2. CASE Invoke(t)
  <2>1. lock # t
    BY <1>2 DEF Invoke, IInv, HolderInv, Waiting
  <2>2. PICK c : call' = [call EXCEPT ![t] = c]
    BY <1>2 DEF Invoke
  <2>3. call'[lock] = call[lock]
    BY <1>1, <2>1, <2>2 DEF IInv, TypeOK, CallTypes
  <2> QED BY <1>2, <2>3 DEF Invoke, Steady, Shrinks, Marked, ramVars, diskVars
<1>3. CASE Busy(t)
  BY <1>3, OtherEndSteady DEF Busy, Steady, Shrinks, Marked, ramVars, diskVars
<1>4. CASE ReadHit(t)
  BY <1>4, OtherEndSteady, ReaderIsNotHolder DEF ReadHit, Steady, Shrinks, Marked,
     ramVars, diskVars
<1>5. CASE ReadMiss(t)
  <2>1. Shrinks
    BY <1>5, ReconcileShrinks DEF ReadMiss
  <2>2. Marked
    BY <1>5 DEF ReadMiss, Reconcile, Marked, diskVars
  <2> QED BY <1>5, <2>1, <2>2, OtherEndSteady, ReaderIsNotHolder DEF ReadMiss, Steady
<1>6. CASE ReadMissLate(t)
  BY <1>6 DEF ReadMissLate, Steady, Shrinks, Marked, ramVars, diskVars
<1>7. CASE ReadGone(t)
  <2>1. Shrinks
    BY <1>7, ReconcileShrinks DEF ReadGone
  <2>2. Marked
    BY <1>7 DEF ReadGone, Reconcile, Marked, diskVars
  <2> QED BY <1>7, <2>1, <2>2, OtherEndSteady, ReaderIsNotHolder DEF ReadGone, Steady
<1> QED BY <1>2, <1>3, <1>4, <1>5, <1>6, <1>7

LEMMA OutsideSteady == IInv /\ Environment => Steady
<1> SUFFICES ASSUME IInv, NEW id \in Ids,
                    \/ Corrupted(id) \/ Removed(id) \/ Restored(id)
                    \/ \E x \in Texts : Arrives(id, x) \/ Edited(id, x)
             PROVE  Steady
  BY DEF Environment
<1>1. PICK kind : Outside(id, kind)
  BY DEF Corrupted, Removed, Restored, Arrives, Edited
<1>2. PICK v : disk' = [disk EXCEPT ![id] = v]
  BY DEF Corrupted, Removed, Restored, Arrives, Edited
<1>3. Marked
  BY <1>1, <1>2 DEF Outside, Marked, IInv, TypeOK, DiskTypes
<1> QED BY <1>1, <1>3 DEF Outside, Steady, Shrinks, ramVars, callVars

(* The only steps of the holder into the stages the two checks guard.       *)
LEMMA IntoWriteStages ==
    ASSUME NEW t \in Tasks, Holder(t), stage' \in {"writePut", "register"}
    PROVE  WriteCheck(t) \/ WritePut(t)
BY DEF Holder, RegisterWritten, IngestCheck, IngestPut, IngestPutFails, IngestRollback,
       IngestSettled, UpdateRead, UpdateCheck, UpdatePut, UpdateRegister, DeleteCheck, DeleteDo,
       DeleteRegister, SyncList, SyncStat, SyncLoad, SyncPrune, FlushCheck, FlushGraph,
       FlushNames, FlushWrite, FlushFails, StorageFails, Release, Goto

(* A stage other than "none" is reached by the holder, by who takes the      *)
(* lock, or kept by the rest.                                               *)
LEMMA WhoSteps ==
    ASSUME IInv, [Next]_vars, stage' # "none"
    PROVE  \/ \E t \in Tasks : Holder(t)
           \/ \E t \in Tasks : Acquire(t)
           \/ lock # None /\ Steady /\ stage' = stage
<1>1. lock = None => stage = "none"
  BY DEF IInv, TypeOK, LockTypes
<1>2. CASE Boot
  BY <1>1, <1>2, LoadingUnlocked DEF Boot, Startup, StartupDone, LoadWarm, LoadColdGet,
     LoadColdStat, lockVars
<1>3. CASE Crash
  BY <1>3 DEF Crash
<1>4. CASE Environment
  BY <1>1, <1>4, OutsideSteady DEF Steady, lockVars
<1>6. ASSUME NEW t \in Tasks,
             Invoke(t) \/ Busy(t) \/ ReadHit(t) \/ ReadMiss(t) \/ ReadMissLate(t) \/ ReadGone(t)
      PROVE  lock # None /\ Steady /\ stage' = stage
  <2>1. stage' = stage
    BY <1>6 DEF Invoke, Busy, ReadHit, ReadMiss, ReadMissLate, ReadGone, lockVars
  <2> QED BY <1>1, <1>6, <2>1, OthersAreSteady
<1>7. CASE UNCHANGED vars
  BY <1>1, <1>7 DEF vars, Steady, Shrinks, Marked, lockVars, callVars, ramVars, diskVars
<1> QED BY <1>2, <1>3, <1>4, <1>6, <1>7 DEF Next, Step

(* No text is indexed twice by writeMemento: at the moment the file is      *)
(* written and at the moment it is registered, nothing in the index is      *)
(* within the duplicate threshold of it.                                    *)
THEOREM NoDuplicateWriteHolds == Spec => []NoDuplicateWrite
<1>1. Init => NoDuplicateWrite
  BY DEF Init, NoDuplicateWrite
<1>2. ASSUME IInv, NoDuplicateWrite, [Next]_vars PROVE NoDuplicateWrite'
  <2> SUFFICES ASSUME stage' \in {"writePut", "register"}
               PROVE  ~Duplicate(call[lock].txt)'
    BY DEF NoDuplicateWrite
  <2>1. CASE lock # None /\ Steady /\ stage' = stage
    <3>1. ~Duplicate(call[lock].txt) /\ call'[lock'].txt = call[lock].txt
      BY <2>1, <1>2 DEF NoDuplicateWrite, Steady, lockVars
    <3> QED BY <2>1, <3>1 DEF Steady, Shrinks, Duplicate
  <2>2. ASSUME NEW t \in Tasks, Holder(t) PROVE ~Duplicate(call[lock].txt)'
    <3>1. CASE WriteCheck(t)
      BY <3>1 DEF WriteCheck, At, Goto, Release, Duplicate, ramVars, callVars
    <3>2. CASE WritePut(t)
      BY <1>2, <3>2 DEF WritePut, At, Goto, NoDuplicateWrite, Duplicate, ramVars, callVars
    <3> QED BY <2>2, <3>1, <3>2, IntoWriteStages
  <2>3. ASSUME NEW t \in Tasks, Acquire(t) PROVE FALSE
    BY <2>3 DEF Acquire, Wants, Waiting, LockedOps
  <2> QED BY <1>2, <2>1, <2>2, <2>3, WhoSteps
<1> QED BY <1>1, <1>2, InvariantHolds, PTL DEF Spec

(***************************************************************************)
(* A batch that fails is undone.  BatchInv ties the locals of an ingest to  *)
(* the directory it found: what it is to write or wrote was unknown to RAM  *)
(* and still is, `listed' holds those of them that had a file, and a file   *)
(* nobody else touched is the one found or the one written.                 *)
(***************************************************************************)

Mine(id) == id \in work.todo \/ work.seen[id] # None

BatchInv ==
    /\ stage = "ingest" => work = NoWork
    /\ stage = "ingestPut" =>
         /\ work.changed \/ \E id \in Ids : Mine(id)
         /\ \A id \in Ids : Mine(id) =>
               /\ id \in call[lock].ids /\ meta[id] = None
               /\ id \in work.listed <=> work.known[id] # None
         /\ \A id \in Ids \ touched :
               disk[id] = IF work.seen[id] # None THEN work.seen[id] ELSE work.known[id]

(* The only steps of the holder around a batch.                             *)
LEMMA IntoBatch ==
    ASSUME NEW t \in Tasks, Holder(t), stage' \in {"ingest", "ingestPut"}
    PROVE  IngestCheck(t) \/ \E id \in Ids : IngestPut(t, id) \/ IngestPutFails(t, id)
BY DEF Holder, WriteCheck, WritePut, RegisterWritten, IngestRollback, IngestSettled, UpdateRead,
       UpdateCheck, UpdatePut, UpdateRegister, DeleteCheck, DeleteDo, DeleteRegister, SyncList,
       SyncStat, SyncLoad, SyncPrune, FlushCheck, FlushGraph, FlushNames, FlushWrite, FlushFails,
       StorageFails, Release, Goto

LEMMA OutOfBatch ==
    ASSUME NEW t \in Tasks, Holder(t), stage = "ingestPut", stage' = "none"
    PROVE  lock = t /\ (IngestRollback(t) \/ IngestSettled(t))
BY DEF Holder, WriteCheck, WritePut, RegisterWritten, IngestCheck, IngestPut, IngestPutFails,
       IngestRollback, IngestSettled, UpdateRead, UpdateCheck, UpdatePut, UpdateRegister,
       DeleteCheck, DeleteDo, DeleteRegister, SyncList, SyncStat, SyncLoad, SyncPrune, FlushCheck,
       FlushGraph, FlushNames, FlushWrite, FlushFails, StorageFails, At, Goto

LEMMA IngestCheckBatch ==
    ASSUME IInv, BatchInv, NEW t \in Tasks, IngestCheck(t), stage' # "none" PROVE BatchInv'
<1> DEFINE fresh == call[t].ids \ InRam
<1>1. /\ lock = t /\ lock' = t /\ stage = "ingest" /\ stage' = "ingestPut" /\ fresh # {}
      /\ work' = [work EXCEPT !.todo = fresh, !.known = disk,
                              !.listed = {id \in fresh : Present(id)}]
      /\ UNCHANGED <<disk, meta, call>> /\ touched' = {}
  BY DEF IngestCheck, At, Goto, Release, diskVars, ramVars, callVars
<1>2. work = NoWork
  BY <1>1 DEF BatchInv
<1>3. /\ work'.todo = fresh /\ work'.known = disk /\ work'.seen = NoIds
      /\ work'.listed = {id \in fresh : Present(id)}
  BY <1>1, <1>2 DEF NoWork
<1>4. \A id \in Ids : Mine(id)' <=> id \in fresh
  BY <1>3 DEF Mine, NoIds
<1>5. fresh \subseteq Ids /\ \A id \in fresh : id \in call[t].ids /\ meta[id] = None
  BY DEF InRam, IInv, TypeOK, CallTypes
<1>6. \A id \in fresh : id \in work'.listed <=> work'.known[id] # None
  BY <1>3 DEF Present
<1>7. \A id \in Ids : disk'[id] = work'.known[id] /\ work'.seen[id] = None
  BY <1>1, <1>3 DEF NoIds
<1>8. \E id \in Ids : Mine(id)'
  BY <1>1, <1>4, <1>5
<1> HIDE DEF fresh
<1> QED BY <1>1, <1>4, <1>5, <1>6, <1>7, <1>8 DEF BatchInv

LEMMA IngestPutBatch ==
    ASSUME IInv, BatchInv, NEW t \in Tasks, NEW i \in Ids, IngestPut(t, i) PROVE BatchInv'
<1> DEFINE v == Written(call[t].txt)
<1>1. /\ lock = t /\ lock' = t /\ stage = "ingestPut" /\ stage' = "ingestPut" /\ i \in work.todo
      /\ work' = [work EXCEPT !.todo = work.todo \ {i}, !.seen[i] = v]
      /\ disk' = [disk EXCEPT ![i] = v]
      /\ UNCHANGED <<meta, call, touched>>
  BY DEF IngestPut, At, Goto, ramVars, callVars
<1>2. v \in Version /\ v # None
  BY <1>1, StageTellsOp, WrittenType, NoneAssumption DEF IInv, TypeOK, DiskTypes
<1>3. work \in Work /\ disk \in [Ids -> MaybeVersion]
  BY DEF IInv, TypeOK, LockTypes, DiskTypes
<1>4. /\ work'.todo = work.todo \ {i} /\ work'.known = work.known
      /\ work'.listed = work.listed /\ work'.changed = work.changed
      /\ \A id \in Ids : work'.seen[id] = IF id = i THEN v ELSE work.seen[id]
      /\ \A id \in Ids : disk'[id] = IF id = i THEN v ELSE disk[id]
  BY <1>1, <1>3 DEF Work
<1> HIDE DEF v
<1>5. \A id \in Ids : Mine(id)' <=> Mine(id)
  BY <1>1, <1>2, <1>4 DEF Mine
<1>6. \A id \in Ids \ touched : disk'[id] = IF work'.seen[id] # None THEN work'.seen[id] ELSE work'.known[id]
  BY <1>1, <1>2, <1>4 DEF BatchInv
<1> QED BY <1>1, <1>4, <1>5, <1>6 DEF BatchInv

LEMMA IngestPutFailsBatch ==
    ASSUME IInv, BatchInv, NEW t \in Tasks, NEW i \in Ids, IngestPutFails(t, i) PROVE BatchInv'
<1>1. /\ lock = t /\ lock' = t /\ stage = "ingestPut" /\ stage' = "ingestPut"
      /\ work' = [work EXCEPT !.todo = work.todo \ {i}, !.changed = TRUE]
      /\ UNCHANGED <<disk, meta, call, touched>>
  BY DEF IngestPutFails, At, Goto, ramVars, callVars, diskVars
<1>2. /\ work'.todo = work.todo \ {i} /\ work'.known = work.known /\ work'.changed
      /\ work'.listed = work.listed /\ work'.seen = work.seen
  BY <1>1 DEF IInv, TypeOK, LockTypes, Work
<1>3. \A id \in Ids : Mine(id)' => Mine(id)
  BY <1>2 DEF Mine
<1> QED BY <1>1, <1>2, <1>3 DEF BatchInv

LEMMA BatchStep == ASSUME IInv, BatchInv, [Next]_vars PROVE BatchInv'
<1>1. CASE lock # None /\ Steady /\ stage' = stage
  <2>1. lock \in Tasks /\ lock' = lock /\ work' = work /\ call'[lock] = call[lock]
    BY <1>1 DEF Steady, lockVars, IInv, TypeOK, LockTypes
  <2>2. \A id \in Ids : meta'[id] # None => meta[id] # None
    BY <1>1 DEF Steady, Shrinks
  <2>3. \A id \in Ids \ touched' : id \notin touched /\ disk'[id] = disk[id]
    BY <1>1 DEF Steady, Marked
  <2>4. \A id \in Ids : Mine(id)' <=> Mine(id)
    BY <2>1 DEF Mine
  <2> QED BY <1>1, <2>1, <2>2, <2>3, <2>4 DEF BatchInv
<1>2. ASSUME NEW t \in Tasks, Holder(t), stage' # "none" PROVE BatchInv'
  <2>1. CASE stage' \in {"ingest", "ingestPut"}
    <3>1. CASE IngestCheck(t)
      BY <1>2, <3>1, IngestCheckBatch
    <3>2. ASSUME NEW id \in Ids, IngestPut(t, id) \/ IngestPutFails(t, id) PROVE BatchInv'
      BY <3>2, IngestPutBatch, IngestPutFailsBatch
    <3> QED BY <1>2, <2>1, <3>1, <3>2, IntoBatch
  <2> QED BY <2>1 DEF BatchInv
<1>3. ASSUME NEW t \in Tasks, Acquire(t) PROVE BatchInv'
  <2>1. work' = NoWork /\ stage' # "ingestPut"
    BY <1>3 DEF Acquire, Wants, Waiting, LockedOps, IInv, TypeOK, LockTypes
  <2> QED BY <2>1 DEF BatchInv
<1>4. CASE stage' = "none"
  BY <1>4 DEF BatchInv
<1> QED BY <1>1, <1>2, <1>3, <1>4, WhoSteps

THEOREM BatchInvHolds == Spec => [](IInv /\ BatchInv)
<1>1. Init => BatchInv
  BY DEF Init, BatchInv
<1> QED BY <1>1, BatchStep, InvariantHolds, PTL DEF Spec

(* The steps that end a batch.                                              *)
LEMMA WhoEndsBatch ==
    ASSUME IInv, [Next]_vars, stage = "ingestPut", stage' = "none", phase' = "ready"
    PROVE  \E t \in Tasks : lock = t /\ (IngestRollback(t) \/ IngestSettled(t))
<1>1. lock # None
  BY DEF IInv, TypeOK, LockTypes
<1>2. CASE Boot
  BY <1>1, <1>2, LoadingUnlocked DEF Boot, Startup, StartupDone, LoadWarm, LoadColdGet,
     LoadColdStat, lockVars
<1>3. CASE Crash
  BY <1>3 DEF Crash
<1>4. CASE Environment
  BY <1>4, OutsideSteady DEF Steady, lockVars
<1>5. ASSUME NEW t \in Tasks, Acquire(t) PROVE FALSE
  BY <1>1, <1>5 DEF Acquire
<1>6. ASSUME NEW t \in Tasks,
             Invoke(t) \/ Busy(t) \/ ReadHit(t) \/ ReadMiss(t) \/ ReadMissLate(t) \/ ReadGone(t)
      PROVE  FALSE
  BY <1>6 DEF Invoke, Busy, ReadHit, ReadMiss, ReadMissLate, ReadGone, lockVars
<1>7. CASE UNCHANGED vars
  BY <1>7 DEF vars, lockVars
<1>8. ASSUME NEW t \in Tasks, Holder(t) PROVE lock = t /\ (IngestRollback(t) \/ IngestSettled(t))
  BY <1>8, OutOfBatch
<1> QED BY <1>2, <1>3, <1>4, <1>5, <1>6, <1>7, <1>8 DEF Next, Step

(* A batch without a failed write puts a memento in RAM that was not there. *)
LEMMA SettledRegisters ==
    ASSUME IInv, BatchInv, NEW t \in Tasks, IngestSettled(t)
    PROVE  meta' # meta
<1>1. lock = t /\ stage = "ingestPut" /\ work.todo = {} /\ ~work.changed /\ RegisterAll(index)
  BY DEF IngestSettled, At
<1>2. PICK id \in Ids : work.seen[id] # None
  BY <1>1 DEF BatchInv, Mine
<1>3. meta[id] = None
  BY <1>1, <1>2 DEF BatchInv, Mine
<1>4. meta'[id] = [of |-> work.seen[id], mtime |-> work.seen[id]]
  BY <1>1, <1>2 DEF RegisterAll
<1>5. work.seen[id] \in Version
  BY <1>2 DEF IInv, TypeOK, LockTypes, Work, MaybeVersion
<1>6. meta'[id] # None
  BY <1>4, <1>5, MetaAssumption DEF Meta
<1> QED BY <1>3, <1>6

(* A batch that fails leaves the directory as it found it, but for the      *)
(* content of files it was to replace: it takes back what it created and    *)
(* nothing else, however many of its writes failed, with calls, syncs,      *)
(* reads and changes from outside in between.                               *)
THEOREM BatchUndoneHolds == Spec => BatchUndone
<1>1. ASSUME IInv, BatchInv, [Next]_vars
      PROVE  (stage = "ingestPut" /\ stage' = "none" /\ phase' = "ready"
                /\ <<meta, index>>' = <<meta, index>>)
               => \A id \in Ids \ touched :
                     /\ (disk'[id] = None) = (work.known[id] = None)
                     /\ (id \in call[lock].ids => id \in InRam) => disk'[id] = work.known[id]
  <2> SUFFICES ASSUME stage = "ingestPut", stage' = "none", phase' = "ready", meta' = meta,
                      NEW id \in Ids \ touched
               PROVE  /\ (disk'[id] = None) = (work.known[id] = None)
                      /\ (id \in call[lock].ids => id \in InRam) => disk'[id] = work.known[id]
    OBVIOUS
  <2>1. PICK t \in Tasks : lock = t /\ (IngestRollback(t) \/ IngestSettled(t))
    BY <1>1, WhoEndsBatch
  <2>2. IngestRollback(t)
    BY <1>1, <2>1, SettledRegisters
  <2>3. disk'[id] = IF work.seen[id] # None /\ id \notin work.listed THEN None ELSE disk[id]
    BY <2>2 DEF IngestRollback
  <2>4. /\ disk[id] = IF work.seen[id] # None THEN work.seen[id] ELSE work.known[id]
        /\ work.seen[id] # None =>
              /\ id \in call[lock].ids /\ meta[id] = None
              /\ id \in work.listed <=> work.known[id] # None
    BY <1>1 DEF BatchInv, Mine
  <2> QED BY <2>3, <2>4 DEF InRam
<1> QED BY <1>1, BatchInvHolds, PTL DEF Spec, BatchUndone

(***************************************************************************)
(* The index follows what RAM knows, RAM records no wrong mtime, and an     *)
(* index cache that a startup accepts is the index of the files.            *)
(***************************************************************************)

(***************************************************************************)
(* The mtimes RAM records, where no file is replaced during a startup.      *)
(***************************************************************************)

Undisturbed == EnvAtBoot => EnvKinds \cap {"edit", "corrupt"} = {}

(* A version that is gone for good: no file ever has its mtime again.       *)
Dead(id, v) == v.at <= clock /\ disk[id] # v /\ trash[id] # v

Aged ==
    \A id \in Ids :
       /\ disk[id] # None => id \in born /\ disk[id].at <= clock /\ trash[id] # disk[id]
       /\ trash[id] # None => id \in born /\ trash[id].at <= clock

(* The version is on disk, or the file is away and may come back with it.   *)
Still(id, v) ==
    /\ id \in born /\ v # None
    /\ \/ disk[id] = v
       \/ disk[id] = None /\ (trash[id] = None \/ trash[id] = v)

(* The mtime belongs to the content, is none, or is that of a version that  *)
(* is gone.                                                                 *)
Stamped ==
    \A id \in Ids : meta[id] # None =>
       \/ meta[id].mtime \in {meta[id].of, None}
       \/ Dead(id, meta[id].mtime)

(* During startup no other version takes the place of the one listed.       *)
LoadNow ==
    phase = "loading" =>
        \A id \in Ids : /\ boot.warm /\ id \in boot.todo => Still(id, boot.mtimes[id])
                        /\ boot.got[id] # None => Still(id, boot.got[id])

(* A file statted by a sync is there, is away and may come back, or is gone.*)
SeenNow ==
    stage = "syncFiles" =>
        \A id \in Ids : work.seen[id] # None =>
           Still(id, work.seen[id]) \/ (id \in born /\ Dead(id, work.seen[id]))

StaleInv == Aged /\ Stamped /\ LoadNow /\ SeenNow /\ (phase = "down" => meta = NoIds)

(* What one step can do to the file of id.                                  *)
Move(id) ==
    \/ disk'[id] = disk[id] /\ trash'[id] = trash[id]
    \/ /\ disk'[id].at = clock + 1 /\ clock' = clock + 1
       /\ id \in born' /\ trash'[id] = trash[id]
    \/ disk'[id] = None /\ trash'[id] \in {trash[id], disk[id], None}
    \/ disk[id] = None /\ disk'[id] = trash[id] /\ trash'[id] = None

Moves == /\ \A id \in Ids : Move(id)
         /\ clock' \in {clock, clock + 1} /\ born \subseteq born'

Stamp(id) == meta'[id] # None => \/ meta'[id] = meta[id]
                                 \/ meta'[id].mtime \in {meta'[id].of, None}
                                 \/ Dead(id, meta'[id].mtime)

LEMMA DeadStays ==
    ASSUME DiskTypes, Moves, NEW id \in Ids, NEW v \in Version, Dead(id, v)
    PROVE  Dead(id, v)'
<1>1. v.at \in Nat /\ clock \in Nat /\ v # None
  BY NoneAssumption DEF Version, DiskTypes
<1>2. v.at <= clock'
  BY <1>1 DEF Moves, Dead
<1>3. disk'[id] # v /\ trash'[id] # v
  BY <1>1 DEF Moves, Move, Dead
<1> QED BY <1>2, <1>3 DEF Dead

LEMMA AgedStays == ASSUME DiskTypes, DiskTypes', Aged, Moves PROVE Aged'
<1> SUFFICES ASSUME NEW id \in Ids
             PROVE  /\ disk'[id] # None => id \in born' /\ disk'[id].at <= clock' /\ trash'[id] # disk'[id]
                    /\ trash'[id] # None => id \in born' /\ trash'[id].at <= clock'
  BY DEF Aged
<1>1. /\ disk[id] # None => disk[id].at \in Nat
      /\ trash[id] # None => trash[id].at \in Nat
      /\ clock \in Nat
  BY DEF DiskTypes, MaybeVersion, Version
<1>2. /\ disk[id] # None => id \in born /\ disk[id].at <= clock /\ trash[id] # disk[id]
      /\ trash[id] # None => id \in born /\ trash[id].at <= clock
  BY DEF Aged
<1>3. clock <= clock' /\ clock' \in Nat /\ born \subseteq born'
  BY <1>1 DEF Moves
<1>4. CASE disk'[id] = disk[id] /\ trash'[id] = trash[id]
  BY <1>1, <1>2, <1>3, <1>4
<1>5. CASE disk'[id].at = clock + 1 /\ clock' = clock + 1 /\ id \in born' /\ trash'[id] = trash[id]
  BY <1>1, <1>2, <1>3, <1>5
<1>6. CASE disk'[id] = None /\ trash'[id] \in {trash[id], disk[id], None}
  BY <1>1, <1>2, <1>3, <1>6
<1>7. CASE disk[id] = None /\ disk'[id] = trash[id] /\ trash'[id] = None
  BY <1>1, <1>2, <1>3, <1>7
<1> QED BY <1>4, <1>5, <1>6, <1>7 DEF Moves, Move

LEMMA StaleStep ==
    ASSUME IInv, IInv', StaleInv, Moves, \A id \in Ids : Stamp(id),
           phase' = "down" => meta' = NoIds, LoadNow', SeenNow'
    PROVE  StaleInv'
<1>1. Aged'
  BY AgedStays DEF IInv, TypeOK, StaleInv
<1>2. Stamped'
  <2> SUFFICES ASSUME NEW id \in Ids, meta'[id] # None, meta'[id].mtime \notin {meta'[id].of, None}
               PROVE  Dead(id, meta[id].mtime)'
    BY DEF Stamped
  <2>1. meta'[id].mtime \in Version \cup {None} /\ meta'[id] \in Meta
    BY DEF IInv, TypeOK, RamTypes, MaybeMeta, Meta
  <2>2. CASE meta'[id] = meta[id]
    <3>1. Dead(id, meta'[id].mtime)
      BY <2>2 DEF StaleInv, Stamped
    <3> QED BY <2>1, <3>1, DeadStays DEF IInv, TypeOK
  <2>3. CASE Dead(id, meta'[id].mtime)
    BY <2>1, <2>3, DeadStays DEF IInv, TypeOK
  <2> QED BY <2>2, <2>3 DEF Stamp
<1> QED BY <1>1, <1>2 DEF StaleInv

(***************************************************************************)
(* Steps that leave the files alone                                         *)
(***************************************************************************)

LEMMA FilesStay == UNCHANGED diskVars => Moves
BY DEF diskVars, Moves, Move

(* Nobody but a sync is in the middle of a sync.                            *)
LEMMA SyncStays ==
    ASSUME SeenNow, UNCHANGED <<diskVars, lockVars>>
    PROVE  SeenNow'
BY DEF SeenNow, Still, Dead, diskVars, lockVars

LEMMA BootIsFresh == ASSUME IInv, StaleInv, Boot, IInv' PROVE StaleInv'
<1>1. /\ phase # "ready" /\ UNCHANGED <<diskVars, lockVars>> /\ disk' = disk
      /\ \A id, v : Still(id, v)' <=> Still(id, v)
  BY DEF Boot, Startup, StartupDone, LoadWarm, LoadColdGet, LoadColdStat, diskVars, Still
<1>2. Moves /\ SeenNow'
  BY <1>1, FilesStay, SyncStays DEF StaleInv
<1>3. CASE Startup
  <2>1. meta' = meta
    BY <1>3 DEF Startup
  <2>2. LoadNow'
    <3>1. boot'.got = NoIds /\ (boot'.warm => boot'.mtimes = disk) /\ \A id \in boot'.todo : disk[id] # None
      BY <1>3 DEF Startup, NoBoot, Present
    <3>2. \A id \in Ids : disk[id] # None => Still(id, disk[id])
      BY DEF StaleInv, Aged, Still
    <3> QED BY <1>1, <3>1, <3>2 DEF LoadNow, NoIds, Still
  <2>3. phase' # "down" /\ \A id \in Ids : Stamp(id)
    BY <1>3, <2>1 DEF Startup, Stamp
  <2> QED BY <1>2, <2>2, <2>3, StaleStep
<1>4. CASE StartupDone
  <2>1. LoadNow' /\ phase' # "down" /\ \A id \in Ids : Stamp(id)
    BY <1>4 DEF StartupDone, LoadNow, Stamp
  <2> QED BY <1>2, <2>1, StaleStep
<1>5. ASSUME NEW id \in Ids, LoadWarm(id) PROVE StaleInv'
  <2>1. phase = "loading" /\ phase' = phase /\ boot.warm /\ id \in boot.todo
    BY <1>5 DEF LoadWarm
  <2>2. boot'.warm = boot.warm /\ boot'.todo = boot.todo \ {id} /\ boot'.mtimes = boot.mtimes /\ boot'.got = boot.got
    BY <1>5 DEF LoadWarm, IInv, TypeOK, BootTypes
  <2>3. LoadNow'
    BY <1>1, <2>1, <2>2 DEF LoadNow, StaleInv
  <2>4. Readable(id) => boot.mtimes[id] = disk[id]
    BY <2>1 DEF LoadNow, StaleInv, Still, Readable, Present
  <2>5. \A j \in Ids : Stamp(j)
    BY <1>5, <2>4 DEF LoadWarm, Register, Stamp, IInv, TypeOK, RamTypes
  <2> QED BY <1>2, <2>1, <2>3, <2>5, StaleStep
<1>6. ASSUME NEW id \in Ids, LoadColdGet(id) PROVE StaleInv'
  <2>1. phase = "loading" /\ phase' = phase /\ meta' = meta /\ ~boot.warm
    BY <1>6 DEF LoadColdGet, ramVars
  <2>2. /\ boot'.warm = boot.warm /\ boot'.got[id] \in {None, disk[id]}
        /\ \A j \in Ids : j # id => boot'.got[j] = boot.got[j]
    BY <1>6 DEF LoadColdGet, IInv, TypeOK, BootTypes
  <2>3. LoadNow'
    <3>1. \A j \in Ids : boot'.got[j] # None => Still(j, boot'.got[j])
      BY <2>1, <2>2 DEF LoadNow, StaleInv, Aged, Still
    <3> QED BY <1>1, <2>1, <2>2, <3>1 DEF LoadNow, Still
  <2>4. \A j \in Ids : Stamp(j)
    BY <2>1 DEF Stamp
  <2> QED BY <1>2, <2>1, <2>3, <2>4, StaleStep
<1>7. ASSUME NEW id \in Ids, LoadColdStat(id) PROVE StaleInv'
  <2>1. phase = "loading" /\ phase' = phase /\ boot.got[id] # None
    BY <1>7 DEF LoadColdStat
  <2>2. /\ boot'.warm = boot.warm /\ boot'.todo = boot.todo /\ boot'.mtimes = boot.mtimes
        /\ \A j \in Ids : boot'.got[j] = IF j = id THEN None ELSE boot.got[j]
    BY <1>7 DEF LoadColdStat, IInv, TypeOK, BootTypes
  <2>3. LoadNow'
    BY <1>1, <2>1, <2>2 DEF LoadNow, StaleInv
  <2>4. disk[id] \in {boot.got[id], None}
    BY <2>1 DEF LoadNow, StaleInv, Still
  <2>5. \A j \in Ids : Stamp(j)
    BY <1>7, <2>4 DEF LoadColdStat, Register, Stamp, IInv, TypeOK, RamTypes
  <2> QED BY <1>2, <2>1, <2>3, <2>5, StaleStep
<1> QED BY <1>3, <1>4, <1>5, <1>6, <1>7 DEF Boot

LEMMA CrashIsFresh == ASSUME IInv, StaleInv, Crash, IInv' PROVE StaleInv'
<1>1. Moves
  BY FilesStay DEF Crash
<1>2. LoadNow' /\ SeenNow' /\ meta' = NoIds
  BY DEF Crash, LoadNow, SeenNow
<1>3. \A id \in Ids : Stamp(id)
  BY <1>2 DEF Stamp, NoIds
<1> QED BY <1>1, <1>2, <1>3, StaleStep

(* Calls that do not hold the lock only ever drop mementos.                 *)
LEMMA OthersAreFresh ==
    ASSUME IInv, StaleInv, NEW t \in Tasks, IInv',
           \/ Invoke(t) \/ Acquire(t) \/ Busy(t)
           \/ ReadHit(t) \/ ReadMiss(t) \/ ReadMissLate(t) \/ ReadGone(t)
    PROVE  StaleInv'
<1>1. phase = "ready" /\ phase' = phase /\ UNCHANGED diskVars
  BY DEF Invoke, Acquire, Busy, ReadHit, ReadMiss, ReadMissLate, ReadGone, Waiting, IInv, ReadyInv
<1>2. Moves /\ LoadNow'
  BY <1>1, FilesStay DEF LoadNow
<1>3. SeenNow'
  <2>1. CASE Acquire(t)
    BY <2>1 DEF Acquire, Waiting, Wants, LockedOps, SeenNow
  <2> QED BY <2>1, SyncStays DEF Invoke, Busy, ReadHit, ReadMiss, ReadMissLate, ReadGone, StaleInv
<1>4. \A id \in Ids : meta'[id] \in {meta[id], None}
  BY DEF Invoke, Acquire, Busy, ReadHit, ReadMiss, ReadMissLate, ReadGone, Reconcile, Unregister, ramVars
<1>5. \A id \in Ids : Stamp(id)
  BY <1>4 DEF Stamp
<1> QED BY <1>1, <1>2, <1>3, <1>5, StaleStep

(* What the outside does to one file.                                       *)
Replaced(id) ==
    /\ disk'[id].at = clock + 1 /\ clock' = clock + 1 /\ id \in born' /\ trash'[id] = trash[id]
    /\ phase = "loading" => id \notin born

Removal(id) == disk[id] # None /\ disk'[id] = None /\ trash'[id] \in {disk[id], None}

Return(id) == disk[id] = None /\ trash[id] # None /\ disk'[id] = trash[id] /\ trash'[id] = None

(* A version that was there or may come back stays so, or is gone for good; *)
(* during startup it stays so.                                              *)
LEMMA StillStays ==
    ASSUME DiskTypes, Aged, NEW id \in Ids, NEW v \in Version, Still(id, v), born \subseteq born',
           (disk'[id] = disk[id] /\ trash'[id] = trash[id]) \/ Replaced(id) \/ Removal(id) \/ Return(id),
           disk[id] = None => ~Replaced(id)
    PROVE  Still(id, v)' \/ (phase # "loading" /\ id \in born' /\ Dead(id, v)')
<1>1. id \in born /\ id \in born' /\ v # None
  BY NoneAssumption DEF Still
<1>2. CASE disk'[id] = disk[id] /\ trash'[id] = trash[id]
  BY <1>1, <1>2 DEF Still
<1>3. CASE Removal(id)
  BY <1>1, <1>3 DEF Still, Removal
<1>4. CASE Return(id)
  BY <1>1, <1>4 DEF Still, Return
<1>5. CASE Replaced(id)
  <2>1. disk[id] = v /\ trash[id] # v /\ v.at <= clock
    BY <1>1, <1>5 DEF Still, Aged
  <2>2. v.at \in Nat /\ clock \in Nat
    BY DEF DiskTypes, Version
  <2>3. disk'[id] # v /\ trash'[id] # v /\ v.at <= clock'
    BY <1>5, <2>1, <2>2 DEF Replaced
  <2> QED BY <1>1, <1>5, <2>3 DEF Dead, Replaced
<1> QED BY <1>2, <1>3, <1>4, <1>5

LEMMA OutsideIsFresh == ASSUME Undisturbed, IInv, StaleInv, Environment, IInv' PROVE StaleInv'
<1> SUFFICES ASSUME NEW id \in Ids,
                    \/ Corrupted(id) \/ Removed(id) \/ Restored(id)
                    \/ \E x \in Texts : Arrives(id, x) \/ Edited(id, x)
             PROVE  StaleInv'
  BY DEF Environment
<1>1. UNCHANGED <<cache, phase, boot, ramVars, lockVars, callVars>>
  BY DEF Corrupted, Removed, Restored, Arrives, Edited, Outside
<1>2. DiskTypes /\ Aged
  BY DEF IInv, TypeOK, StaleInv
<1>3. \A j \in Ids : j # id => disk'[j] = disk[j] /\ trash'[j] = trash[j]
  BY <1>2 DEF Corrupted, Removed, Restored, Arrives, Edited, DiskTypes
<1>4. clock' \in {clock, clock + 1} /\ born \subseteq born'
  BY DEF Corrupted, Removed, Restored, Arrives, Edited, Tick
<1>5. (Replaced(id) /\ (disk[id] = None => id \notin born)) \/ Removal(id) \/ Return(id)
  <2>1. disk[id] # None => id \in born
    BY <1>2 DEF Aged
  <2>2. CASE Corrupted(id)
    <3>1. phase # "loading"
      BY <2>2 DEF Corrupted, Outside, Undisturbed
    <3> QED BY <1>2, <2>1, <2>2, <3>1 DEF Corrupted, Readable, Present, Tick, DiskTypes, Replaced
  <2>3. CASE Removed(id)
    BY <1>2, <2>3 DEF Removed, Present, DiskTypes, Removal
  <2>4. CASE Restored(id)
    BY <1>2, <2>4 DEF Restored, Present, DiskTypes, Return
  <2>5. ASSUME NEW x \in Texts, Arrives(id, x) \/ Edited(id, x)
        PROVE  Replaced(id) /\ (disk[id] = None => id \notin born)
    <3>1. disk'[id] = Written(x)
      BY <1>2, <2>5 DEF Arrives, Edited, DiskTypes
    <3>2. phase = "loading" => Arrives(id, x)
      BY <2>5 DEF Edited, Outside, Undisturbed
    <3> QED BY <1>2, <2>1, <2>5, <3>1, <3>2 DEF Arrives, Edited, Present, Tick, Written, Replaced
  <2> QED BY <2>2, <2>3, <2>4, <2>5
<1>6. Moves
  BY <1>3, <1>4, <1>5 DEF Moves, Move, Replaced, Removal, Return
<1>7. ASSUME NEW j \in Ids, NEW v \in Version, Still(j, v)
      PROVE  Still(j, v)' \/ (phase # "loading" /\ j \in born' /\ Dead(j, v)')
  <2>1. disk[j] = None => ~Replaced(j) \/ j # id
    BY <1>5, <1>7 DEF Still, Replaced, Removal, Return
  <2>2. CASE j = id
    BY <1>2, <1>4, <1>5, <1>7, <2>1, <2>2, StillStays
  <2>3. CASE j # id
    BY <1>3, <1>4, <1>7, <2>3 DEF Still
  <2> QED BY <2>2, <2>3
<1>8. SeenNow'
  <2> SUFFICES ASSUME stage = "syncFiles", NEW j \in Ids, work.seen[j] # None
               PROVE  Still(j, work.seen[j])' \/ (j \in born /\ Dead(j, work.seen[j]))'
    BY <1>1 DEF SeenNow, lockVars
  <2>1. work.seen[j] \in Version /\ work'.seen[j] = work.seen[j]
    BY <1>1 DEF lockVars, IInv, TypeOK, LockTypes, Work, MaybeVersion
  <2>2. PICK v \in Version : v = work.seen[j] /\ v = work'.seen[j]
    BY <2>1
  <2>3. Still(j, v) \/ (j \in born /\ Dead(j, v))
    BY <2>2 DEF StaleInv, SeenNow
  <2>4. CASE Dead(j, v)
    BY <1>2, <1>4, <1>6, <2>2, <2>3, <2>4, DeadStays DEF Dead, Still
  <2>5. CASE Still(j, v)
    BY <1>7, <2>2, <2>5 DEF Dead, Still
  <2> QED BY <2>3, <2>4, <2>5
<1>9. LoadNow'
  <2>1. boot' = boot /\ phase' = phase /\ boot.todo \subseteq Ids
    BY <1>1 DEF IInv, TypeOK, BootTypes
  <2>2. \A j \in Ids : boot.got[j] \in Version \cup {None} /\ boot.mtimes[j] \in Version \cup {None}
    BY DEF IInv, TypeOK, BootTypes, MaybeVersion
  <2>3. ASSUME phase = "loading", NEW j \in Ids, NEW v \in Version, Still(j, v) PROVE Still(j, v)'
    BY <1>7, <2>3
  <2> QED BY <2>1, <2>2, <2>3 DEF LoadNow, StaleInv, Still
<1>10. (phase' = "down" => meta' = NoIds) /\ \A j \in Ids : Stamp(j)
  BY <1>1 DEF ramVars, Stamp, StaleInv
<1> QED BY <1>6, <1>8, <1>9, <1>10, StaleStep

(***************************************************************************)
(* The holder of the lock                                                   *)
(***************************************************************************)

(* RegisterAll records the mtime the write produced.                        *)
LEMMA RegisterStamps ==
    ASSUME NEW ix, RegisterAll(ix), NEW id \in Ids
    PROVE  Stamp(id)
<1>1. meta'[id] = IF work.seen[id] # None
                    THEN [of |-> work.seen[id], mtime |-> work.seen[id]] ELSE meta[id]
  BY DEF RegisterAll
<1>2. CASE work.seen[id] # None
  <2>1. meta'[id] = [of |-> work.seen[id], mtime |-> work.seen[id]]
    BY <1>1, <1>2
  <2> QED BY <2>1 DEF Stamp
<1>3. CASE work.seen[id] = None
  BY <1>1, <1>3 DEF Stamp
<1> QED BY <1>2, <1>3

LEMMA SyncLoadStamps ==
    ASSUME IInv, StaleInv, NEW t \in Tasks, NEW id \in Ids, SyncLoad(t, id)
    PROVE  SeenNow' /\ \A j \in Ids : Stamp(j)
<1>1. stage = "syncFiles" /\ work.seen[id] # None /\ UNCHANGED diskVars
  BY DEF SyncLoad, At
<1>2. \A j \in Ids : work'.seen[j] = IF j = id THEN None ELSE work.seen[j]
  BY DEF SyncLoad, IInv, TypeOK, LockTypes, Work
<1>3. SeenNow'
  <2>1. disk' = disk /\ trash' = trash /\ born' = born /\ clock' = clock
    BY <1>1 DEF diskVars
  <2>2. \A j \in Ids : \A v : Dead(j, v) => Dead(j, v)'
    BY <2>1 DEF Dead
  <2>3. SeenNow
    BY DEF StaleInv
  <2> QED BY <1>1, <1>2, <2>1, <2>2, <2>3 DEF SeenNow, Still
<1>4. CASE ~Readable(id)
  <2>1. meta' = meta
    BY <1>4 DEF SyncLoad
  <2> QED BY <1>3, <2>1 DEF Stamp
<1>5. CASE Readable(id)
  <2>1. disk[id] = work.seen[id] \/ Dead(id, work.seen[id])
    BY <1>1, <1>5 DEF Readable, Present, StaleInv, SeenNow, Still
  <2>2. meta' = [meta EXCEPT ![id] = [of |-> disk[id], mtime |-> work.seen[id]]]
    BY <1>5 DEF SyncLoad, Register
  <2>3. \A j \in Ids : j # id => meta'[j] = meta[j]
    BY <2>2 DEF IInv, TypeOK, RamTypes
  <2>4. meta'[id] = [of |-> disk[id], mtime |-> work.seen[id]]
    BY <2>2 DEF IInv, TypeOK, RamTypes
  <2>5. meta'[id].of = disk[id] /\ meta'[id].mtime = work.seen[id]
    BY <2>4
  <2>6. \A j \in Ids : j # id => Stamp(j)
    BY <2>3 DEF Stamp
  <2>7. Stamp(id)
    BY <1>1, <2>1, <2>5 DEF Stamp, Dead
  <2> QED BY <1>3, <2>6, <2>7
<1> QED BY <1>4, <1>5

LEMMA HolderStamps ==
    ASSUME IInv, StaleInv, NEW t \in Tasks, Holder(t), NEW id \in Ids
    PROVE  Stamp(id)
<1>1. CASE RegisterWritten(t) \/ IngestSettled(t) \/ UpdateRegister(t)
  BY <1>1, RegisterStamps DEF RegisterWritten, IngestSettled, UpdateRegister
<1>2. ASSUME NEW j \in Ids, SyncLoad(t, j) PROVE Stamp(id)
  BY <1>2, SyncLoadStamps
<1>3. CASE UpdateRead(t) \/ SyncPrune(t) \/ DeleteRegister(t)
  <2>1. meta'[id] \in {meta[id], None}
    <3>1. CASE DeleteRegister(t)
      <4>1. PICK j : meta' = [meta EXCEPT ![j] = None]
        BY <3>1 DEF DeleteRegister
      <4> QED BY <4>1 DEF IInv, TypeOK, RamTypes
    <3> QED BY <1>3, <3>1 DEF UpdateRead, SyncPrune, Reconcile, Unregister, ramVars
  <2> QED BY <2>1 DEF Stamp
<1>4. CASE meta' = meta
  BY <1>4 DEF Stamp
<1> QED BY <1>1, <1>2, <1>3, <1>4 DEF Holder, WriteCheck, WritePut, IngestCheck, IngestPut,
      IngestPutFails, IngestRollback, UpdateCheck, UpdatePut, DeleteCheck, DeleteDo, SyncList,
      SyncStat, FlushCheck, FlushGraph, FlushNames, FlushWrite, FlushFails, StorageFails, ramVars

(* An update only ever overwrites a file that was there.                    *)
Owned == stage \in {"updateCheck", "updatePut"} => call[lock].ids \subseteq born

LEMMA HolderMoves == ASSUME IInv, StaleInv, Owned, NEW t \in Tasks, Holder(t) PROVE Moves
<1>1. DiskTypes /\ Aged
  BY DEF IInv, TypeOK, StaleInv
<1>2. CASE WritePut(t)
  <2>1. PICK id \in Ids : /\ disk' = [disk EXCEPT ![id] = Written(call[t].txt)]
                          /\ born' = born \cup {id}
    BY <1>2 DEF WritePut
  <2> QED BY <1>1, <1>2, <2>1 DEF WritePut, Moves, Move, Written, Tick, DiskTypes
<1>3. ASSUME NEW id \in Ids, IngestPut(t, id) PROVE Moves
  BY <1>1, <1>3 DEF IngestPut, Moves, Move, Written, Tick, DiskTypes
<1>4. CASE UpdatePut(t)
  <2>1. PICK id \in call[t].ids : disk' = [disk EXCEPT ![id] = Written(call[t].txt)]
    BY <1>4 DEF UpdatePut
  <2>2. id \in Ids /\ id \in born
    BY <1>4 DEF UpdatePut, At, Owned, IInv, TypeOK, CallTypes
  <2> QED BY <1>1, <1>4, <2>1, <2>2 DEF UpdatePut, Moves, Move, Written, Tick, DiskTypes
<1>5. CASE DeleteDo(t)
  <2>1. PICK id : disk' = [disk EXCEPT ![id] = None]
    BY <1>5 DEF DeleteDo
  <2> QED BY <1>1, <1>5, <2>1 DEF DeleteDo, Moves, Move, DiskTypes
<1>6. CASE IngestRollback(t)
  BY <1>6 DEF IngestRollback, Moves, Move
<1>7. CASE UNCHANGED diskVars
  BY <1>7, FilesStay
<1> QED BY <1>2, <1>3, <1>4, <1>5, <1>6, <1>7 DEF Holder, WriteCheck, RegisterWritten, IngestCheck,
      IngestPutFails, IngestSettled, UpdateRead, UpdateCheck, UpdateRegister, DeleteCheck,
      DeleteRegister, SyncList, SyncStat, SyncLoad, SyncPrune, FlushCheck, FlushGraph, FlushNames,
      FlushWrite, FlushFails, StorageFails

(* A sync is entered and gone on with by its own steps only.                *)
LEMMA HolderSees == ASSUME IInv, StaleInv, NEW t \in Tasks, Holder(t) PROVE SeenNow'
<1>1. CASE SyncList(t)
  BY <1>1 DEF SyncList, NoWork, NoIds, SeenNow
<1>2. ASSUME NEW id \in Ids, SyncStat(t, id) PROVE SeenNow'
  <2>1. stage = "syncFiles" /\ disk' = disk /\ trash' = trash /\ born' = born /\ clock' = clock
    BY <1>2 DEF SyncStat, At, diskVars
  <2>2. /\ work'.seen[id] # None => work'.seen[id] = disk[id]
        /\ \A j \in Ids : j # id => work'.seen[j] = work.seen[j]
    BY <1>2 DEF SyncStat, IInv, TypeOK, LockTypes, Work
  <2>3. \A j \in Ids : \A v : Dead(j, v) => Dead(j, v)'
    BY <2>1 DEF Dead
  <2>4. SeenNow /\ (disk[id] # None => id \in born)
    BY DEF StaleInv, Aged
  <2> QED BY <2>1, <2>2, <2>3, <2>4 DEF SeenNow, Still
<1>3. ASSUME NEW id \in Ids, SyncLoad(t, id) PROVE SeenNow'
  BY <1>3, SyncLoadStamps
<1>4. CASE stage' # "syncFiles"
  BY <1>4 DEF SeenNow
<1> QED BY <1>1, <1>2, <1>3, <1>4 DEF Holder, WriteCheck, WritePut, RegisterWritten, IngestCheck,
      IngestPut, IngestPutFails, IngestRollback, IngestSettled, UpdateRead, UpdateCheck, UpdatePut,
      UpdateRegister, DeleteCheck, DeleteDo, DeleteRegister, SyncPrune, FlushCheck, FlushGraph,
      FlushNames, FlushWrite, FlushFails, StorageFails, Release, Goto

LEMMA HolderIsFresh ==
    ASSUME IInv, StaleInv, Owned, NEW t \in Tasks, Holder(t), IInv'
    PROVE  StaleInv'
<1>1. lock = t
  BY DEF Holder, At, WriteCheck, WritePut, RegisterWritten, IngestCheck, IngestPut,
      IngestPutFails, IngestRollback, IngestSettled, UpdateRead, UpdateCheck, UpdatePut,
      UpdateRegister, DeleteCheck, DeleteDo, DeleteRegister, SyncList, SyncStat, SyncLoad,
      SyncPrune, FlushCheck, FlushGraph, FlushNames, FlushWrite, FlushFails, StorageFails
<1>2. phase' = phase
  BY DEF Holder, WriteCheck, WritePut, RegisterWritten, IngestCheck, IngestPut,
      IngestPutFails, IngestRollback, IngestSettled, UpdateRead, UpdateCheck, UpdatePut,
      UpdateRegister, DeleteCheck, DeleteDo, DeleteRegister, SyncList, SyncStat, SyncLoad,
      SyncPrune, FlushCheck, FlushGraph, FlushNames, FlushWrite, FlushFails, StorageFails
<1>3. phase' = "ready" /\ LoadNow'
  BY <1>1, <1>2, HolderIs DEF LoadNow
<1> QED BY <1>3, HolderMoves, HolderSees, HolderStamps, StaleStep

LEMMA IntoUpdate ==
    ASSUME NEW t \in Tasks, Holder(t), stage' \in {"updateCheck", "updatePut"}
    PROVE  UpdateRead(t) \/ UpdateCheck(t)
BY DEF Holder, WriteCheck, WritePut, RegisterWritten, IngestCheck, IngestPut, IngestPutFails,
       IngestRollback, IngestSettled, UpdatePut, UpdateRegister, DeleteCheck, DeleteDo,
       DeleteRegister, SyncList, SyncStat, SyncLoad, SyncPrune, FlushCheck, FlushGraph,
       FlushNames, FlushWrite, FlushFails, StorageFails, Release, Goto

LEMMA OwnedStays ==
    ASSUME IInv, StaleInv, Owned, [Next]_vars
    PROVE  Owned'
<1> SUFFICES ASSUME stage' \in {"updateCheck", "updatePut"} PROVE call'[lock'].ids \subseteq born'
  BY DEF Owned
<1>1. lock = None => stage = "none"
  BY DEF IInv, TypeOK, LockTypes
<1>2. CASE lock # None /\ UNCHANGED lockVars /\ call'[lock] = call[lock] /\ born \subseteq born'
  BY <1>2 DEF Owned, lockVars
<1>3. CASE Boot
  BY <1>1, <1>3, LoadingUnlocked DEF Boot, Startup, StartupDone, LoadWarm, LoadColdGet,
     LoadColdStat, lockVars
<1>4. CASE Crash
  BY <1>4 DEF Crash
<1>5. CASE Environment
  <2>1. UNCHANGED <<lockVars, callVars>> /\ born \subseteq born'
    BY <1>5 DEF Environment, Corrupted, Removed, Restored, Arrives, Edited, Outside
  <2> QED BY <1>1, <1>2, <2>1 DEF lockVars, callVars
<1>6. ASSUME NEW t \in Tasks, Acquire(t) PROVE FALSE
  BY <1>6 DEF Acquire, Wants, Waiting, LockedOps
<1>7. ASSUME NEW t \in Tasks,
             Invoke(t) \/ Busy(t) \/ ReadHit(t) \/ ReadMiss(t) \/ ReadMissLate(t) \/ ReadGone(t)
      PROVE  call'[lock'].ids \subseteq born'
  <2>1. UNCHANGED <<diskVars, lockVars>>
    BY <1>7 DEF Invoke, Busy, ReadHit, ReadMiss, ReadMissLate, ReadGone
  <2>2. lock # None
    BY <1>1, <2>1 DEF lockVars
  <2>3. call'[lock] = call[lock]
    BY <1>7, <2>2, OthersAreSteady DEF Steady
  <2> QED BY <1>2, <2>1, <2>2, <2>3 DEF diskVars
<1>8. ASSUME NEW t \in Tasks, Holder(t) PROVE call'[lock'].ids \subseteq born'
  <2>1. CASE UpdateRead(t)
    <3>1. PICK id \in call[t].ids : Readable(id)
      BY <2>1 DEF UpdateRead, Release
    <3>2. lock = t /\ call'[lock'] = call[t] /\ born' = born /\ stage = "update"
      BY <2>1 DEF UpdateRead, Release, Goto, At, callVars, diskVars
    <3>3. call[t].op = "update"
      BY <3>2, StageTellsOp
    <3>4. call[t].ids = {id} /\ id \in Ids
      BY <3>1, <3>3 DEF IInv, CallInv
    <3>5. id \in born
      BY <3>1, <3>4 DEF Readable, Present, StaleInv, Aged
    <3> QED BY <3>2, <3>4, <3>5
  <2>2. CASE UpdateCheck(t)
    <3>1. lock = t /\ lock' = t /\ call' = call /\ born' = born /\ stage = "updateCheck"
      BY <2>2 DEF UpdateCheck, Release, Goto, At, callVars, diskVars
    <3> QED BY <3>1 DEF Owned
  <2> QED BY <1>8, <2>1, <2>2, IntoUpdate
<1>9. CASE UNCHANGED vars
  BY <1>9 DEF vars, lockVars, callVars, diskVars, Owned
<1> QED BY <1>3, <1>4, <1>5, <1>6, <1>7, <1>8, <1>9 DEF Next, Step

LEMMA NextIsFresh ==
    ASSUME Undisturbed
    PROVE  IInv /\ StaleInv /\ Owned /\ [Next]_vars => StaleInv'
<1> SUFFICES ASSUME IInv, StaleInv, Owned, [Next]_vars PROVE StaleInv'
  OBVIOUS
<1>1. IInv'
  BY NextKeeps
<1>2. CASE Next
  BY <1>1, <1>2, BootIsFresh, CrashIsFresh, OutsideIsFresh, OthersAreFresh, HolderIsFresh DEF Next, Step
<1>3. CASE UNCHANGED vars
  <2>1. UNCHANGED <<diskVars, lockVars, meta, phase, boot>>
    BY <1>3 DEF vars, ramVars
  <2>2. Moves /\ SeenNow'
    BY <2>1, FilesStay, SyncStays DEF StaleInv
  <2>3. disk' = disk /\ LoadNow
    BY <2>1 DEF diskVars, StaleInv
  <2>4. LoadNow'
    BY <2>1, <2>3 DEF LoadNow, Still, diskVars
  <2>5. (phase' = "down" => meta' = NoIds) /\ \A id \in Ids : Stamp(id)
    BY <2>1 DEF StaleInv, Stamp
  <2> QED BY <1>1, <2>2, <2>4, <2>5, StaleStep
<1> QED BY <1>2, <1>3

LEMMA InitIsFresh == Init => StaleInv /\ Owned
<1> SUFFICES ASSUME Init PROVE StaleInv /\ Owned
  OBVIOUS
<1>1. Aged
  <2>1. \A v \in InitialFiles : v.at = 0
    BY VaultAssumption
  <2>2. \A id \in Ids : disk[id] # None => disk[id].at = 0 /\ id \in born
    BY <2>1 DEF Init, Present
  <2>3. clock = 0 /\ \A id \in Ids : trash[id] = None
    BY DEF Init, NoIds
  <2>4. \A id \in Ids : disk[id] # None => disk[id].at <= clock
    <3> SUFFICES ASSUME NEW id \in Ids, disk[id] # None PROVE disk[id].at <= clock
      OBVIOUS
    <3>1. disk[id].at = 0 /\ clock = 0 /\ 0 <= 0
      BY <2>2, <2>3
    <3> QED BY <3>1
  <2> QED BY <2>2, <2>3, <2>4 DEF Aged
<1>2. Stamped /\ LoadNow /\ SeenNow /\ Owned
  BY DEF Init, Stamped, LoadNow, SeenNow, Owned, NoIds
<1> QED BY <1>1, <1>2 DEF Init, StaleInv

LEMMA StaleHolds == ASSUME Undisturbed PROVE Spec => [](StaleInv /\ Owned)
<1>1. IInv /\ StaleInv /\ Owned /\ [Next]_vars => IInv' /\ StaleInv' /\ Owned'
  BY NextKeeps, NextIsFresh, OwnedStays
<1> QED BY <1>1, InitInv, InitIsFresh, PTL DEF Spec

(* When no file is replaced during a startup, though files may come and go, *)
(* RAM never records the mtime of one version for the content of another,   *)
(* whatever the outside does later and whatever is cached, restored, lost   *)
(* in a crash or delivered late: a file that differs from RAM is noticed by *)
(* the next sync.                                                           *)
THEOREM NoSilentStalenessHolds ==
    ASSUME EnvAtBoot => EnvKinds \cap {"edit", "corrupt"} = {}
    PROVE  Spec => []NoSilentStaleness
<1>1. StaleInv => NoSilentStaleness
  BY DEF StaleInv, Stamped, Dead, NoSilentStaleness, InRam, Present
<1> QED BY <1>1, StaleHolds, PTL DEF Undisturbed

(***************************************************************************)
(* The index and the metadata.  What is said under NoEdit holds while       *)
(* nobody edits a file underneath the vault.                                *)
(***************************************************************************)

NoEdit == "edit" \notin EnvKinds

(* What a vault with an index cache is shown right under: files come and go *)
(* but are not edited or put back, and no failed read is delivered late.    *)
Calm == NoEdit /\ Undisturbed /\ "restore" \notin EnvKinds /\ ~LateMiss

(* Where nobody flushes, nothing is ever cached: every startup is a cold    *)
(* one.                                                                     *)
ColdInv ==
    "flush" \notin Ops =>
        /\ cache = None /\ ~boot.warm
        /\ \A t \in Tasks : call[t].op # "flush"

DownInv == phase = "down" => meta = NoIds /\ index = EmptyIndex

LoadInv ==
    /\ phase # "loading" => boot = NoBoot
    /\ IF boot.warm THEN boot.got = NoIds ELSE boot.failed = {}
    /\ \A id \in Ids : /\ id \in boot.todo => boot.got[id] = None
                       /\ id \in boot.todo \/ boot.got[id] # None => meta[id] = None

(* An id without a file so far is known nowhere.                            *)
BornInv ==
    \A id \in Ids \ born :
       /\ disk[id] = None /\ trash[id] = None
       /\ meta[id] = None /\ boot.got[id] = None
       /\ work.seen[id] = None

(* What the holder remembers of RAM is what RAM still has, or has dropped.  *)
Early == {"none", "write", "writePut", "ingest", "update", "updateCheck", "updatePut",
          "delete", "deleteDo", "deleteRegister", "sync"}

HoldInv ==
    /\ stage \in Early => work.seen = NoIds
    /\ stage \in {"register", "ingestPut"} => \A id \in Ids : work.seen[id] # None => meta[id] = None
    /\ stage = "ingestPut" => \A id \in work.todo : meta[id] = None
    /\ stage \in {"updateCheck", "updatePut", "updateRegister"} =>
          \A id \in call[lock].ids : work.known[id] \in Version /\ id \in born
    /\ stage = "updateRegister" => \A id \in Ids : work.seen[id] # None <=> id \in call[lock].ids
    /\ stage \in {"deleteDo", "deleteRegister"} =>
          \A id \in call[lock].ids :
             work.known[id] \in Version /\ (meta[id] = None \/ meta[id].of = work.known[id])
    /\ stage = "syncFiles" =>
          \A id \in Ids : /\ id \in work.todo => work.seen[id] = None
                          /\ id \in work.todo \/ work.seen[id] # None => meta[id] \in {None, work.known[id]}

(* The file of id has the text x, or will have if it is put back.           *)
Carries(id, x) ==
    /\ disk[id] # None => disk[id].txt = x
    /\ disk[id] = None /\ trash[id] # None => trash[id].txt = x

(* The memento whose file was just written or removed.                      *)
Leaving(id) == stage \in {"updateRegister", "deleteRegister"} /\ id \in call[lock].ids

TextInv ==
    /\ \A id \in Ids : meta[id] # None /\ ~Leaving(id) => Carries(id, meta[id].of.txt)
    /\ \A id \in Ids : boot.got[id] # None => Carries(id, boot.got[id].txt)
    /\ stage \in {"register", "ingestPut", "updateRegister"} =>
          \A id \in Ids : work.seen[id] # None => Carries(id, work.seen[id].txt)
    /\ stage \in {"updateCheck", "updatePut", "updateRegister"} =>
          \A id \in call[lock].ids : meta[id] # None => work.known[id].txt = meta[id].of.txt

Right == \A id \in Ids : meta[id] # None =>
             \A k \in ChunkKeys(id, meta[id].of) : index.strToNum[k] = meta[id].of

Clean == \A k \in Key : index.strToNum[k] # None =>
             meta[k[1]] # None /\ k \in ChunkKeys(k[1], meta[k[1]].of)

Named == index.native \subseteq index.numToStr

(* Every label is the newest of its key and alive, in an index.             *)
ExactIn(ix) ==
    /\ ix.native = ix.numToStr
    /\ \A l \in ix.native : l[2] = ix.strToNum[l[1]]
    /\ \A k \in Key : ix.strToNum[k] # None => <<k, ix.strToNum[k]>> \in ix.native

(* A warm startup begins with the chunks of mementos it has yet to load.    *)
RamInv == Right /\ Named /\ (NoEdit => ExactIn(index) /\ (~boot.warm => Clean))

KeepInv == ColdInv /\ DownInv /\ LoadInv /\ BornInv /\ HoldInv /\ (NoEdit => TextInv)

(* A snapshot of the directory, as {id, mtime} pairs: the labels an index   *)
(* of those files has, whether the directory is as the snapshot says, and   *)
(* whether no later write can have the mtimes in it.                        *)
LabelsOf(es) == UNION {{<<k, e[2]>> : k \in ChunkKeys(e[1], e[2])} : e \in es}
Live(es)     == \A e \in es : e[2] # None /\ disk[e[1]] = e[2]
Past(es)     == \A e \in es : e[2] # None => e[2].at <= clock

Holds(es, labels) == Live(es) => labels = LabelsOf(es)

CacheInv ==
    cache # None => /\ Past(cache.entries)
                    /\ Holds(cache.entries, cache.native) /\ Holds(cache.entries, cache.names)

(* While a flush goes on, whatever it has yet to take from RAM still fits   *)
(* the entries it took first, or the directory no longer does.              *)
Covers(es) == \A id \in InRam : \E e \in es : e[1] = id

FlushInv ==
    /\ stage \in {"flushGraph", "flushNames", "flushWrite"} => Past(work.entries)
    /\ stage \in {"flushGraph", "flushNames"} =>
          Covers(work.entries) /\ Holds(work.entries, index.native)
    /\ stage \in {"flushNames", "flushWrite"} => Holds(work.entries, work.native)
    /\ stage = "flushWrite" => Holds(work.entries, work.names)

(* A warm startup: what was listed is loaded, failed or to be loaded, and   *)
(* the index is the one of what was listed.                                 *)
WarmInv ==
    boot.warm =>
        /\ \A id \in Ids :
              /\ boot.mtimes[id] # None <=> id \in boot.todo \cup boot.failed \cup InRam
              /\ id \in boot.todo \cup boot.failed => meta[id] = None
              /\ id \in boot.todo => id \notin boot.failed
              /\ meta[id] # None => meta[id].of = boot.mtimes[id]
        /\ \A k \in Key :
              index.strToNum[k] = IF boot.mtimes[k[1]] # None /\ k \in ChunkKeys(k[1], boot.mtimes[k[1]])
                                    THEN boot.mtimes[k[1]] ELSE None

Elder ==
    \A id \in Ids : /\ meta[id] # None /\ meta[id].mtime # None => meta[id].mtime.at <= clock
                    /\ work.seen[id] # None => work.seen[id].at <= clock

NoReturn == trash = NoIds /\ \A t \in Tasks : pc[t] # "gone"

SnapInv == CacheInv /\ FlushInv /\ WarmInv /\ Elder /\ NoReturn

JInv == IInv /\ KeepInv /\ RamInv /\ (Calm => StaleInv /\ Owned /\ SnapInv)

LEMMA NowCold == ASSUME JInv, phase = "ready" PROVE ~boot.warm
BY DEF JInv, KeepInv, LoadInv, NoBoot

LEMMA HolderCold == ASSUME JInv, NEW t \in Tasks, lock = t PROVE ~boot.warm
BY HolderIs, NowCold DEF JInv

(***************************************************************************)
(* add and remove                                                           *)
(***************************************************************************)

LEMMA AddGives ==
    ASSUME NEW ix \in Index, NEW f
    PROVE  /\ \A k \in Key : Add(ix, f).strToNum[k] = IF k \in DOMAIN f THEN f[k] ELSE ix.strToNum[k]
           /\ ix.native \subseteq ix.numToStr => Add(ix, f).native \subseteq Add(ix, f).numToStr
BY DEF Add

LEMMA RemoveGives ==
    ASSUME NEW ix \in Index, NEW keys
    PROVE  /\ \A k \in Key : Remove(ix, keys).strToNum[k] = IF k \in keys THEN None ELSE ix.strToNum[k]
           /\ ix.native \subseteq ix.numToStr => Remove(ix, keys).native \subseteq Remove(ix, keys).numToStr
BY DEF Remove

LEMMA RemoveNothing == ASSUME NEW ix \in Index PROVE Remove(ix, {}) = ix
<1>1. ix = [strToNum |-> ix.strToNum, numToStr |-> ix.numToStr, native |-> ix.native]
  BY DEF Index
<1>2. [k \in Key |-> IF k \in {} THEN None ELSE ix.strToNum[k]] = ix.strToNum
  BY DEF Index
<1>3. {<<k, ix.strToNum[k]>> : k \in {}} = {}
  OBVIOUS
<1> QED BY <1>1, <1>2, <1>3 DEF Remove

(* What add and remove do to an index without stray labels.                 *)
LEMMA AddExact ==
    ASSUME NEW ix \in Index, ExactIn(ix), NEW f, DOMAIN f \subseteq Key,
           \A k \in DOMAIN f : ix.strToNum[k] = None /\ f[k] # None
    PROVE  ExactIn(Add(ix, f))
<1> DEFINE new == {<<k, f[k]>> : k \in DOMAIN f}
           out == Add(ix, f)
<1>1. /\ out.native = ix.native \cup new /\ out.numToStr = ix.numToStr \cup new
      /\ \A k \in Key : out.strToNum[k] = IF k \in DOMAIN f THEN f[k] ELSE ix.strToNum[k]
  BY DEF Add
<1>2. \A l \in ix.native : l[1] \in Key /\ l[2] # None
  BY NoneAssumption DEF Index, Labels
<1>3. \A l \in new : l[1] \in DOMAIN f /\ l[2] = f[l[1]]
  OBVIOUS
<1>4. \A l \in out.native : l[2] = out.strToNum[l[1]]
  BY <1>1, <1>2, <1>3 DEF ExactIn
<1>5. \A k \in Key : out.strToNum[k] # None => <<k, out.strToNum[k]>> \in out.native
  BY <1>1 DEF ExactIn
<1> HIDE DEF out, new
<1>6. ExactIn(out)
  BY <1>1, <1>4, <1>5 DEF ExactIn
<1> QED BY <1>6 DEF out

LEMMA RemoveExact ==
    ASSUME NEW ix \in Index, ExactIn(ix), NEW keys
    PROVE  ExactIn(Remove(ix, keys))
<1> DEFINE gone == {<<k, ix.strToNum[k]>> : k \in keys}
           out == Remove(ix, keys)
<1>1. /\ out.native = ix.native \ gone /\ out.numToStr = ix.numToStr \ gone
      /\ \A k \in Key : out.strToNum[k] = IF k \in keys THEN None ELSE ix.strToNum[k]
  BY DEF Remove
<1>2. \A l \in ix.native : l[1] \in Key /\ l = <<l[1], l[2]>>
  BY DEF Index, Labels
<1>3. \A l \in out.native : l[2] = out.strToNum[l[1]]
  <2> SUFFICES ASSUME NEW l \in out.native PROVE l[2] = out.strToNum[l[1]]
    OBVIOUS
  <2>1. l \in ix.native /\ l[1] \in Key /\ l = <<l[1], l[2]>> /\ l[2] = ix.strToNum[l[1]]
    BY <1>1, <1>2 DEF ExactIn
  <2>2. l[1] \notin keys
    BY <1>1, <2>1
  <2> QED BY <1>1, <2>1, <2>2
<1>4. \A k \in Key : out.strToNum[k] # None => <<k, out.strToNum[k]>> \in out.native
  BY <1>1 DEF ExactIn
<1> HIDE DEF out, gone
<1>5. ExactIn(out)
  BY <1>1, <1>3, <1>4 DEF ExactIn
<1> QED BY <1>5 DEF out

(* A chunk key names its memento.                                           *)
LEMMA KeyOf ==
    /\ \A id \in Ids : \A v \in Version : \A k \in ChunkKeys(id, v) : k \in Key /\ k[1] = id
    /\ \A k \in Key : k[1] \in Ids
    /\ \A id \in Ids : \A v \in Version : \A w \in Version :
          v.txt = w.txt => ChunkKeys(id, v) = ChunkKeys(id, w)
<1>1. ASSUME NEW id \in Ids, NEW v \in Version, NEW k \in ChunkKeys(id, v) PROVE k \in Key /\ k[1] = id
  BY ChunkKeysType DEF ChunkKeys
<1> QED BY <1>1 DEF Key, ChunkKeys

LEMMA MetaTyped ==
    ASSUME RamTypes, NEW id \in Ids, meta[id] # None
    PROVE  meta[id].of \in Version
BY DEF RamTypes, MaybeMeta, Meta

(***************************************************************************)
(* What the operations do to RAM                                            *)
(***************************************************************************)

(* One memento is loaded anew, its old chunks, old, are removed first.      *)
LEMMA PutRam ==
    ASSUME RamTypes, RamInv, ~boot.warm,
           NEW id \in Ids, NEW v \in Version, NEW m \in Version \cup {None}, NEW old,
           Register(id, v, m),
           index' = Add(Remove(index, old), OneChunked(id, v)),
           \A k \in old : k[1] = id,
           NoEdit /\ meta[id] # None => ChunkKeys(id, meta[id].of) \subseteq old
    PROVE  RamInv'
<1> DEFINE ix == Remove(index, old)
<1>1. ix \in Index
  BY RemoveType DEF RamTypes
<1>2. /\ meta' = [meta EXCEPT ![id] = [of |-> v, mtime |-> m]]
      /\ \A j \in Ids : j # id => meta'[j] = meta[j]
      /\ meta'[id] # None /\ meta'[id].of = v
  BY MetaAssumption DEF Register, RamTypes, Meta
<1>3. /\ \A k \in Key : index'.strToNum[k] =
            IF k \in ChunkKeys(id, v) THEN v ELSE IF k \in old THEN None ELSE index.strToNum[k]
      /\ Named'
  <2>1. \A k \in Key : ix.strToNum[k] = IF k \in old THEN None ELSE index.strToNum[k]
    BY RemoveGives DEF RamTypes
  <2>2. ix.native \subseteq ix.numToStr
    BY RemoveGives DEF RamTypes, RamInv, Named
  <2>3. index' = Add(ix, OneChunked(id, v))
    OBVIOUS
  <2>4. DOMAIN OneChunked(id, v) = ChunkKeys(id, v) /\ \A k \in ChunkKeys(id, v) : OneChunked(id, v)[k] = v
    BY DEF OneChunked
  <2> HIDE DEF ix
  <2> QED BY <1>1, <2>1, <2>2, <2>3, <2>4, AddGives DEF Named
<1>4. Right'
  <2> SUFFICES ASSUME NEW j \in Ids, meta'[j] # None, NEW k \in ChunkKeys(j, meta'[j].of)
               PROVE  index'.strToNum[k] = meta'[j].of
    BY DEF Right
  <2>1. CASE j = id
    BY <1>2, <1>3, <2>1, KeyOf
  <2>2. CASE j # id
    <3>1. meta[j] # None /\ meta'[j] = meta[j] /\ meta[j].of \in Version
      BY <1>2, <2>2, MetaTyped
    <3>2. k \in Key /\ k[1] = j
      BY <3>1, KeyOf
    <3>3. index.strToNum[k] = meta[j].of
      BY <3>1 DEF RamInv, Right
    <3> QED BY <1>3, <2>2, <3>1, <3>2, <3>3, KeyOf
  <2> QED BY <2>1, <2>2
<1>5. ASSUME NoEdit PROVE Clean'
  <2> SUFFICES ASSUME NEW k \in Key, index'.strToNum[k] # None
               PROVE  meta'[k[1]] # None /\ k \in ChunkKeys(k[1], meta'[k[1]].of)
    BY DEF Clean
  <2>1. CASE k \in ChunkKeys(id, v)
    BY <1>2, <2>1, KeyOf
  <2>2. CASE k \notin ChunkKeys(id, v)
    <3>1. index.strToNum[k] # None /\ k \notin old
      BY <1>3, <2>2
    <3>2. meta[k[1]] # None /\ k \in ChunkKeys(k[1], meta[k[1]].of)
      BY <1>5, <3>1 DEF RamInv, Clean
    <3>3. k[1] # id /\ k[1] \in Ids
      BY <1>5, <3>1, <3>2, KeyOf
    <3> QED BY <1>2, <3>2, <3>3
  <2> QED BY <2>1, <2>2
<1>6. ASSUME NoEdit PROVE ExactIn(index')
  <2>1. ix \in Index /\ ExactIn(ix) /\ \A k \in Key : ix.strToNum[k] = IF k \in old THEN None ELSE index.strToNum[k]
    BY <1>1, <1>6, RemoveExact, RemoveGives DEF RamTypes, RamInv
  <2>2. DOMAIN OneChunked(id, v) = ChunkKeys(id, v) /\ \A k \in ChunkKeys(id, v) : OneChunked(id, v)[k] = v
    BY DEF OneChunked
  <2>3. \A k \in ChunkKeys(id, v) : k \in Key /\ k[1] = id
    BY KeyOf
  <2>4. ASSUME NEW k \in ChunkKeys(id, v) PROVE ix.strToNum[k] = None
    <3>1. index.strToNum[k] # None => meta[id] # None /\ k \in ChunkKeys(id, meta[id].of)
      BY <1>6, <2>3 DEF RamInv, Clean
    <3> QED BY <1>6, <2>1, <2>3, <3>1
  <2> HIDE DEF ix
  <2>5. ExactIn(Add(ix, OneChunked(id, v)))
    BY <2>1, <2>2, <2>3, <2>4, AddExact, NoneAssumption
  <2> QED BY <2>5 DEF ix
<1> QED BY <1>3, <1>4, <1>5, <1>6 DEF RamInv

(* Mementos are dropped together with the chunks RAM has of them.           *)
LEMMA DropRam ==
    ASSUME RamTypes, RamInv, ~boot.warm, NEW ids, NEW keys,
           \A id \in Ids : meta'[id] = IF id \in ids THEN None ELSE meta[id],
           index' = Remove(index, keys),
           \A k \in keys : k[1] \in ids,
           \A id \in Ids : id \in ids /\ meta[id] # None => ChunkKeys(id, meta[id].of) \subseteq keys
    PROVE  RamInv'
<1>1. /\ \A k \in Key : index'.strToNum[k] = IF k \in keys THEN None ELSE index.strToNum[k]
      /\ Named'
  BY RemoveGives DEF RamTypes, RamInv, Named
<1>2. Right'
  <2> SUFFICES ASSUME NEW j \in Ids, meta'[j] # None, NEW k \in ChunkKeys(j, meta'[j].of)
               PROVE  index'.strToNum[k] = meta'[j].of
    BY DEF Right
  <2>1. j \notin ids /\ meta[j] # None /\ meta'[j] = meta[j] /\ meta[j].of \in Version
    BY MetaTyped
  <2>2. k \in Key /\ k[1] = j
    BY <2>1, KeyOf
  <2>3. index.strToNum[k] = meta[j].of
    BY <2>1 DEF RamInv, Right
  <2> QED BY <1>1, <2>1, <2>2, <2>3
<1>3. ASSUME NoEdit PROVE Clean'
  <2> SUFFICES ASSUME NEW k \in Key, index'.strToNum[k] # None
               PROVE  meta'[k[1]] # None /\ k \in ChunkKeys(k[1], meta'[k[1]].of)
    BY DEF Clean
  <2>1. index.strToNum[k] # None /\ k \notin keys
    BY <1>1
  <2>2. meta[k[1]] # None /\ k \in ChunkKeys(k[1], meta[k[1]].of)
    BY <1>3, <2>1 DEF RamInv, Clean
  <2>3. k[1] \in Ids
    BY KeyOf
  <2> QED BY <2>1, <2>2, <2>3
<1>4. NoEdit => ExactIn(index')
  BY RemoveExact DEF RamTypes, RamInv
<1> QED BY <1>1, <1>2, <1>3, <1>4 DEF RamInv

LEMMA UnregisterRam ==
    ASSUME RamTypes, RamInv, ~boot.warm, NEW ids \in SUBSET InRam, Unregister(ids)
    PROVE  RamInv' /\ \A id \in Ids : meta'[id] = IF id \in ids THEN None ELSE meta[id]
<1> DEFINE keys == UNION {ChunkKeys(id, meta[id].of) : id \in ids}
<1>1. index' = Remove(index, keys) /\ \A id \in Ids : meta'[id] = IF id \in ids THEN None ELSE meta[id]
  BY DEF Unregister
<1>2. ASSUME NEW k \in keys PROVE k[1] \in ids
  <2>1. PICK id \in ids : k \in ChunkKeys(id, meta[id].of)
    OBVIOUS
  <2> QED BY <2>1 DEF ChunkKeys
<1>3. \A id \in Ids : id \in ids /\ meta[id] # None => ChunkKeys(id, meta[id].of) \subseteq keys
  OBVIOUS
<1> HIDE DEF keys
<1> QED BY <1>1, <1>2, <1>3, DropRam

(* Everything in work.seen is registered, after the chunks in drop went.    *)
LEMMA AllRam ==
    ASSUME RamTypes, RamInv, ~boot.warm, work \in Work, NEW drop, RegisterAll(Remove(index, drop)),
           \A k \in drop : work.seen[k[1]] # None,
           NoEdit => \A id \in Ids : work.seen[id] # None /\ meta[id] # None
                                        => ChunkKeys(id, meta[id].of) \subseteq drop
    PROVE  RamInv'
<1> DEFINE new  == {id \in Ids : work.seen[id] # None}
           keys == UNION {ChunkKeys(id, work.seen[id]) : id \in new}
           f    == [k \in keys |-> work.seen[k[1]]]
           ix   == Remove(index, drop)
<1>1. \A id \in new : work.seen[id] \in Version
  BY DEF Work, MaybeVersion
<1>2. \A id \in Ids : meta'[id] = IF id \in new THEN [of |-> work.seen[id], mtime |-> work.seen[id]]
                                               ELSE meta[id]
  BY DEF RegisterAll
<1>3. \A id \in new : meta'[id] # None /\ meta'[id].of = work.seen[id]
  <2> SUFFICES ASSUME NEW id \in new PROVE meta'[id] # None /\ meta'[id].of = work.seen[id]
    OBVIOUS
  <2>1. [of |-> work.seen[id], mtime |-> work.seen[id]] \in Meta
    BY <1>1 DEF Meta
  <2>2. meta'[id] = [of |-> work.seen[id], mtime |-> work.seen[id]]
    BY <1>2
  <2> QED BY <2>1, <2>2, MetaAssumption
<1>4. \A id \in new : \A k \in ChunkKeys(id, work.seen[id]) : k \in keys /\ k \in Key /\ k[1] = id
  BY <1>1, KeyOf
<1>5. \A k \in keys : k[1] \in new /\ k \in ChunkKeys(k[1], work.seen[k[1]])
  BY <1>4
<1>6. /\ \A k \in Key : index'.strToNum[k] =
            IF k \in keys THEN work.seen[k[1]] ELSE IF k \in drop THEN None ELSE index.strToNum[k]
      /\ Named'
  <2>1. ix \in Index
    BY RemoveType DEF RamTypes
  <2>2. \A k \in Key : ix.strToNum[k] = IF k \in drop THEN None ELSE index.strToNum[k]
    BY RemoveGives DEF RamTypes
  <2>3. ix.native \subseteq ix.numToStr
    BY RemoveGives DEF RamTypes, RamInv, Named
  <2>4. index' = Add(ix, f)
    BY DEF RegisterAll
  <2>5. DOMAIN f = keys /\ \A k \in keys : f[k] = work.seen[k[1]]
    OBVIOUS
  <2> HIDE DEF ix, f, keys, new
  <2> QED BY <2>1, <2>2, <2>3, <2>4, <2>5, AddGives DEF Named
<1> HIDE DEF keys, f, ix
<1>7. Right'
  <2> SUFFICES ASSUME NEW j \in Ids, meta'[j] # None, NEW k \in ChunkKeys(j, meta'[j].of)
               PROVE  index'.strToNum[k] = meta'[j].of
    BY DEF Right
  <2>1. CASE j \in new
    BY <1>3, <1>4, <1>6, <2>1
  <2>2. CASE j \notin new
    <3>1. meta[j] # None /\ meta'[j] = meta[j] /\ meta[j].of \in Version
      BY <1>2, <2>2, MetaTyped
    <3>2. k \in Key /\ k[1] = j
      BY <3>1, KeyOf
    <3>3. index.strToNum[k] = meta[j].of
      BY <3>1 DEF RamInv, Right
    <3>4. k \notin keys /\ k \notin drop
      BY <1>5, <2>2, <3>2
    <3> QED BY <1>6, <3>1, <3>2, <3>3, <3>4
  <2> QED BY <2>1, <2>2
<1>8. ASSUME NoEdit PROVE Clean'
  <2> SUFFICES ASSUME NEW k \in Key, index'.strToNum[k] # None
               PROVE  meta'[k[1]] # None /\ k \in ChunkKeys(k[1], meta'[k[1]].of)
    BY DEF Clean
  <2>1. k[1] \in Ids
    BY KeyOf
  <2>2. CASE k \in keys
    BY <1>3, <1>5, <2>2
  <2>3. CASE k \notin keys
    <3>1. index.strToNum[k] # None /\ k \notin drop
      BY <1>6, <2>3
    <3>2. meta[k[1]] # None /\ k \in ChunkKeys(k[1], meta[k[1]].of)
      BY <1>8, <3>1 DEF RamInv, Clean
    <3>3. k[1] \notin new
      BY <1>8, <2>1, <3>1, <3>2
    <3> QED BY <1>2, <2>1, <3>2, <3>3
  <2> QED BY <2>2, <2>3
<1>9. ASSUME NoEdit PROVE ExactIn(index')
  <2>1. ix \in Index /\ ExactIn(ix) /\ \A k \in Key : ix.strToNum[k] = IF k \in drop THEN None ELSE index.strToNum[k]
    BY <1>9, RemoveType, RemoveExact, RemoveGives DEF ix, RamTypes, RamInv
  <2>2. index' = Add(ix, f) /\ DOMAIN f = keys /\ \A k \in keys : f[k] = work.seen[k[1]]
    BY DEF RegisterAll, ix, f, keys, new
  <2>3. \A k \in keys : k \in Key /\ k[1] \in Ids /\ f[k] # None
    BY <1>4, <1>5, <2>2
  <2>4. ASSUME NEW k \in keys PROVE ix.strToNum[k] = None
    <3>1. index.strToNum[k] # None => meta[k[1]] # None /\ k \in ChunkKeys(k[1], meta[k[1]].of)
      BY <1>9, <2>3 DEF RamInv, Clean
    <3>2. work.seen[k[1]] # None
      BY <1>5
    <3> QED BY <1>9, <2>1, <2>3, <3>1, <3>2
  <2> QED BY <2>1, <2>2, <2>3, <2>4, AddExact
<1> QED BY <1>6, <1>7, <1>8, <1>9 DEF RamInv

LEMMA SameRam == RamInv /\ UNCHANGED <<meta, index>> /\ (~boot'.warm => ~boot.warm) => RamInv'
BY DEF RamInv, Right, Named, Clean, ExactIn

(***************************************************************************)
(* What keeps KeepInv                                                       *)
(***************************************************************************)

(* Once the vault is ready, startup and the cache play no part.             *)
LEMMA ReadyKeeps ==
    ASSUME KeepInv, phase = "ready", UNCHANGED <<phase, boot>>,
           "flush" \notin Ops => cache' = cache /\ \A t \in Tasks : call'[t].op # "flush"
    PROVE  /\ ColdInv' /\ DownInv' /\ LoadInv'
           /\ boot'.got = NoIds
<1>1. boot = NoBoot
  BY DEF KeepInv, LoadInv
<1> QED BY <1>1 DEF KeepInv, ColdInv, DownInv, LoadInv, NoBoot, NoIds

(* A call that ends calls for nothing new.                                  *)
LEMMA EndCalls ==
    ASSUME IInv, ColdInv, NEW t \in Tasks, NEW ok \in BOOLEAN, EndOf(t, ok)
    PROVE  "flush" \notin Ops => \A u \in Tasks : call'[u].op # "flush"
<1>1. \A u \in Tasks : call'[u] = call[u] \/ call'[u] = NoCall
  BY DEF EndOf, IInv, TypeOK, CallTypes
<1> QED BY <1>1 DEF ColdInv, NoCall

(* The holder lets go of the lock.                                          *)
LEMMA ReleaseIsKept ==
    ASSUME IInv, KeepInv, NEW t \in Tasks, NEW ok \in BOOLEAN, lock = t, Release(t, ok),
           UNCHANGED <<phase, boot>>, "flush" \notin Ops => cache' = cache,
           \A id \in Ids \ born' : disk'[id] = None /\ trash'[id] = None /\ meta'[id] = None,
           NoEdit => \A id \in Ids : meta'[id] # None => Carries(id, meta[id].of.txt)'
    PROVE  KeepInv'
<1>1. phase = "ready"
  BY HolderIs
<1>2. ColdInv' /\ DownInv' /\ LoadInv' /\ boot'.got = NoIds
  BY <1>1, EndCalls, ReadyKeeps DEF Release, KeepInv
<1>3. stage' = "none" /\ \A id \in Ids : work'.seen[id] = None /\ boot'.got[id] = None
  BY <1>2 DEF Release, NoWork, NoIds
<1>4. work'.seen = NoIds
  BY DEF Release, NoWork
<1>5. BornInv'
  BY <1>3 DEF BornInv
<1>6. HoldInv'
  BY <1>3, <1>4 DEF HoldInv, Early
<1>7. NoEdit => TextInv'
  BY <1>3 DEF TextInv
<1> QED BY <1>2, <1>5, <1>6, <1>7 DEF KeepInv

(* Somebody else takes a step: the holder's locals still say what they said.*)
LEMMA OthersAreKept ==
    ASSUME IInv, KeepInv, phase = "ready", UNCHANGED <<diskVars, cache, phase, boot, lockVars>>,
           "flush" \notin Ops => \A t \in Tasks : call'[t].op # "flush",
           lock # None => call'[lock] = call[lock],
           \A id \in Ids : meta'[id] \in {meta[id], None}
    PROVE  KeepInv'
<1>1. ColdInv' /\ DownInv' /\ LoadInv' /\ boot'.got = NoIds
  BY ReadyKeeps DEF KeepInv
<1>2. BornInv'
  BY DEF KeepInv, BornInv, diskVars, lockVars
<1>3. lock = None => stage = "none"
  BY DEF IInv, TypeOK, LockTypes
<1>4. stage' = stage /\ work' = work /\ lock' = lock /\ disk' = disk /\ trash' = trash /\ born' = born
  BY DEF lockVars, diskVars
<1>5. stage # "none" => call'[lock'] = call[lock]
  BY <1>3, <1>4
<1>6. HoldInv
  BY DEF KeepInv
<1>7. stage # "none" => lock \in Tasks /\ call[lock].ids \subseteq Ids
  BY <1>3 DEF IInv, TypeOK, LockTypes, CallTypes
<1>8. HoldInv'
  <2>1. CASE stage = "none"
    BY <1>4, <1>6, <2>1 DEF HoldInv, Early
  <2>2. CASE stage # "none"
    <3>1. work \in Work
      BY DEF IInv, TypeOK, LockTypes
    <3>2. \A id \in work.todo : id \in Ids
      BY <3>1 DEF Work
    <3> QED BY <1>4, <1>5, <1>6, <1>7, <2>2, <3>2 DEF HoldInv
  <2> QED BY <2>1, <2>2
<1>9. ASSUME NoEdit PROVE TextInv'
  <2>1. TextInv
    BY <1>9 DEF KeepInv
  <2>2. \A id \in Ids : Leaving(id)' <=> Leaving(id)
    BY <1>4, <1>5 DEF Leaving
  <2>3. \A id \in Ids : \A x : Carries(id, x) => Carries(id, x)'
    BY <1>4 DEF Carries
  <2>4. boot' = boot
    OBVIOUS
  <2>5. CASE stage = "none"
    BY <1>4, <2>1, <2>2, <2>3, <2>4, <2>5 DEF TextInv
  <2>6. CASE stage # "none"
    BY <1>4, <1>5, <1>7, <2>1, <2>2, <2>3, <2>4, <2>6 DEF TextInv
  <2> QED BY <2>5, <2>6
<1> QED BY <1>1, <1>2, <1>8, <1>9 DEF KeepInv

(***************************************************************************)
(* Startup, crashes and the outside                                         *)
(***************************************************************************)

LEMMA InitIsKept == Init => KeepInv /\ RamInv
<1> SUFFICES ASSUME Init PROVE KeepInv /\ RamInv
  OBVIOUS
<1>1. ColdInv /\ DownInv /\ LoadInv
  BY DEF Init, ColdInv, DownInv, LoadInv, NoBoot, NoCall, NoIds
<1>2. BornInv /\ HoldInv /\ TextInv
  BY DEF Init, BornInv, HoldInv, Early, TextInv, NoBoot, NoWork, NoIds, Present
<1>3. RamInv
  BY DEF Init, RamInv, Right, Named, Clean, ExactIn, EmptyIndex, NoIds
<1> QED BY <1>1, <1>2, <1>3 DEF KeepInv

(* Before the vault is ready nobody holds the lock.                         *)
LEMMA BootIsKept ==
    ASSUME IInv, phase # "ready", UNCHANGED <<lockVars, diskVars, callVars, cache>>,
           KeepInv, "flush" \notin Ops => ~boot'.warm,
           DownInv', LoadInv',
           \A id \in Ids \ born : meta'[id] = None /\ boot'.got[id] = None,
           NoEdit => \A id \in Ids :
              /\ meta'[id] # None => Carries(id, meta[id].of.txt)'
              /\ boot'.got[id] # None => Carries(id, boot.got[id].txt)'
    PROVE  KeepInv'
<1>1. stage' = "none" /\ work'.seen = NoIds /\ \A id \in Ids : work'.seen[id] = None
  BY LoadingUnlocked DEF IInv, TypeOK, LockTypes, lockVars, NoWork, NoIds
<1>2. ColdInv'
  BY DEF KeepInv, ColdInv, callVars
<1>3. BornInv'
  BY <1>1 DEF KeepInv, BornInv, diskVars
<1>4. HoldInv'
  BY <1>1 DEF HoldInv, Early
<1>5. NoEdit => TextInv'
  BY <1>1 DEF TextInv
<1> QED BY <1>2, <1>3, <1>4, <1>5 DEF KeepInv

LEMMA DiskLabels ==
    \A m : m \in LabelsOf(DiskEntries) <=>
       \E id \in Ids : disk[id] # None /\ \E j \in ChunkKeys(id, disk[id]) : m = <<j, disk[id]>>
<1>1. ASSUME NEW m \in LabelsOf(DiskEntries)
      PROVE  \E id \in Ids : disk[id] # None /\ \E j \in ChunkKeys(id, disk[id]) : m = <<j, disk[id]>>
  <2>1. PICK e \in DiskEntries : m \in {<<j, e[2]>> : j \in ChunkKeys(e[1], e[2])}
    BY DEF LabelsOf
  <2>2. PICK id \in Ids : disk[id] # None /\ e = <<id, disk[id]>>
    BY DEF DiskEntries, Present
  <2>3. e[1] = id /\ e[2] = disk[id]
    BY <2>2
  <2> QED BY <2>1, <2>2, <2>3
<1>2. ASSUME NEW m, NEW id \in Ids, disk[id] # None, NEW j \in ChunkKeys(id, disk[id]), m = <<j, disk[id]>>
      PROVE  m \in LabelsOf(DiskEntries)
  <2>1. PICK e : e = <<id, disk[id]>>
    OBVIOUS
  <2>2. e \in DiskEntries
    BY <1>2, <2>1 DEF DiskEntries, Present
  <2>3. e[1] = id /\ e[2] = disk[id]
    BY <2>1
  <2>4. m \in {<<i, e[2]>> : i \in ChunkKeys(e[1], e[2])}
    BY <1>2, <2>3
  <2> QED BY <2>2, <2>4 DEF LabelsOf
<1> QED BY <1>1, <1>2

(* An accepted cache holds the index of the files.                          *)
LEMMA LabelsOfDisk ==
    ASSUME DiskTypes, NEW k \in Key
    PROVE  NewestOf(LabelsOf(DiskEntries), k)
             = IF disk[k[1]] # None /\ k \in ChunkKeys(k[1], disk[k[1]]) THEN disk[k[1]] ELSE None
<1> DEFINE vs == {l[2] : l \in {m \in LabelsOf(DiskEntries) : m[1] = k}}
<1>1. \A m : m \in LabelsOf(DiskEntries) <=>
         \E id \in Ids : disk[id] # None /\ \E j \in ChunkKeys(id, disk[id]) : m = <<j, disk[id]>>
  BY DiskLabels
<1>2. \A id \in Ids : disk[id] # None => disk[id] \in Version /\ disk[id].at \in Nat
  BY DEF DiskTypes, MaybeVersion, Version
<1>3. \A id \in Ids : disk[id] # None => \A j \in ChunkKeys(id, disk[id]) : j[1] = id
  BY <1>2, KeyOf
<1>4. k[1] \in Ids
  BY KeyOf
<1>5. CASE disk[k[1]] # None /\ k \in ChunkKeys(k[1], disk[k[1]])
  <2>1. vs = {disk[k[1]]}
    <3>1. <<k, disk[k[1]]>> \in LabelsOf(DiskEntries)
      BY <1>1, <1>4, <1>5
    <3>2. ASSUME NEW m \in LabelsOf(DiskEntries), m[1] = k PROVE m[2] = disk[k[1]]
      <4>1. PICK id \in Ids : disk[id] # None /\ \E j \in ChunkKeys(id, disk[id]) : m = <<j, disk[id]>>
        BY <1>1
      <4>2. k \in ChunkKeys(id, disk[id]) /\ m[2] = disk[id]
        BY <3>2, <4>1
      <4> QED BY <1>3, <4>1, <4>2
    <3> QED BY <3>1, <3>2
  <2>2. disk[k[1]].at <= disk[k[1]].at
    BY <1>2, <1>4, <1>5
  <2>3. {v \in vs : \A w \in vs : w.at <= v.at} = {disk[k[1]]}
    BY <2>1, <2>2
  <2> QED BY <1>5, <2>3 DEF NewestOf
<1>6. CASE ~(disk[k[1]] # None /\ k \in ChunkKeys(k[1], disk[k[1]]))
  <2>1. ASSUME NEW m \in LabelsOf(DiskEntries), m[1] = k PROVE FALSE
    <3>1. PICK id \in Ids : disk[id] # None /\ \E j \in ChunkKeys(id, disk[id]) : m = <<j, disk[id]>>
      BY <1>1
    <3>2. k \in ChunkKeys(id, disk[id])
      BY <2>1, <3>1
    <3> QED BY <1>3, <1>6, <3>1, <3>2
  <2>2. vs = {}
    BY <2>1
  <2>3. {v \in vs : \A w \in vs : w.at <= v.at} = {}
    BY <2>2
  <2> QED BY <1>6, <2>3 DEF NewestOf
<1> QED BY <1>5, <1>6

(* Right after an accepted cache was read.                                  *)
LEMMA WarmBegins ==
    ASSUME JInv, Calm, Startup, boot'.warm
    PROVE  /\ \A k \in Key : index'.strToNum[k] =
                  IF disk[k[1]] # None /\ k \in ChunkKeys(k[1], disk[k[1]]) THEN disk[k[1]] ELSE None
           /\ index'.native = LabelsOf(DiskEntries) /\ index'.numToStr = LabelsOf(DiskEntries)
<1>1. cache # None /\ cache.entries = DiskEntries /\ index' = Load(cache.names, cache.native)
  BY DEF Startup, NoBoot
<1>2. Live(DiskEntries)
  BY DEF Live, DiskEntries, Present
<1>3. cache.names = LabelsOf(DiskEntries) /\ cache.native = LabelsOf(DiskEntries)
  BY <1>1, <1>2 DEF JInv, SnapInv, CacheInv, Holds
<1>4. index' = Load(LabelsOf(DiskEntries), LabelsOf(DiskEntries))
  BY <1>1, <1>3
<1> QED BY <1>4, LabelsOfDisk DEF Load, JInv, IInv, TypeOK

LEMMA StartupIsKept ==
    ASSUME "flush" \in Ops => Calm
    PROVE  JInv /\ Startup => KeepInv' /\ RamInv'
<1> SUFFICES ASSUME JInv, Startup PROVE KeepInv' /\ RamInv'
  OBVIOUS
<1>1. meta' = NoIds /\ boot'.got = NoIds /\ boot'.failed = {} /\ phase' = "loading"
  BY DEF Startup, NoBoot, JInv, KeepInv, DownInv
<1>2. "flush" \notin Ops => ~boot'.warm
  BY DEF Startup, NoBoot, JInv, KeepInv, ColdInv
<1>3. RamInv'
  <2>1. CASE ~boot'.warm
    <3>1. index' = EmptyIndex
      BY <2>1 DEF Startup, NoBoot
    <3> QED BY <1>1, <3>1 DEF RamInv, Right, Named, Clean, ExactIn, EmptyIndex, NoIds
  <2>2. CASE boot'.warm
    <3>1. /\ \A k \in Key : index'.strToNum[k] =
                  IF disk[k[1]] # None /\ k \in ChunkKeys(k[1], disk[k[1]]) THEN disk[k[1]] ELSE None
          /\ index'.native = LabelsOf(DiskEntries) /\ index'.numToStr = LabelsOf(DiskEntries)
      BY <1>2, <2>2, WarmBegins
    <3>2. \A m : m \in LabelsOf(DiskEntries) <=>
             \E id \in Ids : disk[id] # None /\ \E j \in ChunkKeys(id, disk[id]) : m = <<j, disk[id]>>
      BY DiskLabels
    <3>3. \A id \in Ids : disk[id] # None => \A j \in ChunkKeys(id, disk[id]) : j \in Key /\ j[1] = id
      BY KeyOf DEF JInv, IInv, TypeOK, DiskTypes, MaybeVersion
    <3>4. \A l \in LabelsOf(DiskEntries) : l[2] = index'.strToNum[l[1]]
      <4> SUFFICES ASSUME NEW l \in LabelsOf(DiskEntries) PROVE l[2] = index'.strToNum[l[1]]
        OBVIOUS
      <4>1. PICK id \in Ids : disk[id] # None /\ \E j \in ChunkKeys(id, disk[id]) : l = <<j, disk[id]>>
        BY <3>2
      <4>2. l[1] \in ChunkKeys(id, disk[id]) /\ l[2] = disk[id]
        BY <4>1
      <4>3. l[1] \in Key /\ l[1][1] = id
        BY <3>3, <4>1, <4>2
      <4> QED BY <3>1, <4>1, <4>2, <4>3
    <3>5. \A k \in Key : index'.strToNum[k] # None => <<k, index'.strToNum[k]>> \in LabelsOf(DiskEntries)
      <4> SUFFICES ASSUME NEW k \in Key, index'.strToNum[k] # None
                   PROVE  <<k, index'.strToNum[k]>> \in LabelsOf(DiskEntries)
        OBVIOUS
      <4>1. k[1] \in Ids /\ disk[k[1]] # None /\ k \in ChunkKeys(k[1], disk[k[1]]) /\ index'.strToNum[k] = disk[k[1]]
        BY <3>1, KeyOf
      <4> QED BY <3>2, <4>1
    <3>6. ExactIn(index')
      BY <3>1, <3>4, <3>5 DEF ExactIn
    <3> QED BY <1>1, <2>2, <3>1, <3>6 DEF RamInv, Right, Named, NoIds
  <2> QED BY <2>1, <2>2
<1>4. DownInv' /\ LoadInv'
  BY <1>1 DEF DownInv, LoadInv, NoIds
<1> QED BY <1>1, <1>2, <1>3, <1>4, BootIsKept DEF Startup, JInv, NoIds

(* A file listed by a warm startup is read as it was cached, or not at all. *)
LEMMA LoadWarmIsKept ==
    ASSUME "flush" \in Ops => Calm, JInv, NEW id \in Ids, LoadWarm(id)
    PROVE  KeepInv' /\ RamInv'
<1>1. Calm /\ "flush" \in Ops /\ phase = "loading" /\ phase' = phase /\ boot.warm /\ id \in boot.todo /\ index' = index
  BY DEF LoadWarm, JInv, KeepInv, ColdInv
<1>2. boot'.warm /\ boot'.todo = boot.todo \ {id} /\ boot'.got = boot.got
  BY <1>1 DEF LoadWarm, JInv, IInv, TypeOK, BootTypes
<1>3. /\ \A j \in Ids : j # id => meta'[j] = meta[j]
      /\ IF Readable(id) THEN meta'[id] # None /\ meta'[id].of = disk[id] ELSE meta'[id] = meta[id]
  <2>1. CASE Readable(id)
    <3>1. disk[id] \in Version /\ boot.mtimes[id] \in Version \cup {None}
      BY <2>1 DEF Readable, Present, JInv, IInv, TypeOK, DiskTypes, BootTypes, MaybeVersion
    <3>2. [of |-> disk[id], mtime |-> boot.mtimes[id]] \in Meta
      BY <3>1 DEF Meta
    <3>3. meta' = [meta EXCEPT ![id] = [of |-> disk[id], mtime |-> boot.mtimes[id]]]
      BY <2>1 DEF LoadWarm, Register
    <3> QED BY <2>1, <3>2, <3>3, MetaAssumption DEF JInv, IInv, TypeOK, RamTypes
  <2>2. CASE ~Readable(id)
    BY <2>2 DEF LoadWarm
  <2> QED BY <2>1, <2>2
<1>4. DownInv' /\ LoadInv'
  BY <1>1, <1>2, <1>3 DEF JInv, KeepInv, DownInv, LoadInv
<1>5. disk' = disk /\ trash' = trash /\ born' = born /\ stage = "none"
  BY <1>1, LoadingUnlocked DEF LoadWarm, diskVars, JInv, IInv, TypeOK, LockTypes
<1>6. \A j \in Ids \ born : meta'[j] = None /\ boot'.got[j] = None
  BY <1>2, <1>3 DEF JInv, KeepInv, BornInv, Readable, Present
<1>7. ASSUME NoEdit, NEW j \in Ids
      PROVE  /\ meta'[j] # None => Carries(j, meta[j].of.txt)'
             /\ boot'.got[j] # None => Carries(j, boot.got[j].txt)'
  <2>1. meta[j] # None => Carries(j, meta[j].of.txt)
    BY <1>5, <1>7 DEF JInv, KeepInv, TextInv, Leaving
  <2>2. boot.got[j] # None => Carries(j, boot.got[j].txt)
    BY <1>7 DEF JInv, KeepInv, TextInv
  <2> QED BY <1>2, <1>3, <1>5, <2>1, <2>2 DEF Carries, Readable, Present
<1>8. RamInv'
  <2>1. disk[id] # None => disk[id] = boot.mtimes[id]
    BY <1>1 DEF JInv, StaleInv, LoadNow, Still
  <2>2. \A k \in Key : index.strToNum[k] =
           IF boot.mtimes[k[1]] # None /\ k \in ChunkKeys(k[1], boot.mtimes[k[1]])
             THEN boot.mtimes[k[1]] ELSE None
    BY <1>1 DEF JInv, SnapInv, WarmInv
  <2>3. ASSUME NEW j \in Ids, meta'[j] # None, NEW k \in ChunkKeys(j, meta'[j].of)
        PROVE  index'.strToNum[k] = meta'[j].of
    <3>1. CASE meta'[j] = meta[j]
      BY <1>1, <2>3, <3>1 DEF JInv, RamInv, Right
    <3>2. CASE j = id /\ Readable(id)
      <4>1. meta'[j].of = disk[id] /\ disk[id] # None /\ disk[id] \in Version
        BY <1>3, <3>2 DEF Readable, Present, JInv, IInv, TypeOK, DiskTypes, MaybeVersion
      <4>2. k \in Key /\ k[1] = id
        BY <2>3, <3>2, <4>1, KeyOf
      <4> QED BY <1>1, <2>1, <2>2, <2>3, <3>2, <4>1, <4>2
    <3> QED BY <1>3, <3>1, <3>2
  <2>4. Right'
    BY <2>3 DEF Right
  <2>5. Named /\ (NoEdit => ExactIn(index))
    BY DEF JInv, RamInv
  <2>6. Named' /\ (NoEdit => ExactIn(index'))
    BY <1>1, <2>5 DEF Named
  <2> QED BY <1>2, <2>4, <2>6 DEF RamInv
<1> QED BY <1>1, <1>4, <1>5, <1>6, <1>7, <1>8, BootIsKept DEF LoadWarm, JInv

LEMMA LoadColdGetIsKept == ASSUME JInv, NEW id \in Ids, LoadColdGet(id) PROVE KeepInv' /\ RamInv'
<1>1. boot.todo \subseteq Ids /\ boot.got \in [Ids -> MaybeVersion]
  BY DEF JInv, IInv, TypeOK, BootTypes
<1>2. /\ boot'.todo = boot.todo \ {id} /\ ~boot'.warm /\ ~boot.warm /\ boot'.failed = boot.failed
      /\ \A j \in Ids : j # id => boot'.got[j] = boot.got[j]
      /\ boot'.got[id] # None => boot'.got[id] = disk[id] /\ disk[id] # None
  BY <1>1 DEF LoadColdGet, JInv, IInv, TypeOK, BootTypes, Readable, Present
<1>3. meta[id] = None /\ meta' = meta /\ phase' = phase /\ phase = "loading" /\ id \in boot.todo
  BY DEF LoadColdGet, ramVars, JInv, KeepInv, LoadInv
<1>4. DownInv' /\ LoadInv'
  BY <1>2, <1>3 DEF JInv, KeepInv, DownInv, LoadInv
<1>5. \A j \in Ids \ born : meta'[j] = None /\ boot'.got[j] = None
  BY <1>2, <1>3 DEF JInv, KeepInv, BornInv
<1>6. UNCHANGED <<diskVars, lockVars, callVars, cache>> /\ disk' = disk /\ trash' = trash /\ stage = "none"
  BY <1>3, LoadingUnlocked DEF LoadColdGet, diskVars, JInv, IInv, TypeOK, LockTypes
<1>7. ASSUME NoEdit, NEW j \in Ids
      PROVE  /\ meta'[j] # None => Carries(j, meta[j].of.txt)'
             /\ boot'.got[j] # None => Carries(j, boot.got[j].txt)'
  <2>1. meta[j] # None => Carries(j, meta[j].of.txt)
    BY <1>6, <1>7 DEF JInv, KeepInv, TextInv, Leaving
  <2>2. boot'.got[j] # None => Carries(j, boot'.got[j].txt)
    <3>1. CASE j = id
      BY <1>2, <3>1 DEF Carries
    <3>2. CASE j # id
      BY <1>2, <1>7, <3>2 DEF JInv, KeepInv, TextInv
    <3> QED BY <3>1, <3>2
  <2> QED BY <1>3, <1>6, <2>1, <2>2 DEF Carries
<1>8. RamInv'
  BY <1>2, SameRam DEF LoadColdGet, ramVars, JInv
<1> QED BY <1>2, <1>3, <1>4, <1>5, <1>6, <1>7, <1>8, BootIsKept DEF JInv

LEMMA LoadColdStatIsKept == ASSUME JInv, NEW id \in Ids, LoadColdStat(id) PROVE KeepInv' /\ RamInv'
<1>1. boot.todo \subseteq Ids /\ boot.got \in [Ids -> MaybeVersion] /\ boot.got[id] \in Version
  BY DEF LoadColdStat, JInv, IInv, TypeOK, BootTypes, MaybeVersion
<1>2. /\ boot'.todo = boot.todo /\ ~boot'.warm /\ ~boot.warm /\ boot'.failed = boot.failed
      /\ \A j \in Ids : boot'.got[j] = IF j = id THEN None ELSE boot.got[j]
  <2>1. ~boot.warm
    BY <1>1, NoneAssumption DEF JInv, KeepInv, LoadInv, NoIds
  <2> QED BY <1>1, <2>1 DEF LoadColdStat, JInv, IInv, TypeOK, BootTypes
<1>3. /\ \A j \in Ids : j # id => meta'[j] = meta[j]
      /\ meta'[id].of = boot.got[id]
  BY DEF LoadColdStat, Register, JInv, IInv, TypeOK, RamTypes
<1>4. id \notin boot.todo /\ phase' = phase /\ phase = "loading" /\ boot.got[id] # None
  BY DEF LoadColdStat, JInv, KeepInv, LoadInv
<1>5. DownInv' /\ LoadInv'
  BY <1>2, <1>3, <1>4 DEF JInv, KeepInv, DownInv, LoadInv
<1>6. \A j \in Ids \ born : meta'[j] = None /\ boot'.got[j] = None
  BY <1>2, <1>3, <1>4 DEF JInv, KeepInv, BornInv
<1>7. UNCHANGED <<diskVars, lockVars, callVars, cache>> /\ disk' = disk /\ trash' = trash /\ stage = "none"
  BY <1>4, LoadingUnlocked DEF LoadColdStat, diskVars, JInv, IInv, TypeOK, LockTypes
<1>8. ASSUME NoEdit, NEW j \in Ids
      PROVE  /\ meta'[j] # None => Carries(j, meta[j].of.txt)'
             /\ boot'.got[j] # None => Carries(j, boot.got[j].txt)'
  <2>1. meta[j] # None => Carries(j, meta[j].of.txt)
    BY <1>7, <1>8 DEF JInv, KeepInv, TextInv, Leaving
  <2>2. boot.got[j] # None => Carries(j, boot.got[j].txt)
    BY <1>8 DEF JInv, KeepInv, TextInv
  <2> QED BY <1>2, <1>3, <1>4, <1>7, <2>1, <2>2 DEF Carries
<1>9. RamInv'
  <2>1. disk[id] \in Version \cup {None}
    BY DEF JInv, IInv, TypeOK, DiskTypes, MaybeVersion
  <2>2. Remove(index, {}) = index
    BY RemoveNothing DEF JInv, IInv, TypeOK, RamTypes
  <2>3. index' = Add(Remove(index, {}), OneChunked(id, boot.got[id])) /\ Register(id, boot.got[id], disk[id])
    BY <2>2 DEF LoadColdStat
  <2>4. meta[id] = None
    BY <1>4 DEF JInv, KeepInv, LoadInv
  <2> QED BY <1>1, <1>2, <2>1, <2>3, <2>4, PutRam DEF JInv, IInv, TypeOK
<1> QED BY <1>2, <1>4, <1>5, <1>6, <1>7, <1>8, <1>9, BootIsKept DEF JInv

(* The chunks of what failed to load are dropped: the index has the others. *)
LEMMA StartupDoneIsKept ==
    ASSUME "flush" \in Ops => Calm
    PROVE  JInv /\ StartupDone => KeepInv' /\ RamInv'
<1> SUFFICES ASSUME JInv, StartupDone PROVE KeepInv' /\ RamInv'
  OBVIOUS
<1>1. boot' = NoBoot /\ phase' = "ready" /\ phase = "loading" /\ disk' = disk /\ trash' = trash /\ meta' = meta
  BY DEF StartupDone, diskVars
<1>2. RamInv'
  <2>1. CASE ~boot.warm
    <3>1. {k \in Key : k[1] \in {}} = {} /\ boot.failed = {}
      BY <2>1 DEF JInv, KeepInv, LoadInv
    <3>2. index' = index
      BY <3>1, RemoveNothing DEF StartupDone, RemoveMementos, JInv, IInv, TypeOK, RamTypes
    <3> QED BY <1>1, <2>1, <3>2, SameRam DEF JInv, NoBoot
  <2>2. CASE boot.warm
    <3> DEFINE keys == {k \in Key : k[1] \in boot.failed}
    <3>1. Calm /\ boot.todo = {} /\ index' = Remove(index, keys) /\ index \in Index
      BY <2>2 DEF StartupDone, RemoveMementos, JInv, KeepInv, ColdInv, IInv, TypeOK, RamTypes
    <3>2. /\ \A k \in Key : index'.strToNum[k] = IF k \in keys THEN None ELSE index.strToNum[k]
          /\ Named' /\ (NoEdit => ExactIn(index'))
      BY <3>1, RemoveGives, RemoveExact DEF JInv, RamInv, Named
    <3>3. WarmInv
      BY <3>1 DEF JInv, SnapInv
    <3>4. ASSUME NEW j \in Ids, meta'[j] # None, NEW k \in ChunkKeys(j, meta'[j].of)
          PROVE  index'.strToNum[k] = meta'[j].of
      <4>1. meta[j] # None /\ meta[j].of \in Version /\ meta' = meta /\ j \notin boot.failed
        BY <1>1, <2>2, <3>3, <3>4, MetaTyped DEF WarmInv, JInv, IInv, TypeOK
      <4>2. k \in Key /\ k[1] = j
        BY <3>4, <4>1, KeyOf
      <4>3. index.strToNum[k] = meta[j].of
        BY <3>4, <4>1 DEF JInv, RamInv, Right
      <4> QED BY <3>2, <4>1, <4>2, <4>3
    <3>5. ASSUME NEW k \in Key, index'.strToNum[k] # None
          PROVE  meta'[k[1]] # None /\ k \in ChunkKeys(k[1], meta'[k[1]].of)
      <4>1. k[1] \in Ids /\ k[1] \notin boot.failed /\ index.strToNum[k] # None
        BY <3>2, <3>5, KeyOf
      <4>2. boot.mtimes[k[1]] # None /\ k \in ChunkKeys(k[1], boot.mtimes[k[1]])
        BY <2>2, <3>3, <4>1 DEF WarmInv
      <4>3. meta[k[1]] # None
        BY <2>2, <3>1, <3>3, <4>1, <4>2 DEF WarmInv, InRam
      <4> QED BY <1>1, <2>2, <3>3, <4>1, <4>2, <4>3 DEF WarmInv
    <3>6. Right' /\ Clean'
      BY <3>4, <3>5 DEF Right, Clean
    <3> QED BY <3>2, <3>6 DEF RamInv
  <2> QED BY <2>1, <2>2
<1>3. stage = "none"
  BY <1>1, LoadingUnlocked DEF JInv, IInv, TypeOK, LockTypes
<1>4. ~boot'.warm /\ DownInv' /\ LoadInv' /\ \A id \in Ids : boot'.got[id] = None
  BY <1>1 DEF NoBoot, NoIds, DownInv, LoadInv
<1>5. \A id \in Ids \ born : meta'[id] = None
  BY <1>1 DEF JInv, KeepInv, BornInv
<1>6. NoEdit => \A id \in Ids : meta'[id] # None => Carries(id, meta[id].of.txt)'
  BY <1>1, <1>3 DEF JInv, KeepInv, TextInv, Leaving, Carries
<1> QED BY <1>1, <1>2, <1>4, <1>5, <1>6, BootIsKept DEF StartupDone, JInv

LEMMA CrashIsKept == JInv /\ Crash => KeepInv' /\ RamInv'
<1> SUFFICES ASSUME JInv, Crash PROVE KeepInv' /\ RamInv'
  OBVIOUS
<1>1. ColdInv' /\ DownInv' /\ LoadInv'
  BY DEF Crash, JInv, KeepInv, ColdInv, DownInv, LoadInv, NoBoot, NoCall, NoIds
<1>2. BornInv'
  BY DEF Crash, JInv, KeepInv, BornInv, NoBoot, NoWork, NoIds, diskVars
<1>3. HoldInv' /\ TextInv'
  BY DEF Crash, HoldInv, Early, TextInv, NoBoot, NoWork, NoIds
<1>4. RamInv'
  BY DEF Crash, RamInv, Right, Named, Clean, ExactIn, EmptyIndex, NoIds
<1> QED BY <1>1, <1>2, <1>3, <1>4 DEF KeepInv

(* What the outside does short of an edit: no text of a known file changes. *)
LEMMA OutsideIsKept ==
    ASSUME JInv, NEW id \in Ids, NEW kind, Outside(id, kind), born \subseteq born',
           \A j \in Ids \ born' : disk'[j] = None /\ trash'[j] = None,
           NoEdit => \A j \in born : \A x : Carries(j, x) => Carries(j, x)'
    PROVE  KeepInv' /\ RamInv'
<1>1. UNCHANGED <<cache, phase, boot, meta, index, lock, stage, work, call>>
  BY DEF Outside, ramVars, lockVars, callVars
<1>2. ColdInv' /\ DownInv' /\ LoadInv' /\ HoldInv'
  <2>1. HoldInv'
    BY <1>1 DEF JInv, KeepInv, HoldInv
  <2> QED BY <1>1, <2>1 DEF JInv, KeepInv, ColdInv, DownInv, LoadInv
<1>3. BornInv'
  BY <1>1 DEF JInv, KeepInv, BornInv
<1>4. ASSUME NoEdit PROVE TextInv'
  <2>1. TextInv /\ BornInv
    BY <1>4 DEF JInv, KeepInv
  <2>2. \A j \in Ids : Leaving(j)' <=> Leaving(j)
    BY <1>1 DEF Leaving
  <2>3. \A j \in Ids : (meta[j] # None \/ boot.got[j] # None \/ work.seen[j] # None) =>
           \A x : Carries(j, x) => Carries(j, x)'
    BY <1>4, <2>1 DEF BornInv
  <2> QED BY <1>1, <2>1, <2>2, <2>3 DEF TextInv
<1>5. RamInv'
  BY <1>1, SameRam DEF JInv
<1> QED BY <1>2, <1>3, <1>4, <1>5 DEF KeepInv

LEMMA EnvironmentIsKept == JInv /\ Environment => KeepInv' /\ RamInv'
<1> SUFFICES ASSUME JInv, NEW id \in Ids,
                    \/ Corrupted(id) \/ Removed(id) \/ Restored(id)
                    \/ \E x \in Texts : Arrives(id, x) \/ Edited(id, x)
             PROVE  KeepInv' /\ RamInv'
  BY DEF Environment
<1>1. DiskTypes /\ BornInv
  BY DEF JInv, IInv, TypeOK, KeepInv
<1>2. CASE Corrupted(id)
  <2>1. disk[id] # None /\ disk' = [disk EXCEPT ![id] = [at |-> clock + 1, txt |-> disk[id].txt, ok |-> FALSE]]
    BY <1>2 DEF Corrupted, Readable, Present
  <2>2. trash' = trash /\ born' = born
    BY <1>2 DEF Corrupted
  <2>3. \A j \in born : \A x : Carries(j, x) => Carries(j, x)'
    <3>1. disk[id] \in Version /\ clock + 1 \in Nat
      BY <1>1, <2>1 DEF DiskTypes, MaybeVersion
    <3>2. [at |-> clock + 1, txt |-> disk[id].txt, ok |-> FALSE] \in Version
      BY <3>1 DEF Version
    <3>3. disk'[id] # None /\ disk'[id].txt = disk[id].txt
      BY <1>1, <2>1, <3>2, NoneAssumption DEF DiskTypes
    <3>4. \A j \in Ids : j # id => disk'[j] = disk[j]
      BY <1>1, <2>1 DEF DiskTypes
    <3> QED BY <1>1, <2>1, <2>2, <3>3, <3>4 DEF Carries, DiskTypes
  <2>4. \A j \in Ids \ born' : disk'[j] = None /\ trash'[j] = None
    BY <1>1, <2>1, <2>2 DEF BornInv, DiskTypes
  <2> QED BY <1>2, <2>2, <2>3, <2>4, OutsideIsKept DEF Corrupted
<1>3. CASE Removed(id)
  <2>1. disk[id] # None /\ disk' = [disk EXCEPT ![id] = None] /\ born' = born
    BY <1>3 DEF Removed, Present
  <2>2. \/ trash' = [trash EXCEPT ![id] = disk[id]]
        \/ trash' = [trash EXCEPT ![id] = None]
    BY <1>3 DEF Removed
  <2>3. \A j \in born : \A x : Carries(j, x) => Carries(j, x)'
    BY <1>1, <2>1, <2>2 DEF Carries, DiskTypes
  <2>4. \A j \in Ids \ born' : disk'[j] = None /\ trash'[j] = None
    BY <1>1, <2>1, <2>2 DEF BornInv, DiskTypes
  <2> QED BY <1>3, <2>1, <2>3, <2>4, OutsideIsKept DEF Removed
<1>4. CASE Restored(id)
  <2>1. /\ disk[id] = None /\ trash[id] # None /\ born' = born
        /\ disk' = [disk EXCEPT ![id] = trash[id]] /\ trash' = [trash EXCEPT ![id] = None]
    BY <1>4 DEF Restored, Present
  <2>2. \A j \in born : \A x : Carries(j, x) => Carries(j, x)'
    BY <1>1, <2>1 DEF Carries, DiskTypes
  <2>3. \A j \in Ids \ born' : disk'[j] = None /\ trash'[j] = None
    BY <1>1, <2>1 DEF BornInv, DiskTypes
  <2> QED BY <1>4, <2>1, <2>2, <2>3, OutsideIsKept DEF Restored
<1>5. ASSUME NEW x \in Texts, Arrives(id, x) PROVE KeepInv' /\ RamInv'
  <2>1. /\ id \notin born /\ born' = born \cup {id} /\ trash' = trash
        /\ disk' = [disk EXCEPT ![id] = Written(x)]
    BY <1>5 DEF Arrives
  <2>2. \A j \in born : \A y : Carries(j, y) => Carries(j, y)'
    BY <1>1, <2>1 DEF Carries, DiskTypes
  <2>3. \A j \in Ids \ born' : disk'[j] = None /\ trash'[j] = None
    BY <1>1, <2>1 DEF BornInv, DiskTypes
  <2> QED BY <1>5, <2>1, <2>2, <2>3, OutsideIsKept DEF Arrives
<1>6. ASSUME NEW x \in Texts, Edited(id, x) PROVE KeepInv' /\ RamInv'
  <2>1. /\ disk[id] # None /\ born' = born /\ trash' = trash /\ ~NoEdit
        /\ disk' = [disk EXCEPT ![id] = Written(x)]
    BY <1>6 DEF Edited, Present, Outside, NoEdit
  <2>2. \A j \in Ids \ born' : disk'[j] = None /\ trash'[j] = None
    BY <1>1, <2>1 DEF BornInv, DiskTypes
  <2> QED BY <1>6, <2>1, <2>2, OutsideIsKept DEF Edited
<1> QED BY <1>2, <1>3, <1>4, <1>5, <1>6

(***************************************************************************)
(* Calls that do not hold the lock                                          *)
(***************************************************************************)

(* A read that finds its file gone drops the memento, if RAM has it.        *)
LEMMA ReconcileRam ==
    ASSUME JInv, phase = "ready", NEW id \in Ids, Reconcile(id)
    PROVE  /\ RamInv'
           /\ \A j \in Ids : meta'[j] = IF j = id THEN None ELSE meta[j]
<1>1. {id} \cap InRam \in SUBSET InRam /\ Unregister({id} \cap InRam)
  BY DEF Reconcile
<1>2. RamInv' /\ \A j \in Ids : meta'[j] = IF j \in {id} \cap InRam THEN None ELSE meta[j]
  BY <1>1, NowCold, UnregisterRam DEF JInv, IInv, TypeOK
<1> QED BY <1>2 DEF InRam

LEMMA OthersKeep ==
    ASSUME JInv, NEW t \in Tasks,
           Invoke(t) \/ Busy(t) \/ ReadHit(t) \/ ReadMiss(t) \/ ReadMissLate(t) \/ ReadGone(t)
    PROVE  KeepInv' /\ RamInv'
<1>1. phase = "ready"
  BY DEF Invoke, Busy, ReadHit, ReadMiss, ReadMissLate, ReadGone, Waiting, JInv, IInv, ReadyInv
<1>2. lock # None => call'[lock] = call[lock]
  BY OthersAreSteady DEF Steady, JInv
<1>3. ASSUME "flush" \notin Ops PROVE \A u \in Tasks : call'[u].op # "flush"
  <2>1. CASE Invoke(t)
    <3>1. PICK op \in Ops : \E a \in Arguments(op) :
             call' = [call EXCEPT ![t] = [op |-> op, ids |-> a.ids, txt |-> a.txt]]
      BY <2>1 DEF Invoke
    <3>2. PICK a : call' = [call EXCEPT ![t] = [op |-> op, ids |-> a.ids, txt |-> a.txt]]
      BY <3>1
    <3> QED BY <1>3, <3>2 DEF JInv, KeepInv, ColdInv, IInv, TypeOK, CallTypes
  <2>2. CASE ReadMissLate(t)
    BY <1>3, <2>2 DEF ReadMissLate, JInv, KeepInv, ColdInv
  <2> QED BY <1>3, <2>1, <2>2, EndCalls DEF Busy, ReadHit, ReadMiss, ReadGone, JInv, KeepInv
<1>4. UNCHANGED <<diskVars, cache, phase, boot, lockVars>>
  BY DEF Invoke, Busy, ReadHit, ReadMiss, ReadMissLate, ReadGone
<1>5. RamInv' /\ \A id \in Ids : meta'[id] \in {meta[id], None}
  <2>1. CASE ReadMiss(t) \/ ReadGone(t)
    <3>1. PICK id \in call[t].ids : Reconcile(id)
      BY <2>1 DEF ReadMiss, ReadGone
    <3>2. id \in Ids
      BY DEF JInv, IInv, TypeOK, CallTypes
    <3> QED BY <1>1, <3>1, <3>2, ReconcileRam
  <2>2. CASE UNCHANGED ramVars
    BY <1>4, <2>2, SameRam DEF ramVars, JInv
  <2> QED BY <2>1, <2>2 DEF Invoke, Busy, ReadHit, ReadMissLate
<1> QED BY <1>1, <1>2, <1>3, <1>4, <1>5, OthersAreKept DEF JInv

LEMMA AcquireIsKept == ASSUME JInv, NEW t \in Tasks, Acquire(t) PROVE KeepInv' /\ RamInv'
<1>1. phase = "ready"
  BY DEF Acquire, Waiting, JInv, IInv, ReadyInv
<1>2. UNCHANGED <<diskVars, cache, phase, boot, ramVars, work, callVars>> /\ stage = "none" /\ work.seen = NoIds
  BY DEF Acquire, JInv, IInv, TypeOK, LockTypes, NoWork
<1>3. ColdInv' /\ DownInv' /\ LoadInv' /\ boot'.got = NoIds
  BY <1>1, <1>2, ReadyKeeps DEF callVars, JInv, KeepInv, ColdInv
<1>4. stage' \in {"write", "ingest", "update", "delete", "sync", "flush"}
  BY DEF Acquire, Waiting, Wants, LockedOps
<1>5. BornInv'
  BY <1>2 DEF JInv, KeepInv, BornInv, diskVars, ramVars
<1>6. HoldInv'
  BY <1>2, <1>4 DEF HoldInv, Early
<1>7. NoEdit => TextInv'
  BY <1>2, <1>4 DEF JInv, KeepInv, TextInv, Leaving, Carries, diskVars, ramVars
<1>8. RamInv'
  BY <1>2, SameRam DEF ramVars, JInv
<1> QED BY <1>3, <1>5, <1>6, <1>7, <1>8 DEF KeepInv

(***************************************************************************)
(* The holder of the lock                                                   *)
(***************************************************************************)

(* What every step of the holder that goes on needs.                        *)
LEMMA GotoIsKept ==
    ASSUME IInv, KeepInv, NEW t \in Tasks, lock = t, NEW s, Goto(s), UNCHANGED <<cache, phase, boot>>
    PROVE  /\ ColdInv' /\ DownInv' /\ LoadInv'
           /\ lock' = t /\ stage' = s /\ call' = call
           /\ \A id \in Ids : boot'.got[id] = None
<1>1. ColdInv' /\ DownInv' /\ LoadInv' /\ boot'.got = NoIds
  BY HolderIs, ReadyKeeps DEF Goto, callVars, KeepInv, ColdInv
<1> QED BY <1>1 DEF Goto, callVars, NoIds

(* A step that fails, or ends where RAM and the files are as they were.     *)
LEMMA QuitIsKept ==
    ASSUME JInv, NEW t \in Tasks, NEW ok \in BOOLEAN, lock = t, Release(t, ok),
           stage \notin {"updateRegister", "deleteRegister"},
           UNCHANGED <<diskVars, phase, boot, meta, index>>, "flush" \notin Ops => cache' = cache
    PROVE  KeepInv' /\ RamInv'
<1>1. disk' = disk /\ trash' = trash /\ born' = born
  BY DEF diskVars
<1>2. \A id \in Ids \ born' : disk'[id] = None /\ trash'[id] = None /\ meta'[id] = None
  BY <1>1 DEF JInv, KeepInv, BornInv
<1>3. NoEdit => \A id \in Ids : meta'[id] # None => Carries(id, meta[id].of.txt)'
  BY <1>1 DEF JInv, KeepInv, TextInv, Leaving, Carries
<1>4. RamInv'
  BY SameRam DEF JInv
<1> QED BY <1>2, <1>3, <1>4, ReleaseIsKept DEF JInv

LEMMA WriteCheckIsKept == ASSUME JInv, NEW t \in Tasks, WriteCheck(t) PROVE KeepInv' /\ RamInv'
<1>1. lock = t /\ stage = "write" /\ UNCHANGED <<diskVars, cache, phase, boot, ramVars>>
  BY DEF WriteCheck, At
<1>2. CASE Release(t, FALSE)
  BY <1>1, <1>2, QuitIsKept DEF ramVars
<1>3. CASE Goto("writePut") /\ UNCHANGED work
  <2>1. /\ ColdInv' /\ DownInv' /\ LoadInv' /\ stage' = "writePut"
        /\ \A id \in Ids : boot'.got[id] = None
    BY <1>1, <1>3, GotoIsKept DEF JInv
  <2>2. BornInv'
    BY <1>1, <1>3 DEF JInv, KeepInv, BornInv, diskVars, ramVars
  <2>3. HoldInv'
    BY <1>1, <1>3, <2>1 DEF JInv, KeepInv, HoldInv, Early
  <2>4. NoEdit => TextInv'
    BY <1>1, <1>3, <2>1 DEF JInv, KeepInv, TextInv, Leaving, Carries, diskVars, ramVars
  <2> QED BY <1>1, <2>1, <2>2, <2>3, <2>4, SameRam DEF ramVars, JInv, KeepInv
<1> QED BY <1>2, <1>3 DEF WriteCheck

(* A file is written: id now has a version with the text of the call.       *)
LEMMA PutKeeps ==
    ASSUME JInv, NEW t \in Tasks, lock = t, call[t].txt \in Texts, NEW id \in Ids,
           disk' = [disk EXCEPT ![id] = Written(call[t].txt)],
           work'.seen = [work.seen EXCEPT ![id] = Written(call[t].txt)],
           trash' = trash
    PROVE  /\ disk'[id] # None /\ work'.seen[id] = disk'[id]
           /\ Carries(id, work.seen[id].txt)'
           /\ \A j \in Ids : j # id => disk'[j] = disk[j] /\ work'.seen[j] = work.seen[j]
           /\ \A j \in Ids : j # id => \A x : Carries(j, x) => Carries(j, x)'
<1>1. Written(call[t].txt) \in Version
  BY WrittenType DEF JInv, IInv, TypeOK, DiskTypes
<1>2. disk'[id] = Written(call[t].txt) /\ \A j \in Ids : j # id => disk'[j] = disk[j]
  BY DEF JInv, IInv, TypeOK, DiskTypes
<1>3. work'.seen[id] = Written(call[t].txt) /\ \A j \in Ids : j # id => work'.seen[j] = work.seen[j]
  BY DEF JInv, IInv, TypeOK, LockTypes, Work
<1> QED BY <1>1, <1>2, <1>3, NoneAssumption DEF Carries

LEMMA WritePutIsKept == ASSUME JInv, NEW t \in Tasks, WritePut(t) PROVE KeepInv' /\ RamInv'
<1>1. /\ lock = t /\ stage = "writePut" /\ Goto("register") /\ trash' = trash
      /\ meta' = meta /\ index' = index /\ boot' = boot
  BY DEF WritePut, At, ramVars
<1>2. PICK id \in Ids \ born :
        /\ disk' = [disk EXCEPT ![id] = Written(call[t].txt)]
        /\ born' = born \cup {id}
        /\ work' = [work EXCEPT !.seen[id] = Written(call[t].txt)]
  BY DEF WritePut
<1>3. work'.seen = [work.seen EXCEPT ![id] = Written(call[t].txt)]
  BY <1>2 DEF JInv, IInv, TypeOK, LockTypes, Work
<1>4. call[t].txt \in Texts
  BY <1>1, StageTellsOp DEF JInv
<1>5. /\ disk'[id] # None /\ work'.seen[id] = disk'[id]
      /\ Carries(id, work.seen[id].txt)'
      /\ \A j \in Ids : j # id => disk'[j] = disk[j] /\ work'.seen[j] = work.seen[j]
      /\ \A j \in Ids : j # id => \A x : Carries(j, x) => Carries(j, x)'
  BY <1>1, <1>2, <1>3, <1>4, PutKeeps DEF JInv
<1>6. /\ ColdInv' /\ DownInv' /\ LoadInv' /\ stage' = "register"
      /\ \A j \in Ids : boot'.got[j] = None
  BY <1>1, GotoIsKept DEF WritePut, JInv
<1>7. meta[id] = None /\ \A j \in Ids : work.seen[j] = None
  BY <1>1, <1>2 DEF JInv, KeepInv, BornInv, HoldInv, Early, NoIds
<1>8. BornInv'
  BY <1>1, <1>2, <1>5, <1>6 DEF JInv, KeepInv, BornInv
<1>9. HoldInv'
  BY <1>1, <1>5, <1>6, <1>7 DEF HoldInv, Early
<1>10. ASSUME NoEdit PROVE TextInv'
  <2>1. \A j \in Ids : meta[j] # None => Carries(j, meta[j].of.txt)
    BY <1>1, <1>10 DEF JInv, KeepInv, TextInv, Leaving
  <2> QED BY <1>1, <1>5, <1>6, <1>7, <2>1 DEF TextInv
<1> QED BY <1>1, <1>6, <1>8, <1>9, <1>10, SameRam DEF JInv, KeepInv

(* What was written is registered.                                          *)
LEMMA RegisterIsKept ==
    ASSUME JInv, NEW t \in Tasks, lock = t, stage \in {"register", "ingestPut"},
           RegisterAll(index), Release(t, TRUE), UNCHANGED <<diskVars, cache, phase, boot>>
    PROVE  KeepInv' /\ RamInv'
<1>1. work \in Work
  BY DEF JInv, IInv, TypeOK, LockTypes
<1>2. \A id \in Ids : work.seen[id] # None => meta[id] = None
  BY DEF JInv, KeepInv, HoldInv
<1>3. RamInv'
  <2>1. Remove(index, {}) = index
    BY RemoveNothing DEF JInv, IInv, TypeOK, RamTypes
  <2>2. RegisterAll(Remove(index, {}))
    BY <2>1
  <2> QED BY <1>1, <1>2, <2>2, HolderCold, AllRam DEF JInv, IInv, TypeOK
<1>4. \A id \in Ids : meta'[id] = IF work.seen[id] # None
                        THEN [of |-> work.seen[id], mtime |-> work.seen[id]] ELSE meta[id]
  BY DEF RegisterAll
<1>5. disk' = disk /\ trash' = trash /\ born' = born
  BY DEF diskVars
<1>6. \A id \in Ids \ born' : disk'[id] = None /\ trash'[id] = None /\ meta'[id] = None
  BY <1>4, <1>5 DEF JInv, KeepInv, BornInv
<1>7. ASSUME NoEdit, NEW id \in Ids, meta'[id] # None PROVE Carries(id, meta[id].of.txt)'
  <2>1. CASE work.seen[id] # None
    <3>1. TextInv
      BY <1>7 DEF JInv, KeepInv
    <3>2. Carries(id, work.seen[id].txt)
      BY <2>1, <3>1 DEF TextInv
    <3>3. meta'[id] = [of |-> work.seen[id], mtime |-> work.seen[id]]
      BY <1>4, <2>1
    <3> QED BY <1>5, <3>2, <3>3 DEF Carries
  <2>2. CASE work.seen[id] = None
    <3>1. meta'[id] = meta[id] /\ Carries(id, meta[id].of.txt)
      BY <1>4, <1>7, <2>2 DEF JInv, KeepInv, TextInv, Leaving
    <3> QED BY <1>5, <3>1 DEF Carries
  <2> QED BY <2>1, <2>2
<1> QED BY <1>3, <1>6, <1>7, ReleaseIsKept DEF JInv

LEMMA IngestCheckIsKept == ASSUME JInv, NEW t \in Tasks, IngestCheck(t) PROVE KeepInv' /\ RamInv'
<1> DEFINE fresh == call[t].ids \ InRam
<1>1. lock = t /\ stage = "ingest" /\ UNCHANGED <<diskVars, cache, phase, boot, meta, index>>
  BY DEF IngestCheck, At, ramVars
<1>2. CASE fresh = {}
  BY <1>1, <1>2, QuitIsKept DEF IngestCheck
<1>3. CASE fresh # {}
  <2>1. /\ Goto("ingestPut")
        /\ work' = [work EXCEPT !.todo = fresh, !.known = disk,
                                !.listed = {id \in fresh : Present(id)}]
    BY <1>3 DEF IngestCheck
  <2>2. work'.todo = fresh /\ work'.seen = work.seen /\ \A id \in Ids : work'.seen[id] = None
    BY <1>1, <2>1 DEF JInv, KeepInv, HoldInv, Early, NoIds, IInv, TypeOK, LockTypes, Work
  <2>3. /\ ColdInv' /\ DownInv' /\ LoadInv' /\ stage' = "ingestPut"
        /\ \A id \in Ids : boot'.got[id] = None
    BY <1>1, <2>1, GotoIsKept DEF JInv
  <2>4. BornInv'
    BY <1>1, <2>2, <2>3 DEF JInv, KeepInv, BornInv, diskVars
  <2>5. fresh \subseteq Ids /\ \A id \in fresh : meta'[id] = None
    BY <1>1 DEF InRam, JInv, IInv, TypeOK, CallTypes
  <2>6. HoldInv'
    BY <2>2, <2>3, <2>5 DEF HoldInv, Early
  <2>7. NoEdit => TextInv'
    BY <1>1, <2>2, <2>3 DEF JInv, KeepInv, TextInv, Leaving, Carries, diskVars
  <2> QED BY <1>1, <2>3, <2>4, <2>6, <2>7, SameRam DEF JInv, KeepInv
<1> QED BY <1>2, <1>3

LEMMA IngestPutIsKept ==
    ASSUME JInv, NEW t \in Tasks, NEW id \in Ids, IngestPut(t, id)
    PROVE  KeepInv' /\ RamInv'
<1>1. /\ lock = t /\ stage = "ingestPut" /\ id \in work.todo /\ Goto("ingestPut")
      /\ trash' = trash /\ meta' = meta /\ index' = index /\ born' = born \cup {id} /\ boot' = boot
      /\ disk' = [disk EXCEPT ![id] = Written(call[t].txt)]
  BY DEF IngestPut, At, ramVars
<1>2. /\ work'.seen = [work.seen EXCEPT ![id] = Written(call[t].txt)]
      /\ work'.todo = work.todo \ {id}
  BY DEF IngestPut, JInv, IInv, TypeOK, LockTypes, Work
<1>3. call[t].txt \in Texts
  BY <1>1, StageTellsOp DEF JInv
<1>4. /\ disk'[id] # None /\ work'.seen[id] = disk'[id]
      /\ Carries(id, work.seen[id].txt)'
      /\ \A j \in Ids : j # id => disk'[j] = disk[j] /\ work'.seen[j] = work.seen[j]
      /\ \A j \in Ids : j # id => \A x : Carries(j, x) => Carries(j, x)'
  BY <1>1, <1>2, <1>3, PutKeeps DEF JInv
<1>5. /\ ColdInv' /\ DownInv' /\ LoadInv' /\ stage' = "ingestPut"
      /\ \A j \in Ids : boot'.got[j] = None
  BY <1>1, GotoIsKept DEF IngestPut, JInv
<1>6. /\ meta[id] = None /\ \A j \in work.todo : meta[j] = None
      /\ \A j \in Ids : work.seen[j] # None => meta[j] = None
  BY <1>1 DEF JInv, KeepInv, HoldInv
<1>7. BornInv'
  BY <1>1, <1>4, <1>5 DEF JInv, KeepInv, BornInv
<1>8. HoldInv'
  BY <1>1, <1>2, <1>4, <1>5, <1>6 DEF HoldInv, Early
<1>9. ASSUME NoEdit PROVE TextInv'
  <2>1. /\ \A j \in Ids : meta[j] # None => Carries(j, meta[j].of.txt)
        /\ \A j \in Ids : work.seen[j] # None => Carries(j, work.seen[j].txt)
    BY <1>1, <1>9 DEF JInv, KeepInv, TextInv, Leaving
  <2> QED BY <1>1, <1>4, <1>5, <1>6, <2>1 DEF TextInv
<1> QED BY <1>1, <1>5, <1>7, <1>8, <1>9, SameRam DEF JInv, KeepInv

LEMMA IngestPutFailsIsKept ==
    ASSUME JInv, NEW t \in Tasks, NEW id \in Ids, IngestPutFails(t, id)
    PROVE  KeepInv' /\ RamInv'
<1>1. /\ lock = t /\ stage = "ingestPut" /\ Goto("ingestPut")
      /\ UNCHANGED <<diskVars, meta, index, boot>> /\ disk' = disk /\ trash' = trash /\ born' = born
  BY DEF IngestPutFails, At, ramVars, diskVars
<1>2. work'.seen = work.seen /\ work'.todo = work.todo \ {id}
  BY DEF IngestPutFails, JInv, IInv, TypeOK, LockTypes, Work
<1>3. /\ ColdInv' /\ DownInv' /\ LoadInv' /\ stage' = "ingestPut"
      /\ \A j \in Ids : boot'.got[j] = None
  BY <1>1, GotoIsKept DEF IngestPutFails, JInv
<1>4. BornInv'
  BY <1>1, <1>2, <1>3 DEF JInv, KeepInv, BornInv
<1>5. HoldInv'
  BY <1>1, <1>2, <1>3 DEF JInv, KeepInv, HoldInv, Early
<1>6. NoEdit => TextInv'
  BY <1>1, <1>2, <1>3 DEF JInv, KeepInv, TextInv, Leaving, Carries
<1> QED BY <1>1, <1>3, <1>4, <1>5, <1>6, SameRam DEF JInv, KeepInv

(* Only files of mementos RAM does not have are taken back.                 *)
LEMMA IngestRollbackIsKept ==
    ASSUME JInv, NEW t \in Tasks, IngestRollback(t)
    PROVE  KeepInv' /\ RamInv'
<1>1. /\ lock = t /\ stage = "ingestPut" /\ Release(t, FALSE)
      /\ trash' = trash /\ born' = born /\ meta' = meta /\ index' = index
      /\ UNCHANGED <<cache, phase, boot>>
  BY DEF IngestRollback, At, ramVars
<1>2. \A id \in Ids : disk'[id] = disk[id] \/ (disk'[id] = None /\ work.seen[id] # None)
  BY DEF IngestRollback
<1>3. \A id \in Ids : work.seen[id] # None => meta[id] = None
  BY <1>1 DEF JInv, KeepInv, HoldInv
<1>4. \A id \in Ids \ born' : disk'[id] = None /\ trash'[id] = None /\ meta'[id] = None
  BY <1>1, <1>2 DEF JInv, KeepInv, BornInv
<1>5. ASSUME NoEdit, NEW id \in Ids, meta'[id] # None PROVE Carries(id, meta[id].of.txt)'
  <2>1. Carries(id, meta[id].of.txt)
    BY <1>1, <1>5 DEF JInv, KeepInv, TextInv, Leaving
  <2> QED BY <1>1, <1>2, <1>3, <1>5, <2>1 DEF Carries
<1> QED BY <1>1, <1>4, <1>5, ReleaseIsKept, SameRam DEF JInv

(* A step that goes on and leaves files and RAM alone.                      *)
LEMMA GoOnIsKept ==
    ASSUME JInv, NEW t \in Tasks, lock = t, NEW s, Goto(s),
           UNCHANGED <<diskVars, cache, phase, boot, meta, index>>,
           stage \notin {"updateRegister", "deleteRegister"},
           s \notin {"register", "ingestPut", "updateRegister", "deleteRegister"},
           \A id \in Ids : work'.seen[id] # None => id \in born,
           HoldInv',
           s \in {"updateCheck", "updatePut"} => \A id \in call[t].ids :
               NoEdit /\ meta[id] # None => work'.known[id].txt = meta[id].of.txt
    PROVE  KeepInv' /\ RamInv'
<1>1. /\ ColdInv' /\ DownInv' /\ LoadInv' /\ stage' = s /\ lock' = t /\ call' = call
      /\ \A id \in Ids : boot'.got[id] = None
  BY GotoIsKept DEF JInv
<1>2. meta' = meta /\ disk' = disk /\ trash' = trash /\ born' = born
  BY DEF diskVars
<1>3. BornInv'
  BY <1>1, <1>2 DEF JInv, KeepInv, BornInv
<1>4. ASSUME NoEdit PROVE TextInv'
  <2>1. \A id \in Ids : meta[id] # None => Carries(id, meta[id].of.txt)
    BY <1>4 DEF JInv, KeepInv, TextInv, Leaving
  <2> QED BY <1>1, <1>2, <1>4, <2>1 DEF TextInv, Carries
<1>5. RamInv'
  BY SameRam DEF JInv
<1> QED BY <1>1, <1>3, <1>4, <1>5 DEF KeepInv

(* The one memento an update or a delete is about.                          *)
LEMMA OneTarget ==
    ASSUME JInv, NEW t \in Tasks, lock = t,
           stage \in {"update", "updateCheck", "updatePut", "updateRegister",
                      "delete", "deleteDo", "deleteRegister"},
           NEW id \in call[t].ids
    PROVE  id \in Ids /\ call[t].ids = {id}
<1>1. call[t].op \in {"update", "delete"}
  BY StageTellsOp DEF JInv
<1>2. PICK i \in Ids : call[t].ids = {i}
  BY <1>1 DEF JInv, IInv, CallInv
<1> QED BY <1>2

LEMMA UpdateReadIsKept == ASSUME JInv, NEW t \in Tasks, UpdateRead(t) PROVE KeepInv' /\ RamInv'
<1>1. lock = t /\ stage = "update" /\ UNCHANGED <<diskVars, cache, phase, boot>>
  BY DEF UpdateRead, At
<1>2. disk' = disk /\ trash' = trash /\ born' = born
  BY <1>1 DEF diskVars
<1>3. PICK id \in call[t].ids :
          \/ ~Present(id) /\ Reconcile(id) /\ Release(t, FALSE)
          \/ Release(t, FALSE) /\ UNCHANGED ramVars
          \/ /\ Readable(id) /\ work' = [work EXCEPT !.known[id] = disk[id]]
             /\ Goto("updateCheck") /\ UNCHANGED ramVars
  BY DEF UpdateRead
<1>4. id \in Ids /\ call[t].ids = {id}
  BY <1>1, OneTarget
<1>5. CASE Reconcile(id) /\ Release(t, FALSE)
  <2>1. RamInv' /\ \A j \in Ids : meta'[j] = IF j = id THEN None ELSE meta[j]
    BY <1>1, <1>4, <1>5, HolderIs, ReconcileRam DEF JInv
  <2>2. \A j \in Ids \ born' : disk'[j] = None /\ trash'[j] = None /\ meta'[j] = None
    BY <1>2, <2>1 DEF JInv, KeepInv, BornInv
  <2>3. NoEdit => \A j \in Ids : meta'[j] # None => Carries(j, meta[j].of.txt)'
    BY <1>1, <1>2, <2>1 DEF JInv, KeepInv, TextInv, Leaving, Carries
  <2> QED BY <1>1, <1>5, <2>1, <2>2, <2>3, ReleaseIsKept DEF JInv
<1>6. CASE Release(t, FALSE) /\ UNCHANGED ramVars
  BY <1>1, <1>6, QuitIsKept DEF ramVars
<1>7. CASE Readable(id) /\ work' = [work EXCEPT !.known[id] = disk[id]]
           /\ Goto("updateCheck") /\ UNCHANGED ramVars
  <2>1. disk[id] \in Version /\ disk[id] # None
    BY <1>4, <1>7 DEF Readable, Present, JInv, IInv, TypeOK, DiskTypes, MaybeVersion
  <2>2. work'.seen = work.seen /\ work'.known[id] = disk[id]
    BY <1>4, <1>7 DEF JInv, IInv, TypeOK, LockTypes, Work
  <2>3. work'.seen = NoIds
    BY <1>1, <2>2 DEF JInv, KeepInv, HoldInv, Early
  <2>4. HoldInv'
    <3>1. id \in born'
      BY <1>2, <1>4, <2>1 DEF JInv, KeepInv, BornInv
    <3> QED BY <1>1, <1>4, <1>7, <2>1, <2>2, <2>3, <3>1 DEF Goto, callVars, HoldInv, Early
  <2>5. \A j \in call[t].ids : NoEdit /\ meta[j] # None => work'.known[j].txt = meta[j].of.txt
    <3>1. ASSUME NoEdit, meta[id] # None PROVE disk[id].txt = meta[id].of.txt
      <4>1. Carries(id, meta[id].of.txt)
        BY <1>1, <1>4, <3>1 DEF JInv, KeepInv, TextInv, Leaving
      <4> QED BY <2>1, <4>1 DEF Carries
    <3> QED BY <1>4, <2>2, <3>1
  <2>6. \A j \in Ids : work'.seen[j] # None => j \in born
    BY <2>3 DEF NoIds
  <2> QED BY <1>1, <1>7, <2>4, <2>5, <2>6, GoOnIsKept DEF ramVars
<1> QED BY <1>3, <1>5, <1>6, <1>7

LEMMA UpdateCheckIsKept == ASSUME JInv, NEW t \in Tasks, UpdateCheck(t) PROVE KeepInv' /\ RamInv'
<1>1. lock = t /\ stage = "updateCheck" /\ UNCHANGED <<diskVars, cache, phase, boot, meta, index>>
  BY DEF UpdateCheck, At, ramVars
<1>2. CASE Release(t, FALSE)
  BY <1>1, <1>2, QuitIsKept
<1>3. CASE Goto("updatePut") /\ UNCHANGED work
  <2>1. HoldInv'
    <3>1. stage' = "updatePut" /\ lock' = lock /\ call' = call /\ work' = work /\ meta' = meta /\ born' = born
      BY <1>1, <1>3 DEF Goto, callVars, diskVars
    <3>2. HoldInv
      BY DEF JInv, KeepInv
    <3> QED BY <1>1, <3>1, <3>2 DEF HoldInv, Early
  <2>2. \A j \in Ids : work'.seen[j] # None => j \in born
    BY <1>3 DEF JInv, KeepInv, BornInv
  <2>3. NoEdit => \A j \in call[t].ids : meta[j] # None => work.known[j].txt = meta[j].of.txt
    BY <1>1 DEF JInv, KeepInv, TextInv
  <2> QED BY <1>1, <1>3, <2>1, <2>2, <2>3, GoOnIsKept
<1> QED BY <1>2, <1>3 DEF UpdateCheck

LEMMA UpdatePutIsKept == ASSUME JInv, NEW t \in Tasks, UpdatePut(t) PROVE KeepInv' /\ RamInv'
<1>1. /\ lock = t /\ stage = "updatePut" /\ Goto("updateRegister") /\ trash' = trash
      /\ born' = born /\ meta' = meta /\ index' = index /\ boot' = boot
  BY DEF UpdatePut, At, ramVars
<1>2. PICK id \in call[t].ids :
        /\ disk' = [disk EXCEPT ![id] = Written(call[t].txt)]
        /\ work' = [work EXCEPT !.seen[id] = Written(call[t].txt)]
  BY DEF UpdatePut
<1>3. id \in Ids /\ call[t].ids = {id}
  BY <1>1, OneTarget
<1>4. /\ work'.seen = [work.seen EXCEPT ![id] = Written(call[t].txt)]
      /\ work'.known = work.known
  BY <1>2 DEF JInv, IInv, TypeOK, LockTypes, Work
<1>5. call[t].txt \in Texts
  BY <1>1, StageTellsOp DEF JInv
<1>6. /\ disk'[id] # None /\ work'.seen[id] = disk'[id]
      /\ Carries(id, work.seen[id].txt)'
      /\ \A j \in Ids : j # id => disk'[j] = disk[j] /\ work'.seen[j] = work.seen[j]
      /\ \A j \in Ids : j # id => \A x : Carries(j, x) => Carries(j, x)'
  BY <1>1, <1>2, <1>3, <1>4, <1>5, PutKeeps
<1>7. /\ ColdInv' /\ DownInv' /\ LoadInv' /\ stage' = "updateRegister" /\ lock' = t /\ call' = call
      /\ \A j \in Ids : boot'.got[j] = None
  BY <1>1, GotoIsKept DEF UpdatePut, JInv
<1>8. (\A j \in Ids : work.seen[j] = None) /\ work.known[id] \in Version /\ id \in born
  BY <1>1, <1>3 DEF JInv, KeepInv, HoldInv, Early, NoIds
<1>9. BornInv'
  <2>1. id \in born
    BY <1>8
  <2> QED BY <1>1, <1>6, <1>7, <2>1 DEF JInv, KeepInv, BornInv
<1>10. HoldInv'
  BY <1>1, <1>3, <1>4, <1>6, <1>7, <1>8 DEF HoldInv, Early
<1>11. ASSUME NoEdit PROVE TextInv'
  <2>1. /\ \A j \in Ids : meta[j] # None => Carries(j, meta[j].of.txt)
        /\ meta[id] # None => work.known[id].txt = meta[id].of.txt
    BY <1>1, <1>3, <1>11 DEF JInv, KeepInv, TextInv, Leaving
  <2> QED BY <1>1, <1>3, <1>4, <1>6, <1>7, <1>8, <2>1 DEF TextInv, Leaving
<1> QED BY <1>1, <1>7, <1>9, <1>10, <1>11, SameRam DEF JInv, KeepInv

LEMMA UpdateRegisterIsKept ==
    ASSUME JInv, NEW t \in Tasks, UpdateRegister(t)
    PROVE  KeepInv' /\ RamInv'
<1>1. lock = t /\ stage = "updateRegister" /\ Release(t, TRUE) /\ UNCHANGED <<diskVars, cache, phase, boot>>
  BY DEF UpdateRegister, At
<1>2. PICK id \in call[t].ids : RegisterAll(Remove(index, ChunkKeys(id, work.known[id])))
  BY DEF UpdateRegister
<1>3. id \in Ids /\ call[t].ids = {id}
  BY <1>1, OneTarget
<1>4. work.known[id] \in Version /\ \A j \in Ids : work.seen[j] # None <=> j = id
  BY <1>1, <1>3 DEF JInv, KeepInv, HoldInv
<1>5. work \in Work
  BY DEF JInv, IInv, TypeOK, LockTypes
<1>6. RamInv'
  <2>1. \A k \in ChunkKeys(id, work.known[id]) : work.seen[k[1]] # None
    BY <1>3, <1>4, KeyOf
  <2>2. ASSUME NoEdit, meta[id] # None
        PROVE  ChunkKeys(id, meta[id].of) \subseteq ChunkKeys(id, work.known[id])
    <3>1. work.known[id].txt = meta[id].of.txt
      BY <1>1, <1>3, <2>2 DEF JInv, KeepInv, TextInv
    <3>2. meta[id].of \in Version
      BY <1>3, <2>2, MetaTyped DEF JInv, IInv, TypeOK
    <3> QED BY <1>3, <1>4, <3>1, <3>2, KeyOf
  <2> QED BY <1>1, <1>2, <1>4, <1>5, <2>1, <2>2, HolderCold, AllRam DEF JInv, IInv, TypeOK
<1>7. \A j \in Ids : meta'[j] = IF work.seen[j] # None
                       THEN [of |-> work.seen[j], mtime |-> work.seen[j]] ELSE meta[j]
  BY <1>2 DEF RegisterAll
<1>8. disk' = disk /\ trash' = trash /\ born' = born
  BY <1>1 DEF diskVars
<1>9. \A j \in Ids \ born' : disk'[j] = None /\ trash'[j] = None /\ meta'[j] = None
  BY <1>7, <1>8 DEF JInv, KeepInv, BornInv
<1>10. ASSUME NoEdit, NEW j \in Ids, meta'[j] # None PROVE Carries(j, meta[j].of.txt)'
  <2>1. TextInv
    BY <1>10 DEF JInv, KeepInv
  <2>2. CASE j = id
    <3>1. meta'[j] = [of |-> work.seen[j], mtime |-> work.seen[j]]
      BY <1>3, <1>4, <1>7, <2>2
    <3>2. Carries(j, work.seen[j].txt)
      BY <1>1, <1>3, <1>4, <2>1, <2>2 DEF TextInv
    <3> QED BY <1>8, <3>1, <3>2 DEF Carries
  <2>3. CASE j # id
    <3>1. meta'[j] = meta[j]
      BY <1>4, <1>7, <2>3
    <3>2. Carries(j, meta[j].of.txt)
      BY <1>1, <1>3, <1>10, <2>1, <2>3, <3>1 DEF TextInv, Leaving
    <3> QED BY <1>8, <3>1, <3>2 DEF Carries
  <2> QED BY <2>2, <2>3
<1> QED BY <1>1, <1>6, <1>9, <1>10, ReleaseIsKept DEF JInv

LEMMA DeleteCheckIsKept == ASSUME JInv, NEW t \in Tasks, DeleteCheck(t) PROVE KeepInv' /\ RamInv'
<1>1. lock = t /\ stage = "delete" /\ UNCHANGED <<diskVars, cache, phase, boot, meta, index>>
  BY DEF DeleteCheck, At, ramVars
<1>2. PICK id \in call[t].ids :
         \/ id \in InRam /\ work' = [work EXCEPT !.known[id] = meta[id].of] /\ Goto("deleteDo")
         \/ Release(t, FALSE)
  BY DEF DeleteCheck
<1>3. id \in Ids /\ call[t].ids = {id}
  BY <1>1, OneTarget
<1>4. CASE Release(t, FALSE)
  BY <1>1, <1>4, QuitIsKept
<1>5. CASE id \in InRam /\ work' = [work EXCEPT !.known[id] = meta[id].of] /\ Goto("deleteDo")
  <2>1. work'.seen = work.seen /\ work'.known[id] = meta[id].of
    BY <1>3, <1>5 DEF JInv, IInv, TypeOK, LockTypes, Work
  <2>2. work'.seen = NoIds
    BY <1>1, <2>1 DEF JInv, KeepInv, HoldInv, Early
  <2>3. meta[id].of \in Version
    BY <1>3, <1>5, MetaTyped DEF InRam, JInv, IInv, TypeOK
  <2>4. HoldInv'
    BY <1>1, <1>3, <1>5, <2>1, <2>2, <2>3 DEF Goto, callVars, HoldInv, Early
  <2>5. \A j \in Ids : work'.seen[j] # None => j \in born
    BY <2>2 DEF NoIds
  <2> QED BY <1>1, <1>5, <2>4, <2>5, GoOnIsKept
<1> QED BY <1>2, <1>4, <1>5

LEMMA DeleteDoIsKept == ASSUME JInv, NEW t \in Tasks, DeleteDo(t) PROVE KeepInv' /\ RamInv'
<1>1. /\ lock = t /\ stage = "deleteDo" /\ Goto("deleteRegister") /\ work' = work
      /\ trash' = trash /\ born' = born /\ meta' = meta /\ index' = index /\ boot' = boot
  BY DEF DeleteDo, At, ramVars
<1>2. PICK id \in call[t].ids : disk' = [disk EXCEPT ![id] = None]
  BY DEF DeleteDo
<1>3. id \in Ids /\ call[t].ids = {id}
  BY <1>1, OneTarget
<1>4. disk'[id] = None /\ \A j \in Ids : j # id => disk'[j] = disk[j]
  BY <1>2, <1>3 DEF JInv, IInv, TypeOK, DiskTypes
<1>5. /\ ColdInv' /\ DownInv' /\ LoadInv' /\ stage' = "deleteRegister" /\ lock' = t /\ call' = call
      /\ \A j \in Ids : boot'.got[j] = None
  BY <1>1, GotoIsKept DEF DeleteDo, JInv
<1>6. BornInv'
  BY <1>1, <1>4, <1>5 DEF JInv, KeepInv, BornInv
<1>7. HoldInv'
  <2>1. HoldInv
    BY DEF JInv, KeepInv
  <2> QED BY <1>1, <1>5, <2>1 DEF HoldInv, Early
<1>8. ASSUME NoEdit PROVE TextInv'
  <2>1. \A j \in Ids : meta[j] # None => Carries(j, meta[j].of.txt)
    BY <1>1, <1>8 DEF JInv, KeepInv, TextInv, Leaving
  <2>2. \A j \in Ids : j # id => \A x : Carries(j, x) => Carries(j, x)'
    BY <1>1, <1>4 DEF Carries
  <2> QED BY <1>1, <1>3, <1>5, <2>1, <2>2 DEF TextInv, Leaving
<1> QED BY <1>1, <1>5, <1>6, <1>7, <1>8, SameRam DEF JInv, KeepInv

LEMMA DeleteRegisterIsKept ==
    ASSUME JInv, NEW t \in Tasks, DeleteRegister(t)
    PROVE  KeepInv' /\ RamInv'
<1>1. /\ lock = t /\ stage = "deleteRegister" /\ Release(t, TRUE)
      /\ UNCHANGED <<diskVars, cache, phase, boot>>
  BY DEF DeleteRegister, At
<1>2. PICK id \in call[t].ids :
         /\ meta' = [meta EXCEPT ![id] = None]
         /\ index' = Remove(index, ChunkKeys(id, work.known[id]))
  BY DEF DeleteRegister
<1>3. id \in Ids /\ call[t].ids = {id}
  BY <1>1, OneTarget
<1>4. work.known[id] \in Version /\ (meta[id] = None \/ meta[id].of = work.known[id])
  BY <1>1, <1>3 DEF JInv, KeepInv, HoldInv
<1>5. \A j \in Ids : meta'[j] = IF j \in {id} THEN None ELSE meta[j]
  BY <1>2, <1>3 DEF JInv, IInv, TypeOK, RamTypes
<1>6. RamInv'
  <2>1. \A k \in ChunkKeys(id, work.known[id]) : k[1] \in {id}
    BY <1>3, <1>4, KeyOf
  <2>2. \A j \in Ids : j \in {id} /\ meta[j] # None
            => ChunkKeys(j, meta[j].of) \subseteq ChunkKeys(id, work.known[id])
    BY <1>4
  <2> QED BY <1>2, <1>5, <2>1, <2>2, <1>1, HolderCold, DropRam DEF JInv, IInv, TypeOK
<1>7. disk' = disk /\ trash' = trash /\ born' = born
  BY <1>1 DEF diskVars
<1>8. \A j \in Ids \ born' : disk'[j] = None /\ trash'[j] = None /\ meta'[j] = None
  BY <1>5, <1>7 DEF JInv, KeepInv, BornInv
<1>9. NoEdit => \A j \in Ids : meta'[j] # None => Carries(j, meta[j].of.txt)'
  BY <1>1, <1>3, <1>5, <1>7 DEF JInv, KeepInv, TextInv, Leaving, Carries
<1> QED BY <1>1, <1>6, <1>8, <1>9, ReleaseIsKept DEF JInv

LEMMA SyncListIsKept == ASSUME JInv, NEW t \in Tasks, SyncList(t) PROVE KeepInv' /\ RamInv'
<1>1. /\ lock = t /\ stage = "sync" /\ Goto("syncFiles")
      /\ UNCHANGED <<diskVars, cache, phase, boot, meta, index>>
  BY DEF SyncList, At, ramVars
<1>2. work'.seen = NoIds /\ work'.known = meta
  BY DEF SyncList, NoWork
<1>3. HoldInv'
  BY <1>1, <1>2 DEF Goto, HoldInv, Early, NoIds
<1>4. \A j \in Ids : work'.seen[j] # None => j \in born
  BY <1>2 DEF NoIds
<1> QED BY <1>1, <1>3, <1>4, GoOnIsKept

LEMMA SyncStatIsKept ==
    ASSUME JInv, NEW t \in Tasks, NEW id \in Ids, SyncStat(t, id)
    PROVE  KeepInv' /\ RamInv'
<1>1. /\ lock = t /\ stage = "syncFiles" /\ Goto("syncFiles") /\ id \in work.todo
      /\ UNCHANGED <<diskVars, cache, phase, boot, meta, index>>
  BY DEF SyncStat, At, ramVars
<1>2. /\ work'.todo = work.todo \ {id} /\ work'.known = work.known
      /\ work'.seen[id] \in {None, disk[id]}
      /\ \A j \in Ids : j # id => work'.seen[j] = work.seen[j]
  BY DEF SyncStat, JInv, IInv, TypeOK, LockTypes, Work
<1>3. HoldInv
  BY DEF JInv, KeepInv
<1>4. HoldInv'
  BY <1>1, <1>2, <1>3 DEF Goto, HoldInv, Early
<1>5. \A j \in Ids : work'.seen[j] # None => j \in born
  BY <1>2 DEF JInv, KeepInv, BornInv
<1> QED BY <1>1, <1>4, <1>5, GoOnIsKept

LEMMA SyncLoadIsKept ==
    ASSUME JInv, NEW t \in Tasks, NEW id \in Ids, SyncLoad(t, id)
    PROVE  KeepInv' /\ RamInv'
<1>1. /\ lock = t /\ stage = "syncFiles" /\ Goto("syncFiles") /\ work.seen[id] # None
      /\ UNCHANGED <<diskVars, cache, phase, boot>>
  BY DEF SyncLoad, At
<1>2. /\ work'.todo = work.todo /\ work'.known = work.known
      /\ \A j \in Ids : work'.seen[j] = IF j = id THEN None ELSE work.seen[j]
  BY DEF SyncLoad, JInv, IInv, TypeOK, LockTypes, Work
<1>3. HoldInv
  BY DEF JInv, KeepInv
<1>4. id \notin work.todo /\ meta[id] \in {None, work.known[id]}
  BY <1>1, <1>3 DEF HoldInv
<1>5. CASE ~Readable(id)
  <2>1. UNCHANGED <<meta, index>>
    BY <1>5 DEF SyncLoad
  <2>2. HoldInv'
    BY <1>1, <1>2, <1>3, <2>1 DEF Goto, HoldInv, Early
  <2>3. \A j \in Ids : work'.seen[j] # None => j \in born
    BY <1>2 DEF JInv, KeepInv, BornInv
  <2> QED BY <1>1, <2>1, <2>2, <2>3, GoOnIsKept
<1>6. CASE Readable(id)
  <2> DEFINE old == IF work.known[id] = None THEN {} ELSE ChunkKeys(id, work.known[id].of)
  <2>1. /\ index' = Add(Remove(index, old), OneChunked(id, disk[id]))
        /\ Register(id, disk[id], work.seen[id])
    BY <1>6 DEF SyncLoad
  <2>2. disk[id] \in Version /\ work.seen[id] \in Version \cup {None} /\ disk[id] # None
    BY <1>6 DEF Readable, Present, JInv, IInv, TypeOK, DiskTypes, LockTypes, Work, MaybeVersion
  <2>3. \A k \in old : k[1] = id
    BY DEF ChunkKeys
  <2>4. meta[id] # None => ChunkKeys(id, meta[id].of) \subseteq old
    BY <1>4
  <2>5. RamInv'
    <3> HIDE DEF old
    <3> QED BY <2>1, <2>2, <2>3, <2>4, <1>1, HolderCold, PutRam DEF JInv, IInv, TypeOK
  <2>6. /\ \A j \in Ids : j # id => meta'[j] = meta[j]
        /\ meta'[id].of = disk[id]
    BY <2>1 DEF Register, JInv, IInv, TypeOK, RamTypes
  <2>7. /\ ColdInv' /\ DownInv' /\ LoadInv' /\ stage' = "syncFiles"
        /\ \A j \in Ids : boot'.got[j] = None
    BY <1>1, GotoIsKept DEF JInv
  <2>8. disk' = disk /\ trash' = trash /\ born' = born
    BY <1>1 DEF diskVars
  <2>9. BornInv'
    BY <1>2, <2>2, <2>6, <2>7, <2>8 DEF JInv, KeepInv, BornInv
  <2>10. HoldInv'
    BY <1>1, <1>2, <1>3, <1>4, <2>6, <2>7 DEF HoldInv, Early
  <2>11. ASSUME NoEdit PROVE TextInv'
    <3>1. \A j \in Ids : meta[j] # None => Carries(j, meta[j].of.txt)
      BY <1>1, <2>11 DEF JInv, KeepInv, TextInv, Leaving
    <3> QED BY <2>2, <2>6, <2>7, <2>8, <3>1 DEF TextInv, Carries
  <2> QED BY <2>5, <2>7, <2>9, <2>10, <2>11 DEF KeepInv
<1> QED BY <1>5, <1>6

LEMMA SyncPruneIsKept == ASSUME JInv, NEW t \in Tasks, SyncPrune(t) PROVE KeepInv' /\ RamInv'
<1>1. /\ lock = t /\ stage = "syncFiles" /\ Release(t, TRUE) /\ Unregister(InRam \ work.listed)
      /\ UNCHANGED <<cache, phase, boot>> /\ disk' = disk /\ trash' = trash /\ born' = born
  BY DEF SyncPrune, At, diskVars
<1>2. RamInv' /\ \A j \in Ids : meta'[j] = IF j \in InRam \ work.listed THEN None ELSE meta[j]
  BY <1>1, HolderCold, UnregisterRam DEF JInv, IInv, TypeOK
<1>3. \A j \in Ids \ born' : disk'[j] = None /\ trash'[j] = None /\ meta'[j] = None
  BY <1>1, <1>2 DEF JInv, KeepInv, BornInv
<1>4. NoEdit => \A j \in Ids : meta'[j] # None => Carries(j, meta[j].of.txt)'
  BY <1>1, <1>2 DEF JInv, KeepInv, TextInv, Leaving, Carries
<1> QED BY <1>1, <1>2, <1>3, <1>4, ReleaseIsKept DEF JInv

(* Nothing is flushed where nobody flushes.                                 *)
LEMMA NoFlush ==
    ASSUME JInv, "flush" \notin Ops, NEW t \in Tasks, lock = t
    PROVE  stage \notin {"flush", "flushGraph", "flushNames", "flushWrite"}
BY StageTellsOp DEF Wants, JInv, KeepInv, ColdInv

LEMMA FlushIsKept ==
    ASSUME JInv, NEW t \in Tasks,
           FlushCheck(t) \/ FlushGraph(t) \/ FlushNames(t) \/ FlushWrite(t) \/ FlushFails(t)
    PROVE  KeepInv' /\ RamInv'
<1>1. /\ lock = t /\ stage \in {"flush", "flushGraph", "flushNames", "flushWrite"}
      /\ UNCHANGED <<diskVars, phase, boot, meta, index>>
  BY DEF FlushCheck, FlushGraph, FlushNames, FlushWrite, FlushFails, At, ramVars
<1>2. CASE Release(t, TRUE)
  <2>1. "flush" \notin Ops => cache' = cache
    BY <1>1, NoFlush
  <2> QED BY <1>1, <1>2, <2>1, QuitIsKept
<1>3. ASSUME NEW s \in {"flushGraph", "flushNames", "flushWrite"}, Goto(s), UNCHANGED cache,
             work'.seen = work.seen
      PROVE  KeepInv' /\ RamInv'
  <2>1. HoldInv'
    BY <1>3 DEF Goto, HoldInv, Early
  <2>2. \A id \in Ids : work'.seen[id] # None => id \in born
    BY <1>3 DEF JInv, KeepInv, BornInv
  <2> QED BY <1>1, <1>3, <2>1, <2>2, GoOnIsKept
<1>4. CASE FlushCheck(t)
  BY <1>2, <1>3, <1>4 DEF FlushCheck, JInv, IInv, TypeOK, LockTypes, Work
<1>5. CASE FlushGraph(t) \/ FlushNames(t)
  BY <1>3, <1>5 DEF FlushGraph, FlushNames, JInv, IInv, TypeOK, LockTypes, Work
<1> QED BY <1>2, <1>4, <1>5 DEF FlushWrite, FlushFails

LEMMA HolderIsKept == ASSUME JInv, NEW t \in Tasks, Holder(t) PROVE KeepInv' /\ RamInv'
<1>1. CASE WriteCheck(t) \/ WritePut(t) \/ RegisterWritten(t)
  BY <1>1, WriteCheckIsKept, WritePutIsKept, RegisterIsKept DEF RegisterWritten, At
<1>2. CASE IngestCheck(t) \/ IngestRollback(t) \/ IngestSettled(t)
  BY <1>2, IngestCheckIsKept, IngestRollbackIsKept, RegisterIsKept DEF IngestSettled, At
<1>3. ASSUME NEW id \in Ids, IngestPut(t, id) \/ IngestPutFails(t, id) PROVE KeepInv' /\ RamInv'
  BY <1>3, IngestPutIsKept, IngestPutFailsIsKept
<1>4. CASE UpdateRead(t) \/ UpdateCheck(t) \/ UpdatePut(t) \/ UpdateRegister(t)
  BY <1>4, UpdateReadIsKept, UpdateCheckIsKept, UpdatePutIsKept, UpdateRegisterIsKept
<1>5. CASE DeleteCheck(t) \/ DeleteDo(t) \/ DeleteRegister(t)
  BY <1>5, DeleteCheckIsKept, DeleteDoIsKept, DeleteRegisterIsKept
<1>6. CASE SyncList(t) \/ SyncPrune(t)
  BY <1>6, SyncListIsKept, SyncPruneIsKept
<1>7. ASSUME NEW id \in Ids, SyncStat(t, id) \/ SyncLoad(t, id) PROVE KeepInv' /\ RamInv'
  BY <1>7, SyncStatIsKept, SyncLoadIsKept
<1>8. CASE FlushCheck(t) \/ FlushGraph(t) \/ FlushNames(t) \/ FlushWrite(t) \/ FlushFails(t)
  BY <1>8, FlushIsKept
<1>9. CASE StorageFails(t)
  BY <1>9, QuitIsKept DEF StorageFails, ramVars
<1> QED BY <1>1, <1>2, <1>3, <1>4, <1>5, <1>6, <1>7, <1>8, <1>9 DEF Holder

LEMMA StillIsKept == JInv /\ UNCHANGED vars => KeepInv' /\ RamInv'
<1> SUFFICES ASSUME JInv, UNCHANGED vars PROVE KeepInv' /\ RamInv'
  OBVIOUS
<1>1. /\ UNCHANGED <<disk, trash, born, cache, phase, boot, meta, index, lock, stage, work, call>>
  BY DEF vars, diskVars, ramVars, lockVars, callVars
<1>2. ColdInv' /\ DownInv' /\ LoadInv' /\ BornInv'
  BY <1>1 DEF JInv, KeepInv, ColdInv, DownInv, LoadInv, BornInv
<1>3. HoldInv'
  BY <1>1 DEF JInv, KeepInv, HoldInv
<1>4. NoEdit => TextInv'
  BY <1>1 DEF JInv, KeepInv, TextInv, Leaving, Carries
<1> QED BY <1>1, <1>2, <1>3, <1>4, SameRam DEF JInv, KeepInv

LEMMA HolderPhase == ASSUME IInv, NEW t \in Tasks, Holder(t) PROVE lock = t /\ phase = "ready" /\ phase' = phase
<1>1. lock = t /\ phase' = phase
  BY DEF Holder, At, WriteCheck, WritePut, RegisterWritten, IngestCheck, IngestPut,
      IngestPutFails, IngestRollback, IngestSettled, UpdateRead, UpdateCheck, UpdatePut,
      UpdateRegister, DeleteCheck, DeleteDo, DeleteRegister, SyncList, SyncStat, SyncLoad,
      SyncPrune, FlushCheck, FlushGraph, FlushNames, FlushWrite, FlushFails, StorageFails
<1> QED BY <1>1, HolderIs

(***************************************************************************)
(* The index cache, in a calm vault                                         *)
(***************************************************************************)

LEMMA OutsideMoves == ASSUME DiskTypes, Aged, Environment PROVE Moves
<1> SUFFICES ASSUME NEW id \in Ids,
                    \/ Corrupted(id) \/ Removed(id) \/ Restored(id)
                    \/ \E x \in Texts : Arrives(id, x) \/ Edited(id, x)
             PROVE  Moves
  BY DEF Environment
<1>1. \A j \in Ids : j # id => disk'[j] = disk[j] /\ trash'[j] = trash[j]
  BY DEF Corrupted, Removed, Restored, Arrives, Edited, DiskTypes
<1>2. clock' \in {clock, clock + 1} /\ born \subseteq born'
  BY DEF Corrupted, Removed, Restored, Arrives, Edited, Tick
<1>3. Move(id)
  <2>1. CASE Corrupted(id)
    BY <2>1 DEF Corrupted, Readable, Present, Tick, DiskTypes, Aged, Move
  <2>2. CASE Removed(id)
    BY <2>2 DEF Removed, DiskTypes, Move
  <2>3. CASE Restored(id)
    BY <2>3 DEF Restored, Present, DiskTypes, Move
  <2>4. ASSUME NEW x \in Texts, Arrives(id, x) \/ Edited(id, x) PROVE Move(id)
    BY <2>4 DEF Arrives, Edited, Present, Tick, Written, DiskTypes, Aged, Move
  <2> QED BY <2>1, <2>2, <2>3, <2>4
<1> QED BY <1>1, <1>2, <1>3 DEF Moves, Move

LEMMA NextMoves == ASSUME IInv, StaleInv, Owned, [Next]_vars PROVE Moves
<1>1. CASE UNCHANGED diskVars
  BY <1>1, FilesStay
<1>2. CASE Environment
  BY <1>2, OutsideMoves DEF IInv, TypeOK, StaleInv
<1>3. ASSUME NEW t \in Tasks, Holder(t) PROVE Moves
  BY <1>3, HolderMoves
<1> QED BY <1>1, <1>2, <1>3 DEF Next, Boot, Startup, StartupDone, LoadWarm, LoadColdGet, LoadColdStat,
      Crash, Step, Invoke, Acquire, Busy, ReadHit, ReadMiss, ReadMissLate, ReadGone, vars

(* Nothing is put back, no read is under way that found its file gone.      *)
LEMMA NoReturnStays == ASSUME Calm, IInv, NoReturn, [Next]_vars PROVE NoReturn'
<1>1. trash' = NoIds
  <2>1. CASE trash' = trash
    BY <2>1 DEF NoReturn
  <2>2. ASSUME NEW id \in Ids, Removed(id) PROVE trash' = NoIds
    BY <2>2 DEF Removed, Calm, NoReturn, NoIds
  <2>3. ASSUME NEW id \in Ids, Restored(id) PROVE FALSE
    BY <2>3 DEF Restored, Outside, Calm
  <2> QED BY <2>1, <2>2, <2>3 DEF Next, Boot, Startup, StartupDone, LoadWarm, LoadColdGet, LoadColdStat,
        Crash, Step, Invoke, Acquire, Busy, ReadHit, ReadMiss, ReadMissLate, ReadGone, Environment,
        Corrupted, Arrives, Edited, Holder, WriteCheck, WritePut, RegisterWritten, IngestCheck,
        IngestPut, IngestPutFails, IngestRollback, IngestSettled, UpdateRead, UpdateCheck, UpdatePut,
        UpdateRegister, DeleteCheck, DeleteDo, DeleteRegister, SyncList, SyncStat, SyncLoad, SyncPrune,
        FlushCheck, FlushGraph, FlushNames, FlushWrite, FlushFails, StorageFails, diskVars, vars
<1>2. ASSUME NEW u \in Tasks PROVE pc'[u] # "gone"
  <2>1. pc \in [Tasks -> {"idle", "go", "lead", "join", "gone"}] /\ pc[u] # "gone"
    BY DEF IInv, TypeOK, CallTypes, NoReturn
  <2>2. CASE UNCHANGED callVars
    BY <2>1, <2>2 DEF callVars
  <2>3. CASE Crash
    BY <2>3 DEF Crash
  <2>4. ASSUME NEW t \in Tasks, Invoke(t) PROVE pc'[u] # "gone"
    <3>1. PICK s \in {"go", "lead", "join"} : pc' = [pc EXCEPT ![t] = s]
      BY <2>4 DEF Invoke
    <3> QED BY <2>1, <3>1
  <2>5. ASSUME NEW t \in Tasks, NEW ok \in BOOLEAN, EndOf(t, ok) PROVE pc'[u] # "gone"
    BY <2>1, <2>5 DEF EndOf
  <2>6. ASSUME NEW t \in Tasks, ReadMissLate(t) PROVE FALSE
    BY <2>6 DEF ReadMissLate, Calm
  <2>7. ASSUME NEW t \in Tasks, Holder(t) PROVE pc'[u] # "gone"
    BY <2>2, <2>5, <2>7 DEF Holder, WriteCheck, WritePut, RegisterWritten, IngestCheck,
        IngestPut, IngestPutFails, IngestRollback, IngestSettled, UpdateRead, UpdateCheck, UpdatePut,
        UpdateRegister, DeleteCheck, DeleteDo, DeleteRegister, SyncList, SyncStat, SyncLoad, SyncPrune,
        FlushCheck, FlushGraph, FlushNames, FlushWrite, FlushFails, StorageFails, Release, Goto
  <2>8. ASSUME NEW t \in Tasks, Step(t) PROVE pc'[u] # "gone"
    BY <2>2, <2>5, <2>6, <2>7, <2>8 DEF Step, Acquire, Busy, ReadHit, ReadMiss, ReadGone
  <2> QED BY <2>2, <2>3, <2>4, <2>8 DEF Next, Boot, Startup, StartupDone, LoadWarm, LoadColdGet,
        LoadColdStat, Environment, Corrupted, Removed, Restored, Arrives, Edited, Outside, vars
<1> QED BY <1>1, <1>2 DEF NoReturn

(* A directory never becomes again what a snapshot says it was: what was    *)
(* true of the snapshot while it was, stays true.                           *)
LEMMA SnapshotStays ==
    ASSUME DiskTypes, Moves, trash = NoIds, NEW es \in EntrySet, Past(es)
    PROVE  Past(es)' /\ \A ls : Holds(es, ls) => Holds(es, ls)'
<1>1. \A e \in es : e[1] \in Ids /\ e[2] \in Version \cup {None}
  BY DEF EntrySet, MaybeVersion
<1>2. clock \in Nat /\ clock' \in {clock, clock + 1}
  BY DEF DiskTypes, Moves
<1>3. Past(es)'
  <2> SUFFICES ASSUME NEW e \in es, e[2] # None PROVE e[2].at <= clock'
    BY DEF Past
  <2>1. e[2].at \in Nat /\ e[2].at <= clock
    BY <1>1 DEF Past, Version
  <2> QED BY <1>2, <2>1
<1>4. Live(es)' => Live(es)
  <2> SUFFICES ASSUME NEW e \in es, e[2] # None, disk'[e[1]] = e[2] PROVE disk[e[1]] = e[2]
    BY DEF Live
  <2>1. e[2].at \in Nat /\ e[2].at <= clock /\ e[1] \in Ids
    BY <1>1 DEF Past, Version
  <2>2. Move(e[1]) /\ trash[e[1]] = None
    BY <2>1 DEF Moves, NoIds
  <2>3. disk'[e[1]].at # clock + 1
    BY <1>2, <2>1
  <2> QED BY <2>2, <2>3 DEF Move
<1> QED BY <1>3, <1>4 DEF Holds

LEMMA CacheStays ==
    ASSUME IInv, CacheInv, FlushInv, Moves, trash = NoIds, [Next]_vars
    PROVE  CacheInv'
<1>1. CASE cache' = cache
  <2> SUFFICES ASSUME cache # None
               PROVE  /\ Past(cache.entries)'
                      /\ Holds(cache.entries, cache.native)' /\ Holds(cache.entries, cache.names)'
    BY <1>1 DEF CacheInv
  <2>1. PICK es \in EntrySet : es = cache.entries /\ es = cache'.entries
    BY <1>1 DEF IInv, TypeOK, CacheType
  <2>2. PICK ns, gs : /\ ns = cache.names /\ ns = cache'.names
                      /\ gs = cache.native /\ gs = cache'.native
    BY <1>1
  <2>3. Past(es) /\ Holds(es, ns) /\ Holds(es, gs)
    BY <2>1, <2>2 DEF CacheInv
  <2>4. Past(es)' /\ Holds(es, ns)' /\ Holds(es, gs)'
    BY <2>3, SnapshotStays DEF IInv, TypeOK
  <2> QED BY <2>1, <2>2, <2>4
<1>2. ASSUME NEW t \in Tasks, FlushWrite(t) PROVE CacheInv'
  <2>1. /\ stage = "flushWrite" /\ disk' = disk /\ clock' = clock
        /\ cache' = [entries |-> work.entries, native |-> work.native, names |-> work.names]
    BY <1>2 DEF FlushWrite, At, diskVars
  <2>2. PICK es, ns, gs : es = work.entries /\ ns = work.names /\ gs = work.native
    OBVIOUS
  <2>3. cache'.entries = es /\ cache'.names = ns /\ cache'.native = gs
    BY <2>1, <2>2
  <2>4. Past(es) /\ Holds(es, ns) /\ Holds(es, gs)
    BY <2>1, <2>2 DEF FlushInv
  <2>5. Past(es)' /\ Holds(es, ns)' /\ Holds(es, gs)'
    BY <2>1, <2>4 DEF Past, Holds, Live
  <2> QED BY <2>3, <2>5 DEF CacheInv
<1>3. CASE cache' = None
  BY <1>3 DEF CacheInv
<1> QED BY <1>1, <1>2, <1>3 DEF Next, Boot, Startup, StartupDone, LoadWarm, LoadColdGet, LoadColdStat,
        Crash, Step, Invoke, Acquire, Busy, ReadHit, ReadMiss, ReadMissLate, ReadGone, Environment,
        Corrupted, Removed, Restored, Arrives, Edited, Outside, Holder, WriteCheck, WritePut,
        RegisterWritten, IngestCheck, IngestPut, IngestPutFails, IngestRollback, IngestSettled,
        UpdateRead, UpdateCheck, UpdatePut, UpdateRegister, DeleteCheck, DeleteDo, DeleteRegister,
        SyncList, SyncStat, SyncLoad, SyncPrune, FlushCheck, FlushGraph, FlushNames, FlushFails,
        StorageFails, vars

LEMMA WarmStays == ASSUME Calm, JInv, KeepInv', [Next]_vars PROVE WarmInv'
<1> SUFFICES ASSUME boot'.warm PROVE WarmInv'
  BY DEF WarmInv
<1>1. phase' = "loading"
  BY DEF KeepInv, LoadInv, NoBoot
<1>2. WarmInv
  BY DEF JInv, SnapInv
<1>3. CASE Startup
  <2>1. /\ boot'.mtimes = disk /\ boot'.todo = {id \in Ids : Present(id)}
        /\ boot'.failed = {} /\ meta' = NoIds
    BY <1>3 DEF Startup, NoBoot, JInv, KeepInv, DownInv
  <2>2. \A k \in Key : index'.strToNum[k] =
           IF disk[k[1]] # None /\ k \in ChunkKeys(k[1], disk[k[1]]) THEN disk[k[1]] ELSE None
    BY <1>3, WarmBegins
  <2> QED BY <2>1, <2>2 DEF WarmInv, InRam, Present, NoIds
<1>4. ASSUME NEW id \in Ids, LoadWarm(id) PROVE WarmInv'
  <2>1. phase = "loading" /\ boot.warm /\ id \in boot.todo /\ index' = index
    BY <1>4 DEF LoadWarm
  <2>2. boot'.todo = boot.todo \ {id} /\ boot'.mtimes = boot.mtimes
    BY <1>4 DEF LoadWarm, JInv, IInv, TypeOK, BootTypes
  <2>3. CASE Readable(id)
    <3>1. disk[id] = boot.mtimes[id] /\ disk[id] \in Version
      BY <2>1, <2>3 DEF Readable, Present, JInv, StaleInv, LoadNow, Still, IInv, TypeOK, DiskTypes, MaybeVersion
    <3>2. meta' = [meta EXCEPT ![id] = [of |-> disk[id], mtime |-> boot.mtimes[id]]] /\ boot'.failed = boot.failed
      BY <1>4, <2>3 DEF LoadWarm, Register, JInv, IInv, TypeOK, BootTypes
    <3>3. [of |-> disk[id], mtime |-> boot.mtimes[id]] \in Meta
      BY <3>1 DEF Meta
    <3>4. /\ \A j \in Ids : j # id => meta'[j] = meta[j]
          /\ meta'[id] # None /\ meta'[id].of = boot.mtimes[id]
      BY <3>1, <3>2, <3>3, MetaAssumption DEF JInv, IInv, TypeOK, RamTypes
    <3> QED BY <1>2, <2>1, <2>2, <3>1, <3>2, <3>4 DEF WarmInv, InRam
  <2>4. CASE ~Readable(id)
    <3>1. meta' = meta /\ boot'.failed = boot.failed \cup {id}
      BY <1>4, <2>4 DEF LoadWarm, JInv, IInv, TypeOK, BootTypes
    <3> QED BY <1>2, <2>1, <2>2, <3>1 DEF WarmInv, InRam
  <2> QED BY <2>3, <2>4
<1>5. ASSUME NEW id \in Ids, LoadColdGet(id) PROVE FALSE
  BY <1>5 DEF LoadColdGet, JInv, IInv, TypeOK, BootTypes
<1>6. ASSUME NEW id \in Ids, LoadColdStat(id) PROVE FALSE
  BY <1>6 DEF LoadColdStat, JInv, KeepInv, LoadInv, NoIds, IInv, TypeOK, BootTypes
<1>7. CASE UNCHANGED <<boot, meta, index>>
  BY <1>2, <1>7 DEF WarmInv, InRam
<1>8. phase' = "ready" => FALSE
  BY <1>1
<1>9. ASSUME NEW t \in Tasks, Invoke(t) \/ Step(t) PROVE FALSE
  <2>1. phase = "ready" /\ phase' = phase
    <3>1. CASE Holder(t)
      BY <3>1, HolderPhase DEF JInv
    <3> QED BY <1>9, <3>1 DEF Invoke, Step, Acquire, Busy, ReadHit, ReadMiss, ReadMissLate, ReadGone,
          Waiting, JInv, IInv, ReadyInv
  <2> QED BY <1>1, <2>1
<1>10. CASE Environment
  BY <1>7, <1>10 DEF Environment, Corrupted, Removed, Restored, Arrives, Edited, Outside, ramVars
<1>11. ~StartupDone /\ ~Crash
  BY <1>1 DEF StartupDone, Crash
<1> QED BY <1>3, <1>4, <1>5, <1>6, <1>7, <1>9, <1>10, <1>11 DEF Next, Boot, vars, ramVars

(* While somebody else takes a step, what a flush took before it still fits.*)
LEMMA FlushGoesOn ==
    ASSUME IInv, FlushInv, Moves, trash = NoIds, UNCHANGED <<stage, work>>,
           \A id \in Ids : meta'[id] \in {meta[id], None},
           stage \in {"flushGraph", "flushNames"} /\ Live(work.entries)' => index' = index
    PROVE  FlushInv'
<1>1. PICK es \in EntrySet : es = work.entries /\ es = work'.entries
  BY DEF IInv, TypeOK, LockTypes, Work
<1>2. Past(es) => Past(es)' /\ \A ls : Holds(es, ls) => Holds(es, ls)'
  BY SnapshotStays DEF IInv, TypeOK
<1>3. PICK ns, gs : ns = work.names /\ ns = work'.names /\ gs = work.native /\ gs = work'.native
  OBVIOUS
<1>4. stage \in {"flushGraph", "flushNames", "flushWrite"} => Past(work.entries)'
  <2>1. stage \in {"flushGraph", "flushNames", "flushWrite"} => Past(es)
    BY <1>1 DEF FlushInv
  <2> QED BY <1>1, <1>2, <2>1
<1>5. ASSUME stage \in {"flushGraph", "flushNames"}
      PROVE  Covers(work.entries)' /\ Holds(work.entries, index.native)'
  <2>1. Covers(es) /\ Past(es)
    BY <1>1, <1>5 DEF FlushInv
  <2>2. Covers(es)'
    BY <2>1 DEF Covers, InRam
  <2>3. PICK ls : ls = index.native
    OBVIOUS
  <2>4. Holds(es, ls)'
    <3>1. Holds(es, ls)
      BY <1>1, <1>5, <2>3 DEF FlushInv
    <3> QED BY <1>2, <2>1, <3>1
  <2>5. Live(es)' => index'.native = ls
    BY <1>1, <1>5, <2>3
  <2> QED BY <1>1, <2>2, <2>4, <2>5 DEF Holds
<1>6. stage \in {"flushNames", "flushWrite"} => Holds(work.entries, work.native)'
  <2>1. stage \in {"flushNames", "flushWrite"} => Past(es) /\ Holds(es, gs)
    BY <1>1, <1>3 DEF FlushInv
  <2>2. stage \in {"flushNames", "flushWrite"} => Holds(es, gs)'
    BY <1>2, <2>1
  <2> QED BY <1>1, <1>3, <2>2
<1>7. stage = "flushWrite" => Holds(work.entries, work.names)'
  <2>1. stage = "flushWrite" => Past(es) /\ Holds(es, ns)
    BY <1>1, <1>3 DEF FlushInv
  <2>2. stage = "flushWrite" => Holds(es, ns)'
    BY <1>2, <2>1
  <2> QED BY <1>1, <1>3, <2>2
<1> QED BY <1>4, <1>5, <1>6, <1>7 DEF FlushInv

(* In a ready vault whose mtimes are those of the files, the labels of the  *)
(* index are those of what RAM has recorded.                                *)
LEMMA EntriesHold ==
    ASSUME JInv, Calm, phase = "ready"
    PROVE  Covers(Entries) /\ Past(Entries) /\ Holds(Entries, index.native) /\ index.numToStr = index.native
<1>1. \A e : e \in Entries <=> \E id \in Ids : meta[id] # None /\ e = <<id, meta[id].mtime>>
  BY DEF Entries, InRam
<1>2. Covers(Entries)
  <2> SUFFICES ASSUME NEW id \in InRam PROVE \E e \in Entries : e[1] = id
    BY DEF Covers
  <2>1. <<id, meta[id].mtime>> \in Entries /\ <<id, meta[id].mtime>>[1] = id
    BY DEF Entries
  <2> QED BY <2>1
<1>3. Past(Entries)
  <2> SUFFICES ASSUME NEW e \in Entries, e[2] # None PROVE e[2].at <= clock
    BY DEF Past
  <2>1. PICK id \in Ids : meta[id] # None /\ e = <<id, meta[id].mtime>>
    BY <1>1
  <2>2. e[2] = meta[id].mtime
    BY <2>1
  <2> QED BY <2>1, <2>2 DEF JInv, SnapInv, Elder
<1>4. Right /\ Clean /\ ExactIn(index)
  BY NowCold DEF JInv, RamInv, Calm
<1>5. ASSUME Live(Entries) PROVE index.native = LabelsOf(Entries)
  <2>1. \A id \in Ids : meta[id] # None => meta[id].of = meta[id].mtime /\ meta[id].of \in Version
    <3> SUFFICES ASSUME NEW id \in Ids, meta[id] # None
                 PROVE  meta[id].of = meta[id].mtime /\ meta[id].of \in Version
      OBVIOUS
    <3>1. PICK e : e = <<id, meta[id].mtime>>
      OBVIOUS
    <3>2. e \in Entries /\ e[1] = id /\ e[2] = meta[id].mtime
      BY <1>1, <3>1
    <3>3. meta[id].mtime # None /\ disk[id] = meta[id].mtime
      BY <1>5, <3>2 DEF Live
    <3> QED BY <3>3, MetaTyped DEF JInv, StaleInv, Stamped, Dead, IInv, TypeOK
  <2>2. ASSUME NEW l \in index.native PROVE l \in LabelsOf(Entries)
    <3>1. l = <<l[1], l[2]>> /\ l[1] \in Key /\ l[2] \in Version
      BY DEF JInv, IInv, TypeOK, RamTypes, Index, Labels
    <3>2. index.strToNum[l[1]] = l[2] /\ l[2] # None
      BY <1>4, <3>1, NoneAssumption DEF ExactIn
    <3>3. PICK k, id : k = l[1] /\ id = k[1]
      OBVIOUS
    <3>4. id \in Ids /\ meta[id] # None /\ k \in ChunkKeys(id, meta[id].of)
      BY <1>4, <3>1, <3>2, <3>3, KeyOf DEF Clean
    <3>5. l = <<k, meta[id].mtime>>
      BY <1>4, <2>1, <3>1, <3>2, <3>3, <3>4 DEF Right
    <3>6. PICK e : e = <<id, meta[id].mtime>>
      OBVIOUS
    <3>7. e \in Entries /\ e[1] = id /\ e[2] = meta[id].mtime
      BY <1>1, <3>4, <3>6
    <3>8. l \in {<<j, e[2]>> : j \in ChunkKeys(e[1], e[2])}
      BY <2>1, <3>4, <3>5, <3>7
    <3> QED BY <3>7, <3>8 DEF LabelsOf
  <2>3. ASSUME NEW l \in LabelsOf(Entries) PROVE l \in index.native
    <3>1. PICK e \in Entries : l \in {<<j, e[2]>> : j \in ChunkKeys(e[1], e[2])}
      BY DEF LabelsOf
    <3>2. PICK id \in Ids : meta[id] # None /\ e = <<id, meta[id].mtime>>
      BY <1>1
    <3>3. e[1] = id /\ e[2] = meta[id].of /\ meta[id].of \in Version
      BY <2>1, <3>2
    <3>4. PICK k \in ChunkKeys(id, meta[id].of) : l = <<k, meta[id].of>>
      BY <3>1, <3>3
    <3>5. k \in Key /\ index.strToNum[k] = meta[id].of /\ meta[id].of # None
      BY <1>4, <3>2, <3>3, KeyOf, NoneAssumption DEF Right
    <3> QED BY <1>4, <3>4, <3>5 DEF ExactIn
  <2> QED BY <2>2, <2>3
<1> QED BY <1>2, <1>3, <1>4, <1>5 DEF Holds, ExactIn

LEMMA IntoFlush ==
    ASSUME NEW t \in Tasks, Holder(t), stage' \in {"flushGraph", "flushNames", "flushWrite"}
    PROVE  FlushCheck(t) \/ FlushGraph(t) \/ FlushNames(t)
BY DEF Holder, WriteCheck, WritePut, RegisterWritten, IngestCheck, IngestPut, IngestPutFails,
       IngestRollback, IngestSettled, UpdateRead, UpdateCheck, UpdatePut, UpdateRegister, DeleteCheck,
       DeleteDo, DeleteRegister, SyncList, SyncStat, SyncLoad, SyncPrune, FlushWrite, FlushFails,
       StorageFails, Release, Goto

(* Each step of a flush takes what fits its entries.                        *)
LEMMA FlushSteps ==
    ASSUME JInv, Calm, NEW t \in Tasks, FlushCheck(t) \/ FlushGraph(t) \/ FlushNames(t)
    PROVE  FlushInv'
<1>1. /\ lock = t /\ disk' = disk /\ clock' = clock /\ meta' = meta /\ index' = index
  BY DEF FlushCheck, FlushGraph, FlushNames, At, diskVars, ramVars
<1>2. phase = "ready" /\ FlushInv /\ work \in Work
  BY <1>1, HolderIs DEF JInv, SnapInv, IInv, TypeOK, LockTypes
<1>3. \A es, ls : /\ Past(es) => Past(es)'
                  /\ Covers(es) => Covers(es)'
                  /\ Holds(es, ls) => Holds(es, ls)'
  BY <1>1 DEF Past, Covers, InRam, Holds, Live
<1>4. CASE Release(t, TRUE)
  BY <1>4 DEF Release, FlushInv
<1>5. CASE FlushCheck(t) /\ ~Release(t, TRUE)
  <2>1. stage' = "flushGraph" /\ work'.entries = Entries
    BY <1>2, <1>5 DEF FlushCheck, Goto, Work
  <2>2. PICK es, ls : es = Entries /\ es = work'.entries /\ ls = index.native /\ ls = index'.native
    BY <1>1, <2>1
  <2>3. Covers(es) /\ Past(es) /\ Holds(es, ls)
    BY <1>2, <2>2, EntriesHold
  <2>4. Covers(es)' /\ Past(es)' /\ Holds(es, ls)'
    BY <1>3, <2>3
  <2>5. Covers(work.entries)' /\ Past(work.entries)' /\ Holds(work.entries, index.native)'
    BY <2>2, <2>4
  <2> QED BY <2>1, <2>5 DEF FlushInv
<1>6. CASE FlushGraph(t)
  <2>1. stage = "flushGraph" /\ stage' = "flushNames" /\ work'.entries = work.entries /\ work'.native = index.native
    BY <1>2, <1>6 DEF FlushGraph, At, Goto, Work
  <2>2. PICK es, ls : es = work.entries /\ es = work'.entries /\ ls = index.native /\ ls = index'.native /\ ls = work'.native
    BY <1>1, <2>1
  <2>3. Covers(es) /\ Past(es) /\ Holds(es, ls)
    BY <1>2, <2>1, <2>2 DEF FlushInv
  <2>4. Covers(es)' /\ Past(es)' /\ Holds(es, ls)'
    BY <1>3, <2>3
  <2>5. Covers(work.entries)' /\ Past(work.entries)' /\ Holds(work.entries, index.native)'
        /\ Holds(work.entries, work.native)'
    BY <2>2, <2>4
  <2> QED BY <2>1, <2>5 DEF FlushInv
<1>7. CASE FlushNames(t)
  <2>1. /\ stage = "flushNames" /\ stage' = "flushWrite" /\ work'.entries = work.entries
        /\ work'.native = work.native /\ work'.names = index.numToStr
    BY <1>2, <1>7 DEF FlushNames, At, Goto, Work
  <2>2. index.numToStr = index.native
    BY <1>2, EntriesHold
  <2>3. PICK es, ns, gs : /\ es = work.entries /\ es = work'.entries /\ ns = index.native
                          /\ ns = work'.names /\ gs = work.native /\ gs = work'.native
    BY <2>1, <2>2
  <2>4. Past(es) /\ Holds(es, ns) /\ Holds(es, gs)
    BY <1>2, <2>1, <2>3 DEF FlushInv
  <2>5. Past(es)' /\ Holds(es, ns)' /\ Holds(es, gs)'
    BY <1>3, <2>4
  <2>6. Past(work.entries)' /\ Holds(work.entries, work.names)' /\ Holds(work.entries, work.native)'
    BY <2>3, <2>5
  <2> QED BY <2>1, <2>6 DEF FlushInv
<1> QED BY <1>4, <1>5, <1>6, <1>7

LEMMA FlushStays == ASSUME Calm, JInv, [Next]_vars PROVE FlushInv'
<1> SUFFICES ASSUME stage' \in {"flushGraph", "flushNames", "flushWrite"} PROVE FlushInv'
  BY DEF FlushInv
<1>1. FlushInv /\ NoReturn /\ IInv /\ Moves
  BY NextMoves DEF JInv, SnapInv
<1>2. CASE UNCHANGED <<stage, work, meta, index>>
  BY <1>1, <1>2, FlushGoesOn DEF NoReturn
<1>3. ASSUME NEW t \in Tasks, Holder(t) PROVE FlushInv'
  BY <1>3, IntoFlush, FlushSteps
<1>4. CASE Boot
  <2>1. stage = "none"
    BY <1>4, LoadingUnlocked DEF Boot, Startup, StartupDone, LoadWarm, LoadColdGet, LoadColdStat,
       JInv, IInv, TypeOK, LockTypes
  <2> QED BY <1>4, <2>1 DEF Boot, Startup, StartupDone, LoadWarm, LoadColdGet, LoadColdStat, lockVars
<1>5. ~Crash /\ \A t \in Tasks : ~Acquire(t)
  BY DEF Crash, Acquire, Wants, Waiting, LockedOps
<1>6. ASSUME NEW t \in Tasks, ReadMiss(t) PROVE FlushInv'
  <2>1. PICK id \in call[t].ids : ~Present(id) /\ Reconcile(id)
    BY <1>6 DEF ReadMiss
  <2>2. id \in Ids
    BY DEF JInv, IInv, TypeOK, CallTypes
  <2>3. UNCHANGED <<stage, work>> /\ disk' = disk /\ \A j \in Ids : meta'[j] \in {meta[j], None}
    BY <1>6, <2>1 DEF ReadMiss, lockVars, diskVars, Reconcile, Unregister
  <2>4. ASSUME stage \in {"flushGraph", "flushNames"}, Live(work.entries)' PROVE index' = index
    <3>1. id \notin InRam
      <4> SUFFICES ASSUME id \in InRam PROVE FALSE
        OBVIOUS
      <4>1. PICK e \in work.entries : e[1] = id
        BY <1>1, <2>4 DEF FlushInv, Covers
      <4>2. e[2] # None /\ disk'[e[1]] = e[2]
        BY <2>3, <2>4 DEF Live
      <4> QED BY <2>1, <2>3, <4>1, <4>2 DEF Present
    <3>2. Unregister({})
      <4>1. {id} \cap InRam = {}
        BY <3>1
      <4> QED BY <2>1, <4>1 DEF Reconcile
    <3>3. index' = Remove(index, UNION {ChunkKeys(j, meta[j].of) : j \in {}})
      BY <3>2 DEF Unregister
    <3>4. UNION {ChunkKeys(j, meta[j].of) : j \in {}} = {}
      OBVIOUS
    <3>5. index' = Remove(index, {})
      BY <3>3, <3>4
    <3> QED BY <3>5, RemoveNothing DEF JInv, IInv, TypeOK, RamTypes
  <2> QED BY <1>1, <2>3, <2>4, FlushGoesOn DEF NoReturn
<1>7. \A t \in Tasks : ~ReadGone(t)
  BY <1>1 DEF NoReturn, ReadGone
<1>8. CASE Environment
  BY <1>2, <1>8 DEF Environment, Corrupted, Removed, Restored, Arrives, Edited, Outside, ramVars, lockVars
<1>9. ASSUME NEW t \in Tasks, Invoke(t) \/ Busy(t) \/ ReadHit(t) \/ ReadMissLate(t) PROVE FlushInv'
  BY <1>2, <1>9 DEF Invoke, Busy, ReadHit, ReadMissLate, ramVars, lockVars
<1>10. CASE UNCHANGED vars
  BY <1>2, <1>10 DEF vars, ramVars, lockVars
<1> QED BY <1>3, <1>4, <1>5, <1>6, <1>7, <1>8, <1>9, <1>10 DEF Next, Step

(* No mtime RAM or the holder has is one of a write to come.                *)
LEMMA ElderStep ==
    ASSUME IInv, Elder, Moves,
           \A id \in Ids : \/ meta'[id] \in {meta[id], None}
                           \/ meta'[id].mtime = None
                           \/ meta'[id].mtime = disk[id] /\ disk[id].at <= clock
                           \/ meta'[id].mtime = work.seen[id],
           \A id \in Ids : \/ work'.seen[id] \in {work.seen[id], None}
                           \/ work'.seen[id] = disk[id] /\ disk[id].at <= clock
                           \/ work'.seen[id].at = clock'
    PROVE  Elder'
<1>1. clock \in Nat /\ clock' \in {clock, clock + 1}
  BY DEF Moves, IInv, TypeOK, DiskTypes
<1>2. \A v \in Version : v.at \in Nat
  BY DEF Version
<1>3. ASSUME NEW id \in Ids, meta'[id] # None, meta'[id].mtime # None PROVE meta'[id].mtime.at <= clock'
  <2>1. PICK m : m = meta'[id].mtime
    OBVIOUS
  <2>2. m.at <= clock /\ m \in Version
    <3>1. CASE meta'[id] = meta[id]
      BY <1>3, <2>1, <3>1 DEF Elder, IInv, TypeOK, RamTypes, MaybeMeta, Meta
    <3>2. CASE m = disk[id] /\ disk[id].at <= clock
      BY <1>3, <2>1, <3>2 DEF IInv, TypeOK, DiskTypes, MaybeVersion
    <3>3. CASE m = work.seen[id]
      BY <1>3, <2>1, <3>3 DEF Elder, IInv, TypeOK, LockTypes, Work, MaybeVersion
    <3> QED BY <1>3, <2>1, <3>1, <3>2, <3>3
  <2> QED BY <1>1, <1>2, <2>1, <2>2
<1>4. ASSUME NEW id \in Ids, work'.seen[id] # None PROVE work'.seen[id].at <= clock'
  <2>1. CASE work'.seen[id].at = clock'
    BY <1>1, <2>1
  <2>2. CASE work'.seen[id] = work.seen[id]
    <3>1. work.seen[id] \in Version /\ work.seen[id].at <= clock
      BY <1>4, <2>2 DEF Elder, IInv, TypeOK, LockTypes, Work, MaybeVersion
    <3> QED BY <1>1, <1>2, <2>2, <3>1
  <2>3. CASE work'.seen[id] = disk[id] /\ disk[id].at <= clock
    <3>1. disk[id] \in Version
      BY <1>4, <2>3 DEF IInv, TypeOK, DiskTypes, MaybeVersion
    <3> QED BY <1>1, <1>2, <2>3, <3>1
  <2> QED BY <1>4, <2>1, <2>2, <2>3
<1> QED BY <1>3, <1>4 DEF Elder

LEMMA ElderStays == ASSUME Calm, JInv, [Next]_vars PROVE Elder'
<1>1. Elder /\ IInv /\ Moves /\ Aged
  BY NextMoves DEF JInv, SnapInv, StaleInv
<1>2. \A id \in Ids : disk[id] # None => disk[id].at <= clock
  BY <1>1 DEF Aged
<1>3. CASE work' \in {work, NoWork} /\ \A id \in Ids : meta'[id] \in {meta[id], None}
  BY <1>1, <1>3, ElderStep DEF NoWork, NoIds
<1>4. CASE Boot
  <2>1. work' = work
    BY <1>4 DEF Boot, Startup, StartupDone, LoadWarm, LoadColdGet, LoadColdStat, lockVars
  <2>2. ASSUME NEW id \in Ids, LoadWarm(id) PROVE Elder'
    <3>1. Readable(id) => boot.mtimes[id] = disk[id]
      BY <2>2 DEF LoadWarm, Readable, Present, JInv, StaleInv, LoadNow, Still
    <3>2. \A j \in Ids : \/ meta'[j] = meta[j]
                         \/ meta'[j].mtime = disk[j] /\ disk[j].at <= clock
      BY <1>2, <2>2, <3>1 DEF LoadWarm, Register, Readable, Present, JInv, IInv, TypeOK, RamTypes
    <3> QED BY <1>1, <2>1, <3>2, ElderStep
  <2>3. ASSUME NEW id \in Ids, LoadColdStat(id) PROVE Elder'
    <3>1. \A j \in Ids : \/ meta'[j] = meta[j]
                         \/ meta'[j].mtime = None
                         \/ meta'[j].mtime = disk[j] /\ disk[j].at <= clock
      BY <1>2, <2>3 DEF LoadColdStat, Register, JInv, IInv, TypeOK, RamTypes
    <3> QED BY <1>1, <2>1, <3>1, ElderStep
  <2>4. CASE meta' = meta
    BY <1>3, <2>1, <2>4
  <2> QED BY <1>4, <2>2, <2>3, <2>4 DEF Boot, Startup, StartupDone, LoadColdGet, ramVars
<1>5. CASE Crash
  BY <1>3, <1>5 DEF Crash, NoIds
<1>6. CASE Environment
  BY <1>3, <1>6 DEF Environment, Corrupted, Removed, Restored, Arrives, Edited, Outside, ramVars, lockVars
<1>7. ASSUME NEW t \in Tasks,
             Invoke(t) \/ Acquire(t) \/ Busy(t) \/ ReadHit(t) \/ ReadMiss(t) \/ ReadMissLate(t) \/ ReadGone(t)
      PROVE  Elder'
  <2>1. work' = work
    BY <1>7 DEF Invoke, Acquire, Busy, ReadHit, ReadMiss, ReadMissLate, ReadGone, lockVars
  <2>2. \A id \in Ids : meta'[id] \in {meta[id], None}
    BY <1>7 DEF Invoke, Acquire, Busy, ReadHit, ReadMiss, ReadMissLate, ReadGone, Reconcile, Unregister, ramVars
  <2> QED BY <1>3, <2>1, <2>2
<1>8. ASSUME NEW t \in Tasks, Holder(t) PROVE Elder'
  <2>1. CASE RegisterWritten(t) \/ IngestSettled(t) \/ UpdateRegister(t)
    <3>1. \A id \in Ids : meta'[id] = IF work.seen[id] # None
             THEN [of |-> work.seen[id], mtime |-> work.seen[id]] ELSE meta[id]
      BY <2>1 DEF RegisterWritten, IngestSettled, UpdateRegister, RegisterAll
    <3>2. \A id \in Ids : meta'[id] = meta[id] \/ meta'[id].mtime = work.seen[id]
      <4> TAKE id \in Ids
      <4>1. CASE work.seen[id] # None
        <5>1. meta'[id] = [of |-> work.seen[id], mtime |-> work.seen[id]]
          BY <3>1, <4>1
        <5> QED BY <5>1
      <4> QED BY <3>1, <4>1
    <3>3. work' = NoWork
      BY <2>1 DEF RegisterWritten, IngestSettled, UpdateRegister, Release
    <3> QED BY <1>1, <3>2, <3>3, ElderStep DEF NoWork, NoIds
  <2>2. CASE WritePut(t) \/ UpdatePut(t) \/ \E id \in Ids : IngestPut(t, id)
    <3>1. PICK id \in Ids : work'.seen = [work.seen EXCEPT ![id] = Written(call[t].txt)]
      <4>1. work \in Work /\ call[t].ids \subseteq Ids
        BY DEF JInv, IInv, TypeOK, LockTypes, CallTypes
      <4>2. CASE WritePut(t)
        BY <4>1, <4>2 DEF WritePut, Work
      <4>3. CASE UpdatePut(t)
        BY <4>1, <4>3 DEF UpdatePut, Work
      <4>4. CASE \E id \in Ids : IngestPut(t, id)
        BY <4>1, <4>4 DEF IngestPut, Work
      <4> QED BY <2>2, <4>2, <4>3, <4>4
    <3>2. meta' = meta /\ clock' = clock + 1
      BY <2>2 DEF WritePut, UpdatePut, IngestPut, Tick, ramVars
    <3>3. \A j \in Ids : work'.seen[j] = work.seen[j] \/ work'.seen[j].at = clock'
      BY <3>1, <3>2 DEF Written, JInv, IInv, TypeOK, LockTypes, Work
    <3> QED BY <1>1, <3>2, <3>3, ElderStep
  <2>3. ASSUME NEW id \in Ids, SyncStat(t, id) PROVE Elder'
    <3>1. meta' = meta /\ \A j \in Ids : \/ work'.seen[j] \in {work.seen[j], None}
                                         \/ work'.seen[j] = disk[j] /\ disk[j].at <= clock
      BY <1>2, <2>3 DEF SyncStat, Present, ramVars, JInv, IInv, TypeOK, LockTypes, Work
    <3> QED BY <1>1, <3>1, ElderStep
  <2>4. ASSUME NEW id \in Ids, SyncLoad(t, id) PROVE Elder'
    <3>1. \A j \in Ids : work'.seen[j] \in {work.seen[j], None}
      BY <2>4 DEF SyncLoad, JInv, IInv, TypeOK, LockTypes, Work
    <3>2. \A j \in Ids : meta'[j] = meta[j] \/ meta'[j].mtime = work.seen[j]
      <4>1. CASE Readable(id)
        BY <2>4, <4>1 DEF SyncLoad, Register, JInv, IInv, TypeOK, RamTypes
      <4>2. CASE ~Readable(id)
        BY <2>4, <4>2 DEF SyncLoad
      <4> QED BY <4>1, <4>2
    <3> QED BY <1>1, <3>1, <3>2, ElderStep
  <2>5. CASE DeleteRegister(t)
    <3>1. PICK id : meta' = [meta EXCEPT ![id] = None]
      BY <2>5 DEF DeleteRegister
    <3>2. \A j \in Ids : meta'[j] \in {meta[j], None}
      BY <3>1 DEF JInv, IInv, TypeOK, RamTypes
    <3> QED BY <1>3, <2>5, <3>2 DEF DeleteRegister, Release
  <2>6. CASE UpdateRead(t) \/ SyncPrune(t)
    <3>1. \A j \in Ids : meta'[j] \in {meta[j], None}
      <4>0. call[t].ids \subseteq Ids
        BY DEF JInv, IInv, TypeOK, CallTypes
      <4>1. CASE UpdateRead(t)
        <5>1. PICK id \in Ids : meta' = meta \/ Reconcile(id)
          BY <2>6, <4>1, <4>0 DEF UpdateRead, ramVars
        <5> QED BY <5>1 DEF Reconcile, Unregister
      <4>2. CASE SyncPrune(t)
        BY <4>2 DEF SyncPrune, Unregister
      <4> QED BY <2>6, <4>1, <4>2
    <3>2. work' = NoWork \/ work'.seen = work.seen
      <4>1. work \in Work
        BY DEF JInv, IInv, TypeOK, LockTypes
      <4>2. CASE UpdateRead(t)
        BY <4>1, <4>2 DEF UpdateRead, Release, Work
      <4>3. CASE SyncPrune(t)
        BY <4>3 DEF SyncPrune, Release
      <4> QED BY <2>6, <4>2, <4>3
    <3>3. \A j \in Ids : work'.seen[j] \in {work.seen[j], None}
      BY <3>2 DEF NoWork, NoIds
    <3> QED BY <1>1, <3>1, <3>3, ElderStep
  <2>7. CASE meta' = meta /\ \A j \in Ids : work'.seen[j] \in {work.seen[j], None}
    BY <1>1, <2>7, ElderStep
  <2>8. CASE \/ WriteCheck(t) \/ IngestCheck(t) \/ IngestRollback(t) \/ UpdateCheck(t)
             \/ DeleteCheck(t) \/ DeleteDo(t) \/ SyncList(t) \/ StorageFails(t)
             \/ FlushCheck(t) \/ FlushGraph(t) \/ FlushNames(t) \/ FlushWrite(t) \/ FlushFails(t)
             \/ \E id \in Ids : IngestPutFails(t, id)
    <3>1. meta' = meta
      BY <2>8 DEF WriteCheck, IngestCheck, IngestRollback, UpdateCheck, DeleteCheck, DeleteDo, SyncList,
         StorageFails, FlushCheck, FlushGraph, FlushNames, FlushWrite, FlushFails, IngestPutFails, ramVars
    <3>2. work' = NoWork \/ work'.seen = work.seen \/ work'.seen = NoIds
      <4>1. work \in Work
        BY DEF JInv, IInv, TypeOK, LockTypes
      <4>2. CASE WriteCheck(t) \/ IngestCheck(t) \/ IngestRollback(t) \/ UpdateCheck(t)
                \/ \E id \in Ids : IngestPutFails(t, id)
        BY <4>1, <4>2 DEF WriteCheck, IngestCheck, IngestRollback, UpdateCheck, IngestPutFails, Release, Work
      <4>3. CASE DeleteCheck(t) \/ DeleteDo(t) \/ StorageFails(t)
        BY <4>1, <4>3 DEF DeleteCheck, DeleteDo, StorageFails, Release, Work
      <4>4. CASE FlushCheck(t) \/ FlushGraph(t) \/ FlushNames(t) \/ FlushWrite(t) \/ FlushFails(t)
        BY <4>1, <4>4 DEF FlushCheck, FlushGraph, FlushNames, FlushWrite, FlushFails, Release, Work
      <4>5. CASE SyncList(t)
        <5>1. NoWork.seen = NoIds
          BY DEF NoWork
        <5>2. PICK f, m : work' = [NoWork EXCEPT !.todo = f, !.listed = f, !.known = m]
          BY <4>5 DEF SyncList
        <5> QED BY <5>2 DEF NoWork
      <4> QED BY <2>8, <4>2, <4>3, <4>4, <4>5
    <3> QED BY <2>7, <3>1, <3>2 DEF NoWork, NoIds
  <2> QED BY <1>8, <2>1, <2>2, <2>3, <2>4, <2>5, <2>6, <2>8 DEF Holder
<1>9. CASE UNCHANGED vars
  BY <1>3, <1>9 DEF vars, ramVars, lockVars
<1> QED BY <1>4, <1>5, <1>6, <1>7, <1>8, <1>9 DEF Next, Step

LEMMA NextIsKept ==
    ASSUME "flush" \in Ops => Calm
    PROVE  JInv /\ [Next]_vars => JInv'
<1> SUFFICES ASSUME JInv, [Next]_vars PROVE JInv'
  OBVIOUS
<1>1. KeepInv' /\ RamInv'
  <2>1. CASE Boot
    BY <2>1, StartupIsKept, StartupDoneIsKept, LoadWarmIsKept, LoadColdGetIsKept, LoadColdStatIsKept DEF Boot
  <2>2. CASE Crash
    BY <2>2, CrashIsKept
  <2>3. CASE Environment
    BY <2>3, EnvironmentIsKept
  <2>4. ASSUME NEW t \in Tasks, Invoke(t) PROVE KeepInv' /\ RamInv'
    BY <2>4, OthersKeep
  <2>5. ASSUME NEW t \in Tasks, Step(t) PROVE KeepInv' /\ RamInv'
    BY <2>5, OthersKeep, AcquireIsKept, HolderIsKept DEF Step
  <2>6. CASE UNCHANGED vars
    BY <2>6, StillIsKept
  <2> QED BY <2>1, <2>2, <2>3, <2>4, <2>5, <2>6 DEF Next
<1>2. IInv'
  BY NextKeeps DEF JInv
<1>3. ASSUME Calm PROVE StaleInv' /\ Owned' /\ SnapInv'
  <2>1. IInv /\ StaleInv /\ Owned /\ SnapInv
    BY <1>3 DEF JInv
  <2>2. StaleInv' /\ Owned'
    BY <1>3, <2>1, NextIsFresh, OwnedStays DEF Calm
  <2>3. Moves
    BY <2>1, NextMoves
  <2>4. CacheInv'
    BY <2>1, <2>3, CacheStays DEF SnapInv, NoReturn
  <2>5. FlushInv' /\ Elder' /\ WarmInv'
    BY <1>1, <1>3, FlushStays, ElderStays, WarmStays
  <2>6. NoReturn'
    BY <1>3, <2>1, NoReturnStays DEF SnapInv
  <2> QED BY <2>2, <2>4, <2>5, <2>6 DEF SnapInv
<1>4. Calm' <=> Calm
  BY DEF Calm, NoEdit, Undisturbed
<1> QED BY <1>1, <1>2, <1>3, <1>4 DEF JInv

LEMMA InitIsRight == Init => JInv
<1> SUFFICES ASSUME Init PROVE JInv
  OBVIOUS
<1>1. SnapInv
  BY DEF Init, SnapInv, CacheInv, FlushInv, WarmInv, Elder, NoReturn, NoBoot, NoWork, NoIds
<1> QED BY <1>1, InitInv, InitIsKept, InitIsFresh DEF JInv

LEMMA IndexInvariant == ASSUME "flush" \in Ops => Calm PROVE Spec => []JInv
BY InitIsRight, NextIsKept, PTL DEF Spec

(* Whatever the outside does and however reads, syncs, writes and crashes   *)
(* interleave, every memento RAM knows is found by every chunk of the       *)
(* version it was registered with.  Where the index is also cached on disk, *)
(* files may come, go and be damaged, but not be edited or put back with    *)
(* their old mtime, and no failed read is delivered late.                   *)
THEOREM RegisteredIsIndexedHolds ==
    ASSUME "flush" \in Ops => /\ EnvKinds \cap {"edit", "restore"} = {} /\ ~LateMiss
                              /\ EnvAtBoot => "corrupt" \notin EnvKinds
    PROVE  Spec => []RegisteredIsIndexed
<1>1. JInv => RegisteredIsIndexed
  BY DEF JInv, RamInv, Right, RegisteredIsIndexed, InRam
<1>2. "flush" \in Ops => Calm
  BY DEF Calm, NoEdit, Undisturbed
<1> QED BY <1>1, <1>2, IndexInvariant, PTL

(* If nobody edits a file underneath the vault, the index holds nothing     *)
(* else either, restored from a cache or not: recall never ranks a chunk it *)
(* cannot attribute.                                                        *)
THEOREM LockstepHolds ==
    ASSUME "edit" \notin EnvKinds,
           "flush" \in Ops => /\ "restore" \notin EnvKinds /\ ~LateMiss
                              /\ EnvAtBoot => "corrupt" \notin EnvKinds
    PROVE  Spec => []Lockstep
<1>1. JInv => Lockstep
  <2> SUFFICES ASSUME JInv PROVE Lockstep
    OBVIOUS
  <2>1. Right /\ Named /\ (phase = "ready" => Clean)
    BY NowCold DEF JInv, RamInv, NoEdit
  <2>2. ASSUME phase = "ready", NEW k \in Key, index.strToNum[k] # None
        PROVE  \E id \in InRam : k \in ChunkKeys(id, meta[id].of)
    BY <2>1, <2>2, KeyOf DEF Clean, InRam
  <2>3. ASSUME NEW id \in InRam, NEW k \in ChunkKeys(id, meta[id].of)
        PROVE  k \in Key /\ index.strToNum[k] # None
    <3>1. id \in Ids /\ meta[id] # None
      BY DEF InRam
    <3>2. meta[id].of \in Version
      BY <3>1, MetaTyped DEF JInv, IInv, TypeOK
    <3> QED BY <2>1, <3>1, <3>2, KeyOf, NoneAssumption DEF Right
  <2> QED BY <2>1, <2>2, <2>3 DEF Lockstep, Named
<1>2. "flush" \in Ops => Calm
  BY DEF Calm, NoEdit, Undisturbed
<1> QED BY <1>1, <1>2, IndexInvariant, PTL

(* Of files that come, go and are damaged while nobody edits one or puts    *)
(* one back, whatever a cache file was written under, half written writes,  *)
(* crashes and pruning syncs included: if its entries are the files of the  *)
(* directory, it restores the index a cold startup would build from them.   *)
THEOREM CacheSoundHolds ==
    ASSUME EnvKinds \cap {"edit", "restore"} = {}, ~LateMiss,
           EnvAtBoot => "corrupt" \notin EnvKinds
    PROVE  Spec => []CacheSound
<1>1. Calm
  BY DEF Calm, NoEdit, Undisturbed
<1>2. JInv => CacheSound
  <2> SUFFICES ASSUME JInv, cache # None, cache.entries = DiskEntries
               PROVE  LET ix  == Load(cache.names, cache.native)
                          k2v == UNION {{<<k, disk[id]>> : k \in ChunkKeys(id, disk[id])} :
                                          id \in {i \in Ids : Present(i)}}
                      IN  ix.numToStr = k2v /\ ix.native = k2v
    BY DEF CacheSound
  <2>1. CacheInv
    BY <1>1 DEF JInv, SnapInv
  <2>2. Live(DiskEntries)
    BY DEF Live, DiskEntries, Present
  <2>3. cache.native = LabelsOf(DiskEntries) /\ cache.names = LabelsOf(DiskEntries)
    BY <2>1, <2>2 DEF CacheInv, Holds
  <2>4. LabelsOf(DiskEntries) = UNION {{<<k, disk[id]>> : k \in ChunkKeys(id, disk[id])} :
                                          id \in {i \in Ids : Present(i)}}
    <3> DEFINE k2v == UNION {{<<k, disk[id]>> : k \in ChunkKeys(id, disk[id])} :
                               id \in {i \in Ids : Present(i)}}
    <3>1. \A m : m \in k2v <=>
             \E id \in Ids : disk[id] # None /\ \E j \in ChunkKeys(id, disk[id]) : m = <<j, disk[id]>>
      BY DEF Present
    <3> HIDE DEF k2v
    <3>2. k2v = LabelsOf(DiskEntries)
      BY <3>1, DiskLabels
    <3> QED BY <3>2 DEF k2v
  <2>5. /\ Load(cache.names, cache.native).numToStr = cache.names
        /\ Load(cache.names, cache.native).native = cache.native
    BY DEF Load
  <2> QED BY <2>3, <2>4, <2>5
<1> QED BY <1>1, <1>2, IndexInvariant, PTL

(***************************************************************************)
(* What an ingest and a sync leave behind                                   *)
(***************************************************************************)

(* Those who do not hold the lock mark the mementos whose file they change  *)
(* or which they drop from RAM.                                             *)
Tracked ==
    /\ UNCHANGED lockVars
    /\ lock # None => call'[lock] = call[lock]
    /\ touched \subseteq touched'
    /\ \A id \in Ids \ touched' : meta'[id] = meta[id] /\ disk'[id] = disk[id]

LEMMA OthersTrack ==
    ASSUME IInv,
           \/ Environment
           \/ \E t \in Tasks : Invoke(t) \/ Busy(t) \/ ReadHit(t) \/ ReadMiss(t)
                                 \/ ReadMissLate(t) \/ ReadGone(t)
    PROVE  Tracked
<1>1. CASE Environment
  <2>1. UNCHANGED <<lockVars, callVars, ramVars>>
    BY <1>1 DEF Environment, Corrupted, Removed, Restored, Arrives, Edited, Outside
  <2>2. Marked
    BY <1>1, OutsideSteady DEF Steady
  <2> QED BY <2>1, <2>2 DEF Tracked, Marked, callVars, ramVars
<1>2. ASSUME NEW t \in Tasks,
             Invoke(t) \/ Busy(t) \/ ReadHit(t) \/ ReadMiss(t) \/ ReadMissLate(t) \/ ReadGone(t)
      PROVE  Tracked
  <2>1. UNCHANGED <<lockVars, diskVars>>
    BY <1>2 DEF Invoke, Busy, ReadHit, ReadMiss, ReadMissLate, ReadGone
  <2>2. lock # None => call'[lock] = call[lock]
    BY <1>2, OthersAreSteady DEF Steady
  <2>3. CASE ReadMiss(t) \/ ReadGone(t)
    <3>1. PICK id : Reconcile(id)
      BY <2>3 DEF ReadMiss, ReadGone
    <3>2. touched \subseteq touched' /\ \A j \in Ids \ touched' : meta'[j] = meta[j]
      BY <3>1 DEF Reconcile, Unregister
    <3> QED BY <2>1, <2>2, <3>2 DEF Tracked, diskVars
  <2>4. CASE UNCHANGED <<ramVars, touched>>
    BY <2>1, <2>2, <2>4 DEF Tracked, diskVars, ramVars
  <2> QED BY <1>2, <2>3, <2>4 DEF Invoke, Busy, ReadHit, ReadMissLate
<1> QED BY <1>1, <1>2

(* Nothing an ingest was given is forgotten while no write failed.          *)
IngestInv ==
    stage = "ingestPut" /\ ~work.changed =>
        \A id \in call[lock].ids \ touched :
           id \in work.todo \/ work.seen[id] # None \/ meta[id] # None

LEMMA IntoIngest ==
    ASSUME NEW t \in Tasks, Holder(t), stage' = "ingestPut"
    PROVE  IngestCheck(t) \/ \E id \in Ids : IngestPut(t, id) \/ IngestPutFails(t, id)
BY DEF Holder, WriteCheck, WritePut, RegisterWritten, IngestRollback, IngestSettled, UpdateRead,
       UpdateCheck, UpdatePut, UpdateRegister, DeleteCheck, DeleteDo, DeleteRegister, SyncList,
       SyncStat, SyncLoad, SyncPrune, FlushCheck, FlushGraph, FlushNames, FlushWrite, FlushFails,
       StorageFails, Release, Goto

LEMMA IngestStays == ASSUME IInv, IngestInv, [Next]_vars PROVE IngestInv'
<1> SUFFICES ASSUME stage' = "ingestPut", ~work'.changed, NEW id \in (call[lock].ids \ touched)'
             PROVE  id \in work'.todo \/ work'.seen[id] # None \/ meta'[id] # None
  BY DEF IngestInv
<1>1. /\ lock = None => stage = "none"
      /\ lock # None => call[lock].ids \subseteq Ids
  BY DEF IInv, TypeOK, LockTypes, CallTypes
<1>2. CASE Tracked
  <2>1. lock # None /\ lock' = lock /\ work' = work /\ stage' = stage
    BY <1>1, <1>2 DEF Tracked, lockVars
  <2>2. id \in call[lock].ids \ touched /\ id \in Ids /\ meta'[id] = meta[id]
    BY <1>1, <1>2, <2>1 DEF Tracked
  <2> QED BY <2>1, <2>2 DEF IngestInv
<1>3. CASE Boot
  BY <1>1, <1>3, LoadingUnlocked DEF Boot, Startup, StartupDone, LoadWarm, LoadColdGet,
     LoadColdStat, lockVars
<1>4. CASE Crash
  BY <1>4 DEF Crash
<1>5. ASSUME NEW t \in Tasks, Acquire(t) PROVE FALSE
  BY <1>5 DEF Acquire, Wants, Waiting, LockedOps
<1>6. ASSUME NEW t \in Tasks, Holder(t)
      PROVE  id \in work'.todo \/ work'.seen[id] # None \/ meta'[id] # None
  <2>1. CASE IngestCheck(t)
    <3>1. lock = t /\ Goto("ingestPut") /\ meta' = meta
      BY <2>1 DEF IngestCheck, Release, At, ramVars
    <3>2. work'.todo = call[t].ids \ InRam
      BY <2>1 DEF IngestCheck, Release, IInv, TypeOK, LockTypes, Work
    <3>3. id \in call[t].ids /\ id \in Ids
      BY <1>1, <3>1, NoneIsNoTask DEF Goto, callVars
    <3> QED BY <3>1, <3>2, <3>3 DEF InRam
  <2>2. ASSUME NEW j \in Ids, IngestPut(t, j)
        PROVE  id \in work'.todo \/ work'.seen[id] # None \/ meta'[id] # None
    <3>1. lock = t /\ lock' = t /\ stage = "ingestPut" /\ call' = call /\ meta' = meta /\ touched' = touched
      BY <2>2 DEF IngestPut, At, Goto, ramVars, callVars
    <3>2. /\ work'.todo = work.todo \ {j} /\ work'.changed = work.changed
          /\ work'.seen = [work.seen EXCEPT ![j] = Written(call[t].txt)]
          /\ work.seen \in [Ids -> MaybeVersion]
      BY <2>2 DEF IngestPut, IInv, TypeOK, LockTypes, Work
    <3>3. Written(call[t].txt) # None
      BY <3>1, StageTellsOp, WrittenType, NoneAssumption DEF IInv, TypeOK, DiskTypes
    <3>4. id \in call[lock].ids \ touched /\ id \in Ids
      BY <1>1, <3>1, NoneIsNoTask
    <3>5. id \in work.todo \/ work.seen[id] # None \/ meta[id] # None
      BY <3>1, <3>2, <3>4 DEF IngestInv
    <3> QED BY <3>1, <3>2, <3>3, <3>4, <3>5
  <2>3. ASSUME NEW j \in Ids, IngestPutFails(t, j) PROVE FALSE
    BY <2>3 DEF IngestPutFails, IInv, TypeOK, LockTypes, Work
  <2> QED BY <1>6, <2>1, <2>2, <2>3, IntoIngest
<1>7. CASE UNCHANGED vars
  BY <1>7 DEF vars, lockVars, callVars, ramVars, IngestInv
<1> QED BY <1>2, <1>3, <1>4, <1>5, <1>6, <1>7, OthersTrack DEF Next, Step

(* The only step of a live process out of ingestPut that changes RAM.       *)
LEMMA OutOfIngest ==
    ASSUME IInv, [Next]_vars, stage = "ingestPut", stage' = "none", phase' = "ready",
           <<meta, index>>' # <<meta, index>>
    PROVE  IngestSettled(lock) /\ lock \in Tasks
<1>1. lock # None /\ lock \in Tasks
  BY DEF IInv, TypeOK, LockTypes
<1>2. ASSUME Tracked PROVE FALSE
  BY <1>2 DEF Tracked, lockVars
<1>3. CASE Boot
  BY <1>1, <1>3, LoadingUnlocked DEF Boot, Startup, StartupDone, LoadWarm, LoadColdGet, LoadColdStat
<1>4. CASE Crash
  BY <1>4 DEF Crash
<1>5. ASSUME NEW t \in Tasks, Acquire(t) PROVE FALSE
  BY <1>1, <1>5 DEF Acquire
<1>6. ASSUME NEW t \in Tasks, Holder(t) PROVE IngestSettled(t) /\ t = lock
  <2>1. stage = "ingestPut" /\ stage' = "none" /\ ~(meta' = meta /\ index' = index)
    OBVIOUS
  <2> QED BY <1>6, <2>1 DEF Holder, At, WriteCheck, WritePut, RegisterWritten, IngestCheck, IngestPut,
        IngestPutFails, IngestRollback, IngestSettled, UpdateRead, UpdateCheck, UpdatePut,
        UpdateRegister, DeleteCheck, DeleteDo, DeleteRegister, SyncList, SyncStat, SyncLoad,
        SyncPrune, FlushCheck, FlushGraph, FlushNames, FlushWrite, FlushFails, StorageFails,
        Goto, ramVars
<1>7. CASE UNCHANGED vars
  BY <1>7 DEF vars, lockVars
<1> QED BY <1>1, <1>2, <1>3, <1>4, <1>5, <1>6, <1>7, OthersTrack DEF Next, Step

(* An ingest that changes RAM leaves every memento it was given registered  *)
(* and found by every chunk, excepting those whose file a concurrent read   *)
(* found gone: a failed write never leaves a batch half registered.  With   *)
(* the index cache, under the conditions of RegisteredIsIndexedHolds.       *)
THEOREM IngestCompleteHolds ==
    ASSUME "flush" \in Ops => /\ EnvKinds \cap {"edit", "restore"} = {} /\ ~LateMiss
                              /\ EnvAtBoot => "corrupt" \notin EnvKinds
    PROVE  Spec => IngestComplete
<1>1. Init => IngestInv
  BY DEF Init, IngestInv
<1>2. IInv /\ IngestInv /\ [Next]_vars => IngestInv'
  BY IngestStays
<1>3. ASSUME JInv, JInv', IngestInv, [Next]_vars,
             stage = "ingestPut", stage' = "none", phase' = "ready",
             <<meta, index>>' # <<meta, index>>, NEW id \in call[lock].ids \ touched
      PROVE  /\ meta'[id] # None
             /\ \A k \in ChunkKeys(id, meta'[id].of) : index'.strToNum[k] # None
  <2>1. IngestSettled(lock) /\ lock \in Tasks
    BY <1>3, OutOfIngest DEF JInv
  <2>2. id \in Ids
    <3>1. call[lock].ids \in SUBSET Ids
      BY <1>3, <2>1 DEF JInv, IInv, TypeOK, CallTypes
    <3> QED BY <1>3, <3>1
  <2>3. work.todo = {} /\ ~work.changed /\ RegisterAll(index)
    BY <2>1 DEF IngestSettled
  <2>4. work.seen[id] # None \/ meta[id] # None
    BY <1>3, <2>3 DEF IngestInv
  <2>5. meta'[id] = IF work.seen[id] # None
                      THEN [of |-> work.seen[id], mtime |-> work.seen[id]] ELSE meta[id]
    BY <2>2, <2>3 DEF RegisterAll
  <2>6. meta'[id] # None
    <3>1. CASE work.seen[id] # None
      <4>1. work.seen[id] \in Version
        BY <1>3, <2>2, <3>1 DEF JInv, IInv, TypeOK, LockTypes, Work, MaybeVersion
      <4>2. [of |-> work.seen[id], mtime |-> work.seen[id]] \in Meta
        BY <4>1 DEF Meta
      <4>3. meta'[id] = [of |-> work.seen[id], mtime |-> work.seen[id]]
        BY <2>5, <3>1
      <4> QED BY <4>2, <4>3, MetaAssumption
    <3>2. CASE work.seen[id] = None
      BY <2>4, <2>5, <3>2
    <3> QED BY <3>1, <3>2
  <2>7. meta'[id].of \in Version
    BY <1>3, <2>2, <2>6 DEF JInv, IInv, TypeOK, RamTypes, MaybeMeta, Meta
  <2>8. \A k \in ChunkKeys(id, meta'[id].of) : index'.strToNum[k] = meta'[id].of
    BY <1>3, <2>2, <2>6 DEF JInv, RamInv, Right
  <2> QED BY <2>6, <2>7, <2>8, NoneAssumption
<1>4. JInv => IInv
  BY DEF JInv
<1>5. JInv /\ JInv' /\ IngestInv /\ [Next]_vars =>
        [(stage = "ingestPut" /\ stage' = "none" /\ phase' = "ready" /\ <<meta, index>>' # <<meta, index>>)
          => \A id \in call[lock].ids \ touched :
               /\ meta'[id] # None
               /\ \A k \in ChunkKeys(id, meta'[id].of) : index'.strToNum[k] # None]_vars
  BY <1>3
<1>6. "flush" \in Ops => Calm
  BY DEF Calm, NoEdit, Undisturbed
<1> QED BY <1>1, <1>2, <1>4, <1>5, <1>6, IndexInvariant, PTL DEF Spec, IngestComplete

(* What RAM has of a readable file is what the file is.                     *)
Mirrored(id) == Readable(id) => meta[id] # None /\ meta[id].of = disk[id]

(* A startup, or a sync, is done with the untouched files it has passed.    *)
LoadSees ==
    phase = "loading" =>
        \A id \in Ids \ touched :
           /\ ~Present(id) => meta[id] = None /\ boot.got[id] = None
           /\ id \notin boot.todo /\ boot.got[id] = None => Mirrored(id)

SyncSees ==
    stage = "syncFiles" =>
        /\ \A id \in Ids : id \in work.todo => work.seen[id] = None
        /\ \A id \in Ids \ touched :
              /\ id \in work.listed <=> Present(id)
              /\ id \in work.todo => meta[id] = work.known[id]
              /\ id \notin work.todo /\ work.seen[id] = None => Mirrored(id)

LEMMA BootSees == ASSUME IInv, StaleInv, LoadSees, Boot PROVE LoadSees' /\ SyncSees'
<1>1. disk' = disk /\ UNCHANGED lockVars /\ phase # "ready"
  BY DEF Boot, Startup, StartupDone, LoadWarm, LoadColdGet, LoadColdStat, diskVars
<1>2. SyncSees'
  BY <1>1, LoadingUnlocked DEF IInv, TypeOK, LockTypes, lockVars, SyncSees
<1>3. CASE Startup
  <2>1. boot'.todo = {id \in Ids : Present(id)} /\ boot'.got = NoIds /\ meta' = NoIds
    BY <1>3 DEF Startup, StaleInv, NoBoot
  <2> QED BY <1>1, <1>2, <2>1 DEF LoadSees, Mirrored, Readable, Present, NoIds
<1>4. CASE StartupDone
  BY <1>2, <1>4 DEF StartupDone, LoadSees
<1>5. ASSUME NEW id \in Ids, LoadWarm(id) PROVE LoadSees'
  <2>1. phase = "loading" /\ touched' = touched /\ boot'.got = boot.got
    BY <1>5 DEF LoadWarm, IInv, TypeOK, BootTypes
  <2>2. boot'.todo = boot.todo \ {id}
    BY <1>5 DEF LoadWarm, IInv, TypeOK, BootTypes
  <2>3. /\ \A j \in Ids : j # id => meta'[j] = meta[j]
        /\ Readable(id) => meta'[id].of = disk[id] /\ meta'[id] # None
        /\ ~Readable(id) => meta'[id] = meta[id]
    <3>1. CASE Readable(id)
      <4>1. disk[id] \in Version /\ boot.mtimes[id] \in Version \cup {None}
        BY <3>1 DEF Readable, Present, IInv, TypeOK, DiskTypes, BootTypes, MaybeVersion
      <4>2. [of |-> disk[id], mtime |-> boot.mtimes[id]] \in Meta
        BY <4>1 DEF Meta
      <4>3. meta' = [meta EXCEPT ![id] = [of |-> disk[id], mtime |-> boot.mtimes[id]]]
        BY <1>5, <3>1 DEF LoadWarm, Register
      <4> QED BY <3>1, <4>2, <4>3, MetaAssumption DEF IInv, TypeOK, RamTypes
    <3>2. CASE ~Readable(id)
      BY <1>5, <3>2 DEF LoadWarm
    <3> QED BY <3>1, <3>2
  <2> QED BY <1>1, <2>1, <2>2, <2>3 DEF LoadSees, Mirrored, Readable, Present
<1>6. ASSUME NEW id \in Ids, LoadColdGet(id) PROVE LoadSees'
  <2>1. phase = "loading" /\ touched' = touched /\ meta' = meta /\ boot'.todo = boot.todo \ {id}
    BY <1>6 DEF LoadColdGet, ramVars, IInv, TypeOK, BootTypes
  <2>2. /\ \A j \in Ids : j # id => boot'.got[j] = boot.got[j]
        /\ Readable(id) => boot'.got[id] # None
        /\ ~Present(id) => boot'.got[id] = None
    BY <1>6 DEF LoadColdGet, Readable, Present, IInv, TypeOK, BootTypes
  <2> QED BY <1>1, <2>1, <2>2 DEF LoadSees, Mirrored, Readable, Present
<1>7. ASSUME NEW id \in Ids, LoadColdStat(id) PROVE LoadSees'
  <2>1. phase = "loading" /\ touched' = touched /\ boot'.todo = boot.todo /\ boot.got[id] # None
    BY <1>7 DEF LoadColdStat, IInv, TypeOK, BootTypes
  <2>2. /\ \A j \in Ids : j # id => meta'[j] = meta[j]
        /\ \A j \in Ids : boot'.got[j] = IF j = id THEN None ELSE boot.got[j]
    BY <1>7 DEF LoadColdStat, Register, IInv, TypeOK, RamTypes, BootTypes
  <2>3. ASSUME id \notin touched PROVE Present(id) /\ meta'[id] # None /\ meta'[id].of = disk[id]
    <3>1. Present(id)
      BY <2>1, <2>3 DEF LoadSees
    <3>2. boot.got[id] = disk[id] /\ disk[id] \in Version
      BY <2>1, <3>1 DEF StaleInv, LoadNow, Still, Present, IInv, TypeOK, DiskTypes, MaybeVersion
    <3>3. [of |-> disk[id], mtime |-> disk[id]] \in Meta
      BY <3>2 DEF Meta
    <3>4. meta'[id] = [of |-> disk[id], mtime |-> disk[id]]
      BY <1>7, <3>2 DEF LoadColdStat, Register, IInv, TypeOK, RamTypes
    <3> QED BY <3>1, <3>3, <3>4, MetaAssumption
  <2> QED BY <1>1, <2>1, <2>2, <2>3 DEF LoadSees, Mirrored, Readable, Present
<1> QED BY <1>2, <1>3, <1>4, <1>5, <1>6, <1>7 DEF Boot

LEMMA SyncStatSees ==
    ASSUME IInv, StaleInv, SyncSees, NEW t \in Tasks, NEW id \in Ids, SyncStat(t, id)
    PROVE  SyncSees'
<1>1. /\ stage = "syncFiles" /\ disk' = disk /\ meta' = meta /\ touched' = touched
      /\ id \in work.todo
  BY DEF SyncStat, At, diskVars, ramVars
<1>2. /\ work'.todo = work.todo \ {id} /\ work'.known = work.known /\ work'.listed = work.listed
      /\ \A j \in Ids : j # id => work'.seen[j] = work.seen[j]
  BY DEF SyncStat, IInv, TypeOK, LockTypes, Work
<1>3. work'.seen[id] = None => ~Present(id) \/ (work.known[id] # None /\ work.known[id].mtime = disk[id])
  BY DEF SyncStat, Present, IInv, TypeOK, LockTypes, Work
<1>4. ASSUME id \notin touched, work'.seen[id] = None PROVE Mirrored(id)
  <2>1. meta[id] = work.known[id]
    BY <1>1, <1>4 DEF SyncSees
  <2>2. NoSilentStaleness
    BY DEF StaleInv, Stamped, Dead, NoSilentStaleness, InRam, Present
  <2> QED BY <1>3, <1>4, <2>1, <2>2 DEF Mirrored, Readable, NoSilentStaleness, InRam
<1> QED BY <1>1, <1>2, <1>4 DEF SyncSees, Mirrored, Readable, Present

LEMMA SyncLoadSees ==
    ASSUME IInv, SyncSees, NEW t \in Tasks, NEW id \in Ids, SyncLoad(t, id)
    PROVE  SyncSees'
<1>1. stage = "syncFiles" /\ disk' = disk /\ touched' = touched /\ work.seen[id] # None
  BY DEF SyncLoad, At, diskVars
<1>2. /\ work'.todo = work.todo /\ work'.known = work.known /\ work'.listed = work.listed
      /\ \A j \in Ids : work'.seen[j] = IF j = id THEN None ELSE work.seen[j]
  BY DEF SyncLoad, IInv, TypeOK, LockTypes, Work
<1>3. /\ \A j \in Ids : j # id => meta'[j] = meta[j]
      /\ Readable(id) => meta'[id] # None /\ meta'[id].of = disk[id]
  <2>1. CASE Readable(id)
    <3>1. disk[id] \in Version /\ work.seen[id] \in Version \cup {None}
      BY <2>1 DEF Readable, Present, IInv, TypeOK, DiskTypes, LockTypes, Work, MaybeVersion
    <3>2. [of |-> disk[id], mtime |-> work.seen[id]] \in Meta
      BY <3>1 DEF Meta
    <3>3. meta' = [meta EXCEPT ![id] = [of |-> disk[id], mtime |-> work.seen[id]]]
      BY <2>1 DEF SyncLoad, Register
    <3> QED BY <3>2, <3>3, MetaAssumption DEF IInv, TypeOK, RamTypes
  <2>2. CASE ~Readable(id)
    BY <2>2 DEF SyncLoad
  <2> QED BY <2>1, <2>2
<1>4. id \notin work.todo
  BY <1>1 DEF SyncSees
<1> QED BY <1>1, <1>2, <1>3, <1>4 DEF SyncSees, Mirrored, Readable, Present

LEMMA SeesStays ==
    ASSUME IInv, StaleInv, LoadSees, SyncSees, [Next]_vars
    PROVE  LoadSees' /\ SyncSees'
<1>1. CASE Tracked /\ phase' = phase /\ boot' = boot
  BY <1>1 DEF Tracked, lockVars, LoadSees, SyncSees, Mirrored, Readable, Present
<1>2. CASE Boot
  BY <1>2, BootSees
<1>3. CASE Crash
  BY <1>3 DEF Crash, LoadSees, SyncSees
<1>4. CASE Environment
  <2>1. phase' = phase /\ boot' = boot
    BY <1>4 DEF Environment, Corrupted, Removed, Restored, Arrives, Edited, Outside
  <2> QED BY <1>1, <1>4, <2>1, OthersTrack
<1>5. ASSUME NEW t \in Tasks, Acquire(t) PROVE LoadSees' /\ SyncSees'
  <2>1. stage' # "syncFiles" /\ phase' = "ready"
    BY <1>5 DEF Acquire, Waiting, Wants, LockedOps, IInv, ReadyInv
  <2> QED BY <2>1 DEF LoadSees, SyncSees
<1>6. ASSUME NEW t \in Tasks,
             Invoke(t) \/ Busy(t) \/ ReadHit(t) \/ ReadMiss(t) \/ ReadMissLate(t) \/ ReadGone(t)
      PROVE  LoadSees' /\ SyncSees'
  <2>1. phase' = phase /\ boot' = boot
    BY <1>6 DEF Invoke, Busy, ReadHit, ReadMiss, ReadMissLate, ReadGone
  <2> QED BY <1>1, <1>6, <2>1, OthersTrack
<1>7. ASSUME NEW t \in Tasks, Holder(t) PROVE LoadSees' /\ SyncSees'
  <2>1. phase # "loading"
    <3>1. lock = t
      BY <1>7 DEF Holder, At, WriteCheck, WritePut, RegisterWritten, IngestCheck, IngestPut,
        IngestPutFails, IngestRollback, IngestSettled, UpdateRead, UpdateCheck, UpdatePut,
        UpdateRegister, DeleteCheck, DeleteDo, DeleteRegister, SyncList, SyncStat, SyncLoad,
        SyncPrune, FlushCheck, FlushGraph, FlushNames, FlushWrite, FlushFails, StorageFails
    <3> QED BY <3>1, HolderIs
  <2>2. phase' = phase
    BY <1>7 DEF Holder, WriteCheck, WritePut, RegisterWritten, IngestCheck, IngestPut,
      IngestPutFails, IngestRollback, IngestSettled, UpdateRead, UpdateCheck, UpdatePut,
      UpdateRegister, DeleteCheck, DeleteDo, DeleteRegister, SyncList, SyncStat, SyncLoad,
      SyncPrune, FlushCheck, FlushGraph, FlushNames, FlushWrite, FlushFails, StorageFails
  <2>3. CASE SyncList(t)
    <3>1. /\ work'.seen = NoIds /\ work'.known = meta /\ meta' = meta /\ disk' = disk
          /\ work'.listed = {id \in Ids : Present(id)} /\ work'.todo = {id \in Ids : Present(id)}
      BY <2>3 DEF SyncList, NoWork, ramVars, diskVars
    <3>2. SyncSees'
      BY <3>1 DEF SyncSees, Mirrored, Readable, Present, NoIds
    <3> QED BY <2>1, <2>2, <3>2 DEF LoadSees
  <2>4. ASSUME NEW id \in Ids, SyncStat(t, id) \/ SyncLoad(t, id) PROVE SyncSees'
    BY <2>4, SyncStatSees, SyncLoadSees
  <2>5. CASE stage' # "syncFiles"
    BY <2>1, <2>2, <2>5 DEF LoadSees, SyncSees
  <2> QED BY <1>7, <2>1, <2>2, <2>3, <2>4, <2>5 DEF LoadSees, Holder, WriteCheck, WritePut,
      RegisterWritten, IngestCheck, IngestPut, IngestPutFails, IngestRollback, IngestSettled,
      UpdateRead, UpdateCheck, UpdatePut, UpdateRegister, DeleteCheck, DeleteDo, DeleteRegister,
      SyncPrune, FlushCheck, FlushGraph, FlushNames, FlushWrite, FlushFails, StorageFails, Release, Goto
<1>8. CASE UNCHANGED vars
  <2>1. Tracked /\ phase' = phase /\ boot' = boot
    BY <1>8 DEF vars, lockVars, callVars, ramVars, diskVars, Tracked
  <2> QED BY <1>1, <2>1
<1> QED BY <1>2, <1>3, <1>4, <1>5, <1>6, <1>7, <1>8 DEF Next, Step

(* The only steps that end a startup or a sync of a live process.           *)
LEMMA EndsWell ==
    ASSUME IInv, [Next]_vars, phase' = "ready",
           (stage = "syncFiles" /\ stage' = "none") \/ phase = "loading"
    PROVE  StartupDone \/ \E t \in Tasks : SyncPrune(t)
<1>1. phase = "loading" => lock = None /\ stage = "none"
  BY LoadingUnlocked DEF IInv, TypeOK, LockTypes
<1>2. stage = "syncFiles" => lock # None /\ phase = "ready"
  BY DEF IInv, TypeOK, LockTypes, HolderInv
<1>3. ASSUME UNCHANGED lockVars, phase' = phase PROVE FALSE
  BY <1>1, <1>3 DEF lockVars
<1>4. CASE Boot
  BY <1>2, <1>4 DEF Boot, Startup, LoadWarm, LoadColdGet, LoadColdStat, StartupDone
<1>5. CASE Crash
  BY <1>5 DEF Crash
<1>6. CASE Environment
  <2>1. UNCHANGED lockVars /\ phase' = phase
    BY <1>6 DEF Environment, Corrupted, Removed, Restored, Arrives, Edited, Outside
  <2> QED BY <1>3, <2>1
<1>7. ASSUME NEW t \in Tasks, Acquire(t) PROVE FALSE
  BY <1>2, <1>7 DEF Acquire, Waiting, IInv, ReadyInv
<1>8. ASSUME NEW t \in Tasks,
             Invoke(t) \/ Busy(t) \/ ReadHit(t) \/ ReadMiss(t) \/ ReadMissLate(t) \/ ReadGone(t)
      PROVE  FALSE
  BY <1>3, <1>8 DEF Invoke, Busy, ReadHit, ReadMiss, ReadMissLate, ReadGone
<1>9. ASSUME NEW t \in Tasks, Holder(t) PROVE SyncPrune(t)
  <2>1. lock = t
    BY <1>9 DEF Holder, At, WriteCheck, WritePut, RegisterWritten, IngestCheck, IngestPut,
      IngestPutFails, IngestRollback, IngestSettled, UpdateRead, UpdateCheck, UpdatePut,
      UpdateRegister, DeleteCheck, DeleteDo, DeleteRegister, SyncList, SyncStat, SyncLoad,
      SyncPrune, FlushCheck, FlushGraph, FlushNames, FlushWrite, FlushFails, StorageFails
  <2>2. stage = "syncFiles" /\ stage' = "none"
    BY <1>1, <2>1, NoneIsNoTask
  <2> QED BY <1>9, <2>2 DEF Holder, At, WriteCheck, WritePut, RegisterWritten, IngestCheck,
      IngestPut, IngestPutFails, IngestRollback, IngestSettled, UpdateRead, UpdateCheck, UpdatePut,
      UpdateRegister, DeleteCheck, DeleteDo, DeleteRegister, SyncList, SyncStat, SyncLoad,
      SyncPrune, FlushCheck, FlushGraph, FlushNames, FlushWrite, FlushFails, StorageFails, Goto
<1>10. CASE UNCHANGED vars
  BY <1>3, <1>10 DEF vars
<1> QED BY <1>4, <1>5, <1>6, <1>7, <1>8, <1>9, <1>10 DEF Next, Step

(* When no file is replaced during a startup, though files may come and go, *)
(* a startup or sync leaves RAM equal to the readable files that nobody     *)
(* touched since it listed them, with or without a cache: what one sync     *)
(* misses is only what changed during it.                                   *)
THEOREM MirrorsDiskHolds ==
    ASSUME EnvAtBoot => EnvKinds \cap {"edit", "corrupt"} = {}
    PROVE  Spec => MirrorsDisk
<1>1. Init => LoadSees /\ SyncSees
  BY DEF Init, LoadSees, SyncSees
<1>2. IInv /\ StaleInv /\ LoadSees /\ SyncSees /\ [Next]_vars => LoadSees' /\ SyncSees'
  BY SeesStays
<1>3. ASSUME IInv, StaleInv, LoadSees, SyncSees, [Next]_vars, phase' = "ready",
             (stage = "syncFiles" /\ stage' = "none") \/ phase = "loading",
             NEW id \in Ids \ touched
      PROVE  Mirrors(id)
  <2>1. CASE StartupDone
    <3>1. phase = "loading" /\ boot.todo = {} /\ boot.got[id] = None /\ meta' = meta
      BY <2>1 DEF StartupDone, NoIds
    <3> QED BY <1>3, <3>1 DEF LoadSees, Mirrored, Mirrors
  <2>2. ASSUME NEW t \in Tasks, SyncPrune(t) PROVE Mirrors(id)
    <3>1. stage = "syncFiles" /\ work.todo = {} /\ work.seen[id] = None
      BY <2>2 DEF SyncPrune, At, NoIds
    <3>2. meta'[id] = IF id \in InRam \ work.listed THEN None ELSE meta[id]
      BY <2>2 DEF SyncPrune, Unregister
    <3>3. (id \in work.listed <=> Present(id)) /\ Mirrored(id)
      BY <1>3, <3>1 DEF SyncSees
    <3> QED BY <3>2, <3>3 DEF Mirrored, Mirrors, Readable, InRam
  <2> QED BY <1>3, <2>1, <2>2, EndsWell
<1>4. IInv /\ StaleInv /\ LoadSees /\ SyncSees /\ [Next]_vars =>
        [(((stage = "syncFiles" /\ stage' = "none") \/ phase = "loading") /\ phase' = "ready")
           => \A id \in Ids \ touched : Mirrors(id)]_vars
  BY <1>3
<1> QED BY <1>1, <1>2, <1>4, InvariantHolds, StaleHolds, PTL DEF Spec, MirrorsDisk, Undisturbed
=============================================================================
