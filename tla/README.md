# Formal models of mementos

TLA+ models of mementos, an encrypted memory vault for AI assistants
(`src/`): TLC checks them on small instances and TLAPS proves theorems about
them for every value of their constants. `PROJECT.json` maps every definition
to the lines it models and lists runs, mutants, findings, hazards and theorems.

## The system

A memento is one encrypted file `<id>.mem` in a directory that a sync client,
another device, or a git remote changes underneath the program. One process,
the daemon, holds the vault in memory; everything else (CLI commands, the MCP
shim of an AI client, hooks) calls it over HTTP on one local port.

| Component | State | Operations | Interacts with |
|---|---|---|---|
| Vault (`core/vault/index.ts`, `cache.ts`, `lock.ts`) | metadata map, cache-dirty flag, shared sync in flight, write lock | startup, write, ingest, update, delete, read, recall, search, sync, flush | storage, index, retriever, searcher, metadata store; called by the daemon |
| Vector index (`vector/hnsw`) | native graph, label/key maps | add, remove, removeMemento, serialize, load | the vault; the cache file |
| Metadata store (`core/vault/meta-store.ts`) | records, recency list, tag and chronicle indexes | set, delete, re-sort, walks, filters | the vault, recall |
| Local storage (`storage/local`) | the directory | list, stat, get, put with ifMatch, putBatch with rollback, delete | the vault, the outside |
| Git storage (`storage/git`) | working tree, staged changes, local commits, remote | the same, each with commit, push, retry and undo; sync and recovery of unpushed writes | the vault, other devices |
| Daemon (`daemon/*`, `cli/commands/daemon.ts`) | port, state file, token file | start, stop, ensure, call; startup, shutdown | every client |
| Migration (`cli/commands/migrate.ts`, `cli/_utils/migration-*.ts`) | manifest, staging, backup, key store, configs | stage, commit, resume, abort; key, embedder, storage copy | vault files, the daemon (which must not run) |
| Setup (`init.ts`, `doctor.ts`, `backup.ts`, `destroy.ts`), key providers | `config.json`, `vault.json`, key in the keychain or its fallback file, preflight manifest | set up, reinit, join, back up, restore, check, remove | storage other machines share, the daemon, the key |
| Key transfer (`cli/_transfer/*`) | protocol state of two devices | handshake, short-code confirmation, send, receive | key providers |
| Chunker, searchers, retrievers | derived indexes | cut, postings, bounded top-k, rank fusion | the vault |
| Integrations (`integrations/*`, `admin.ts`) | other programs' config files, registries, skills | install, uninstall, toggle hooks | the clients, the user |
| Ingestors, embedders, runtime commands, rendering | none of their own | parse, embed, print | the vault |

### What is hard, and the properties that make it correct

* **Vault.** Calls interleave at every `await`; the directory changes between
  any two of them; reads mutate memory without the lock; a crash may come at
  any point. Correct means: index and metadata agree (`Lockstep`,
  `RegisteredIsIndexed`), an accepted cache equals a rebuild (`CacheSound`),
  syncs and startups mirror the directory (`MirrorsDisk`), no stale content is
  believed current (`NoSilentStaleness`), nothing is stored twice
  (`NoDuplicateWrite`), an ingest is complete (`IngestComplete`) or leaves the
  directory as it was (`BatchUndone`), every call ends (`EveryCallReturns`).
* **Retrieval.** Three derived indexes follow the mementos through updates and
  removals, and a read ranks what it loads only later: the trigram index finds
  what a scan finds (`TrigramIsScan`), the inverted index is the inverse of the
  chunks (`PostingsInverse`), no chunk exceeds what the embedder reads and no
  word is lost (`ChunksFit`), a listing is complete (`ListingComplete`), a
  recall returns as many mementos as are relevant, unless the chunks of fewer
  fill what it fetches (`RecallFull`).
* **Metadata store.** Long sequences of set, replace, delete and re-sort on a
  hand-made linked list and two inverted indexes: indexes stay exact
  (`IndexesExact`), filters lose nothing to the early exit of the range walk
  (`FilterExact`), the list is the promised feed (`KeepsFeed`).
* **Daemon.** Independent processes race for a port and share two files by
  name; any of them may be killed between two writes: a serving daemon can be
  called (`Reachable`), `stop` is true (`StoppedMeansGone`), who spawned a
  daemon gets an answer (`SpawnerReturns`).
* **Migration.** A crash between any two steps, an abort in any phase, another
  process starting meanwhile: an unfenced vault is readable by the active key
  and settings (`UnfencedMeansReadable`), a complete form of it exists at every
  moment (`Recoverable`), no daemon serves meanwhile (`FenceHolds`).
* **Git storage.** A push is rejected, conflicts, or is cut off with its answer
  lost: a reported success reached the remote (`AckedIsPushed`), a reported
  failure left nothing of its own and took nothing else (`FailedIsUndone`),
  nobody's change is overwritten unseen (`PeersKept`), operations end
  (`OperationEnds`), and a device whose peers are quiet comes to agree with the
  remote (`Converges`).
* **Key transfer.** The secret moves only after both users confirmed the same
  code (`SecretNeedsBoth`), nobody is accused of tampering without cause
  (`NobodyAccused`), a session ends (`SessionEnds`) and a completed one was
  delivered (`Delivered`), whatever side disconnects when.
* **Setup.** Machines share a storage and set it up, join, replace and remove
  it at once, with keychains that fail and daemons that start: one key
  (`OneKey`) and one embedder (`OneSpace`) per vault, no daemon without its
  configuration (`NoGhost`), a `doctor` that is right (`DoctorIsRight`).
* **Integrations.** Files that client, user and mementos all rewrite: what is
  the user's stays (`UsersKept`), no file is seen half written (`Whole`), what
  was removed is gone (`Clean`).

The hazards in `PROJECT.json` name the line where each of these bites.

## Modules

| Module | Models | Used by |
|---|---|---|
| `ChunkIndex` | label bookkeeping of the vector index, as pure operators | `Vault` |
| `Vault` | the vault over local storage | `MCVault`, `VaultProofs` |
| `RecencyFeed` | what the metadata store promises: one sequence, newest first | `MetaStore` (refinement) |
| `MetaStore` | the metadata store, driven by the vault's operations | `MCMetaStore`, `MetaStoreProofs` |
| `Collections` | the code's arrays and maps: sorting, filtering, putting, as pure operators | `Chunker` |
| `Chunker`, `Searcher`, `Retriever` | cutting texts; scan and trigram search; semantic and hybrid ranking: pure operators | `Retrieval` |
| `Retrieval` | the vault's reads over all three, with writes in between | `MCRetrieval`, `RetrievalProofs` |
| `GitSync` | the git backend, command by command, and its remote | `MCGitSync`, `GitSyncProofs` |
| `Daemon` | daemon processes and their clients | `MCDaemon`, `DaemonKeyTransferProofs` |
| `Migration` | `mementos migrate` against kills, failures and a daemon | `MCMigration`, `MigrationProofs` |
| `Setup` | setting machines up and down, the key providers, `doctor` | `MCSetup`, `SetupProofs` |
| `KeyTransfer` | `share-key` and its counterpart, message by message | `MCKeyTransfer`, `DaemonKeyTransferProofs` |
| `Integrations` | installing into the AI clients, write by write | `MCIntegrations`, `IntegrationsProofs` |
| `*Proofs` | theorems; those of `Daemon` and `KeyTransfer` share a module | |
| `MC*` | instances for TLC | |

The vault is seen three times, each time with what the other views leave out:
`Vault` has its concurrency and files, `MetaStore` its bookkeeping, `Retrieval`
what reads find. `Migration` changes the key of one vault step by step; in
`Setup`, about many machines, that is one step.

Operators named `X_Something` next to an operator `X`, marked *Fault*, are not
part of any specification. Each is `X` with a plausible bug; substituting it
for `X` makes TLC find the property named with it in `PROJECT.json` violated.

Several modules keep a history variable `mishaps`: which of a few named windows
of the code were hit. The windows are defined next to the properties, which
excuse them by name and nothing else; the section on behaviour below says what
happens in each.

### Vault and ChunkIndex

One Node process: each action is the code between two awaits. `Startup`,
`LoadWarm`, `LoadColdGet`, `LoadColdStat` and `StartupDone` are `startup()`
with and without a cache; `Invoke` is a call arriving, possibly through
`syncIfStale`, whose single sync others join; `Acquire`, `Busy` and `Release`
are the write lock; then each operation has one action per stretch of code
(`WriteCheck`, `WritePut`, `RegisterWritten`, ...). Reads take no lock
(`ReadHit`, `ReadMiss`, `ReadGone`; `ReadMissLate` is a read whose ENOENT is
delivered after later operations have run). `Environment` is what the outside
does to the directory, `Crash` what may happen at any time.

A file version stands for its content *and* its mtime: it is a record of a
stamp, a text and whether it authenticates. So "the mtime recorded for a
memento" is a version too, and stale content is `of # mtime`. A vector is
identified with the version it embeds; two texts are duplicates when equal.
Chunk counts are kept, because updates drop chunk keys by counting.

`touched` is history: ids that somebody other than the running operation
changed since it listed the directory. Properties about an operation's result
excuse those ids and no others.

### MetaStore and RecencyFeed

Fields as in the code: `head`, `next`, `prev`, the two indexes as functions
whose domain is the set of keys with an entry. Startup, ingest and sync are
batches that set records one by one (`Load`) and re-sort at their end (`End`);
calls read between the records of a sync. Timestamps of loaded files are
arbitrary up to the clock plus `Skew`.

### Chunker, Searcher, Retriever, Retrieval

A text is a sequence of characters of six kinds (two letters, one of
them also as a capital, space, line feed, full stop), so that words, sentences and paragraphs are real
and `splitChunks` is the code's own control: split at blank lines, pack
sentences, flush before a long one, cut at the last space below the limit. The
trigram index is a value with slots, tombstones and posting lists; the inverted
index of the hybrid retriever likewise; top-k is the code's heap. Scores are
not computed: a chunk's BM25 score is any number, the distance of a chunk from
a query is a table of the instance, the nearest-neighbour search is exact.

`Retrieval` holds them all in one value `ram` and runs one read at a time
through its awaits (`Call`, embed, rank, load file by file) while writes,
updates, deletes, a sync and other devices go on. `overwritten` records
mementos updated over a version RAM had not seen.

### GitSync

A commit is the tree it leaves behind. `work`, `index` and the commits are
functions from paths to contents; a content says who wrote it. Each action is
one git command with the code up to the next await: `Add`, `Commit`,
`PushAccepted`, `PushFails`, `RetryPull`, `Undo` (put's answer to a conflict on
its path), `Rollback` (`git revert HEAD`), `SyncPull`, `Reconcile`, `Recover`,
`CommitLeft`. The commands behave as git does on whole binary files: `Replayed`
and `Clash` are a rebase and its conflicts, `Pulled` a pull with autostash. The
tree after the k-th local commit is `Rebased(k)`, a commit that leaves nothing to
change disappears (`Kept`). The other devices are `PeerPush`; `refuses` is a
remote that accepts no push. Two fields of `op` are history: `head`, the last
commit when the operation began, and `made`, whether the last local commit is
still the one the operation made.

### Daemon

Every process has its own stage: `dpc` for daemons (the order of
`runner.ts`), `cpc` for commands. `Signal` is SIGTERM at whatever stage the
daemon is in; only a serving one has a handler, which `InstallHandlers` installs
after "ready" was written (`announced`), and a daemon that has deleted its state
file has yet to exit (`leaving`). `Killed` is anything that ends
or signals a process from outside. `Again` lets a client whose command ended
issue another. `displaced` is history: the live daemons
whose entry in the state or token file another process replaced or removed.

### Migration

One `migrate` command at a time; `pc` is where it is. A file is identified with
how it is written: the key it is encrypted under and the embedder (told apart
by dimension, as the code does) of its vectors. A directory is a function from
file names to such forms. Each action is the code between two points where a
kill makes a difference: `WriteFence`, `Guard` and `Prompt` are
`withMigrationFence` up to the last prompt; `Declare`, `Stage`,
`MarkCommitting`, `BackUp`, `Apply`, `Finalise`, `Unfence`, `CleanUp` are
`runStagedMigration`; `CopyStart`, `Copy` and `Swap` are `doStorageCopy`; `Resume` and
`AbortProbe` ... `Aborted` are the two ways out of a pending manifest. `Kill`
ends the command anywhere, and leaves a truncated manifest if it was writing
one; `Throw` is a failing step, with the clean-up `finally` does, and, where a
write of `putBatch` fails, that of `putBatch`.
`DaemonUp` stands for the state file written and the key read. A daemon counts as
visible from then on, while it loads and when it is ready; the guard refuses both.

### Setup

A memento is reduced to its key and the embedder of its vectors. Every machine
has a configuration, a keychain entry, a fallback file and an environment key;
`up` says whether its keychain answers. One command at a time per machine, in
the stages of `init.ts` and `destroy.ts` (`cmd[m].at`), so that two machines or
a daemon come between any two steps; `restore` is one step, refused with the
fence left behind where a daemon runs. A `vault.json` may be unreadable in a
directory (`init` then takes it for absent), and to a machine that joins; in a
clone that was just pulled `init` is taken to read it. `MayPass` is `doctor`: the conjunction of
its checks, over any order of the listing. Daemons start whenever the code lets
them (`StartDaemon`), and keychains fail and come back whenever somebody is about
to ask them (`Asked`; at other times it makes no difference): neither is
bounded.

### KeyTransfer

Each run of a command is one process with one key pair. Messages lie in
`inbox` in the order they were written; a connection that breaks loses what was
not read. One action per message handled and per answer of a user (`Greet`,
`PeerSaid`, `SendSecret`, ...); a refusal, an interruption or a break may come
at any stage. A second receiver may connect and is never taken. Commitments,
codes and ciphertexts are records of the keys they were made from; users are
careful: they say "match" only to equal codes.

### Integrations

A command is a list of surfaces still to change (`proc[p].todo`), each one
either a call of the client's own program, a directory (a skill, or the plugin
with its manifest and skill) written or removed in one step that may fail, or a JSON file
rewritten in four steps: read, create `.tmp`, fill it, rename it over the file
(`ReadFile`, `OpenTmp`, `FillTmp`, `Rename`). The descriptor `fd` follows the
inode: if another command renames the `.tmp` meanwhile, the rest is written into
the client's live file. `EditFile` and `CliChanges` are the client and the user.

## Runs

All constants and bounds are in the `.cfg` files.

| Run | Checks | Instance |
|---|---|---|
| `vault_write` | `CacheSound`, `NoDuplicateWrite`, `MirrorsDisk` | 2 mementos, 2 calls among write, delete, read, sync, flush; files come and go, during startup too; crashes |
| `vault_batch` | `IngestComplete`, `BatchUndone`, `Lockstep` | 2 mementos, ingest, update, sync, read; failing writes, late misses, files that come and go once the vault is ready |
| `vault_live` | `RegisteredIsIndexed`, `NoSilentStaleness`, `EveryCallReturns` | 1 memento, update, sync, read; edits, corruptions, removals, restores |
| `vault_stale` | `NoSilentStaleness`, violated | 1 memento, an edit during a cold startup; see Finding |
| `retrieval_main` | `TrigramIsScan`, `PostingsInverse`, `ChunksFit`, `ListingComplete`, `RecallFull` | 3 mementos of 1, 2 and 4 chunks of at most 5 characters, an over-fetch of 2, 2 changes after the first texts, one read in flight |
| `meta_main` | `IndexesExact`, `FilterExact`, `KeepsFeed` | 3 records, 2 tags, 1 chronicle, 3 instants |
| `git_main` | `AckedIsPushed`, `PeersKept`, `FailedIsUndone`, `OperationEnds`, `Converges` | 2 files of which 1 may exist, 2 own changes, 2 of a peer, 2 faults, 1 crash (2 of the latter three together), 2 push attempts |
| `daemon_main` | `Reachable`, `StoppedMeansGone`, `SpawnerReturns` | 2 daemons, 2 clients that issue any commands one after another, kills |
| `migrate_main` | `UnfencedMeansReadable`, `Recoverable`, `FenceHolds` | 2 mementos, 2 keys, 2 embedders, 2 places, all three types, a daemon; any number of migrations one after another |
| `setup_main` | `TypeOK`, `OneKey`, `OneSpace`, `NoGhost`, `DoctorIsRight` | 2 machines, a directory and a git remote, 2 embedders, 2 keys, 3 commands |
| `transfer_main` | `SecretNeedsBoth`, `NobodyAccused`, `SessionEnds`, `Delivered` | 2 senders, 2 receivers, 2 attempts where the instance says, 1 broken connection |
| `integr_main` | `UsersKept`, `Whole`, `Clean` | 5 machines with one or two of 6 clients, 2 commands at once, 1 edit, kills |

**Bounds.** Two calls at once are enough to put any operation between any two
awaits of another; two mementos are enough for batches, one suffices where the
property is per memento; two texts, one chunk and two chunks long, give every
change of the number of chunks. `MaxClock` bounds file writes from inside and
outside together. Three records are the least for which unlinking from the
middle of the list differs from unlinking at an end; two tags and the filters
over all their subsets cover every branch of `idsMatchingFilter`. Two daemons
are the least that race or succeed one another; two clients that issue command
after command allow a start against a stop and a call against either. Two
mementos are the least of which one can be migrated and the other not; two
values of each setting are the least to change between, and a second migration
back to the first value is included. Two paths let a commit carry a file that
is not its own and a peer's change meet the same or another file; two own
changes let one operation run over what another left; two changes of a peer let
it come back to an older content; two attempts reach both "retry" and "last
attempt". The safety properties of `git_main` were also checked, once and
without liveness, with three own changes, two of a peer, a fault and a crash
(three of the latter three together; 5.0 million states), and with three own
changes and three of a peer (3.8 million). Two machines, two keys and three commands put one
machine's commands before, between and after another's; that more commands add
nothing is proved, not checked. The chunk limit of 5 characters exceeds a word
of the instance and is exceeded by two; the initial texts of `retrieval_main`
are all concatenations of at most four of seven pieces. Four chunks of one memento
are as many as a recall of two mementos fetches, which is where `RecallFull` needs
its exception: without it TLC finds a recall that returns one memento of two.
`ChunksFit` looks at
every text of the instance; the same property was checked separately over all
97,655 texts of up to 7 characters with a limit of 3.

`Lockstep` is checked without outside edits (files only come and go), because
an update after an unseen edit breaks it: `updateMemento`
(`core/vault/index.ts:844`) drops the chunk keys of the version it read from
disk, and if RAM holds an older one with more chunks, their surplus stays in
the index, which startup is careful to avoid (`core/vault/index.ts:195`). With
edits the weaker `RegisteredIsIndexed` holds (`vault_live`). `NoSilentStaleness`
holds without changes during a cold startup (`vault_live`) and not with them
(`vault_stale`). `FilterExact` is checked outside batches: between the records
of a sync the list is unsorted and a range filter misses mementos behind an
older one.

**Deadlock** is checked in the vault and metadata runs. It is switched off where
the system may stop: process ids of daemons, runs, commands, edits and writes
are bounded; when the last daemon is dead a client that waits for one without a
budget stays there; a truncated migration manifest stops everything until
somebody removes it.

### Fairness

* `Vault`: weak fairness of `Step(t)` for each call: the event loop runs every
  continuation whose promise has settled, and file operations settle. Callers,
  crashes and the outside owe nothing. A call that finds the lock taken may be
  refused or wait; both are steps of `Step(t)`.
* `Daemon`: weak fairness of each process's own steps: the operating system
  schedules it, `vault.startup` and `vault.close` settle. Nobody has to issue
  a command; nothing has to be killed.
* `GitSync`: weak fairness of the operation at work (each git command ends,
  well or not), of starting the process again, and of calling `sync`, which the
  daemon does on reads. Faults, crashes and peers are bounded, so `Converges`
  speaks of what happens once they are over.
* `KeyTransfer`: weak fairness of each process's handling of what it has
  received, or noticed, and of an answer of a user who was asked. Nobody
  has to start a command, and there is no keepalive: a session nobody joined
  may wait for ever.
* `Migration`, `Setup`, `Integrations`, `Retrieval`, `MetaStore`: none. A user
  may leave a migration or a prompt pending for ever.

## Proofs

All theorems are for arbitrary constants under the named assumptions of the
modules (`SizeAssumption`, `NoneAssumption`, `VaultAssumption`, `MetaAssumption`,
`StoreAssumption`, `RecordAssumption`, `DaemonAssumption`,
`StateFileAssumption`, `MigrationAssumption`, `SetupAssumption`,
`TransferAssumption`, `NoneIsNone`, `CharLimitAssumption`, `LimitsAssumption`,
`LegAssumption`, `IdsAssumption`, `TextAssumption`, `DistanceAssumption`,
`BoundsAssumption`): sizes are positive,
limits are numbers, absence is no value, texts are sequences of the characters
the chunker tells apart, sets of operations are subsets of the known ones.

* **`VaultProofs`.** `TypeCorrect`, `NoDuplicateWriteHolds`, `BatchUndoneHolds`.
  `TypeOK` is not inductive: that the file written by `WritePut` is a version
  rests on the text being one, which rests on the holder of the lock being in
  a stage of the operation it was called for. The invariant adds `CallInv`
  (arguments fit the operation), `HolderInv` (the holder waits for what its
  stage belongs to, and the vault is ready) and `ReadyInv` (no call before
  startup is over). The two other theorems follow from mutual exclusion: while
  the holder is between check and registration everything else either leaves
  the index alone or removes labels (`Shrinks`), and only the environment
  changes files, which it records in `touched`. For `BatchUndone` the invariant
(`BatchInv`) says that until a batch ends every file nobody else touched is what
the batch wrote there, or else what its check found, that what it is to create was
not there, and that RAM knows none of it; a batch of which every file was written
cannot end without changing RAM (`SettledRegisters`). The bookkeeping of the index is
  typed once, by the lemmas at the top.
* **`VaultProofs`, second half.** `RegisteredIsIndexedHolds`, `LockstepHolds`,
  `IngestCompleteHolds`, `CacheSoundHolds`, `NoSilentStalenessHolds`,
  `MirrorsDiskHolds`, each under a condition that its statement names.
  The first three need nothing of a vault that never saves the index cache
  (`"flush" \notin Ops`), save that `LockstepHolds` needs that nobody edits a
  file underneath the vault, for the reason given above under bounds. With a
  cache they need, and `CacheSoundHolds` always does, that no file is edited or
  put back with its old mtime, none is damaged during startup, and no failed
  read is delivered late (`Calm`); files may come, go and be damaged, and any
  step may be the last before a crash. Each part of that condition is needed:
  TLC finds `CacheSound` violated when any one of the four is given up.
  The invariant (`JInv`) says that what RAM knows is indexed (`Right`), that
  what is indexed RAM knows (`Clean`, except while a warm startup has yet to load
  it), that every label has a name (`Named`), what the holder of the lock
  remembers of RAM (`HoldInv`) and that a file never carries another text than
  RAM registered unless its writer is about to register it (`TextInv`);
  `IngestInv` says what a running ingest has not forgotten. For the cache: a set
  of entries is `Live` while every file is as it says, and no set of entries comes
  back to life once a file has changed, since every write has a newer mtime
  (`Past`, `Moves`). So it is enough that a cache, or what a flush has collected
  so far and what RAM still holds of the rest, has the right labels *while its
  entries are live* (`CacheInv`, `FlushInv`): a read that drops a memento in the
  middle of a flush has found a file gone, and the entries are dead. A warm
  startup begins with exactly the index of the listed files (`WarmInv`).
  `NoSilentStalenessHolds` and `MirrorsDiskHolds` hold with or without a cache,
  whatever the outside does once the vault runs, if no file is replaced (edited
  or damaged) during startup, when files may still come, go and come back; the
  finding `vault_stale` is why the condition is there. The invariant (`StaleInv`)
  says that a recorded mtime is that of the recorded content or of a version
  gone for good (`Dead`): no file will ever have it again, so the next sync sees
  a difference. A sync that is half done is described by what it has passed
  (`SyncSees`), a startup by `LoadSees`.
* **`MetaStoreProofs`.** `LinksMatchHolds`, `IndexesExactHolds`,
  `NewestFirstHolds`, `FilterExactHolds`, `FeedImplemented`. That the links
  mirror each other is not inductive: a list with a detached cycle satisfies it
  and `unlink` breaks it. The invariant says there is a *sequence* of the stored
  records that the links spell out from `head` to the end (`LinkInv`); every
  operation exhibits the new sequence. Outside batches the sequence is in the
  order of `updated_at`, hence newest-first, and it is the sequence the
  abstract feed promises, so every step of the store is a step of `RecencyFeed`
  or a stutter: `FeedImplemented` is the refinement, for any clocks.
  `NewestFirstHolds` and `FilterExactHolds` are for `Skew = 0`: with
  clocks that differ a local write may be linked before a record with a later
  stamp, behind which a range filter stops looking. What walking the list
  returns is found by a least counterexample on the positions (`LeastNatural`).
* **`GitSyncProofs`.** `TypeHolds`, `AckedIsPushedHolds`, `FailedIsUndoneHolds`,
  `PeersKeptHolds`.
  An acknowledged content is on the remote because the content of a write is
  always somewhere: in the file before `git add`, in the index before the
  commit, then in a local commit or on the remote (`Carried`). The step that
  matters is the rebase (`PulledStored`): the first local commit that has the
  content, if the remote does not have it, changes the file, so the rebased tree
  at its place has the content, and a tree of the rebase is the remote's tip or
  that of a commit that is kept (`RebasedIsThere`). For `FailedIsUndone` the
  invariant (`FInv`) says what the revert will take back: outside the windows
  the last local commit is the operation's own and changes exactly its files,
  from what the last commit before the operation had or what the remote has
  (`OwnCommit`), or a rebase has dropped it and the operation knows (`op.made`);
  that no content is in a tree before it is written (`AllWritten`), so a rebase
  that keeps the commit keeps the change of each of its files unless its push
  went through and only the answer was lost (`AllLanded`); and that what else was written here and
  not pushed is still in its file (`Untouched`), which a pull moves only where a
  local commit carries it (`PulledUntouched`). Facts about the k-th commit of a
  rebase are shown by a least counterexample (`RebasedIsReplayed`, `Unchanged`),
  and the commits that are kept are counted (`UptoNext`, `NthIs`, `NthCovers`).
  `PeersKept` needs the lineage of every file (`PInv`, in the module's second
  half). Outside the windows a file is in one of three states (`Good`). *Tidy*:
  the index follows the last commit and the file follows the index, each step
  asked for by somebody here, and so is every change of a commit that has not
  landed (`Chain`, `Lines`; the commit of a pending file may instead take the
  remote's content, as the file's first change). *Pending*: the file moved on the
  remote and not in a commit here, and the index holds what the last commit has,
  or what `put` took from the remote when it undid its commit and left for the
  next one. *Lost*: it was changed differently on both sides, so no pull succeeds.
  As long as the remote has something these commits do not contain, it moves
  nothing here (`LandedGrown`); when it has nothing of the kind, pending and lost
  are impossible and every commit is as it was asked for (`NothingLater`), and
  only then is a push accepted (`StepAsked`). A pull that succeeds leaves every
  file tidy over its whole length (`PulledSettles`), one that throws names a file
  that is lost to the commit it fetched (`ThrownClash`), and a rebase that drops
  the commit of a write drops all of them, the push having gone through
  (`PulledDrops`). `Known` says which of this each operation may rely on.
* **`DaemonKeyTransferProofs`, first half.** `DaemonTypeCorrect`,
  `ReachableHolds`, `StoppedMeansGoneHolds`, `WinnerWritesHolds`. The invariant says who holds the port (`PortInv`), what
  the two files hold while a daemon that was not displaced is in each stage
  (`FilesInv`), and what a stopping command may assume of its target
  (`StopInv`). Replacing a file either concerns the writer itself or displaces
  the process it named (`PutStateDisplaces`).
* **`MigrationProofs`.** `TypeCorrect`, `FenceHoldsAlways`,
  `UnfencedMeansReadableAlways`, `RecoverableAlways`. Typing needs to know
  what the command has at hand at each stage (`StageInv`: a plan with its
  target, a staging directory, a backup) and what the manifest says meanwhile
  (`FenceInv`). The fence holds because of a stronger fact (`NoDaemonInv`):
  while a migration is declared or at work there is not even a daemon on its
  way up. It would enter by `DaemonBuilds`, which needs the manifest gone, and
  `FenceInv` says the manifest is there.
  `UnfencedMeansReadableAlways` and `RecoverableAlways`, in the module's second
  half, speak of one moment, and hold because of what any
  command leaves behind wherever it is cut off. The invariant (`Good`) says
  when the vault is readable although a manifest is there (`Settled`), that a
  target of a move holds only copies (`CopyInv`), and that a half-applied
  change of key or embedder has in the staging directory all it needs to go on
  and in the backup all it needs to go back (`Halfway`): some key `k` exists,
  no longer remembered by anybody, such that every staged file is in the form
  `Target(k)` and every file of the vault in the old form or in that one.
  `PlanInv` ties the plan of a running command to the manifest; without
  it a resume could go on with another plan. `Good` is claimed only while none
  of the three windows was hit; after a move was cut off what is left is a place
  with the whole vault nobody writes to (`Spare`).
* **`DaemonKeyTransferProofs`, second half.** `TypeCorrect`, `SecretNeedsBothHolds`,
  `RightSecretHolds`, `NobodyAccusedHolds`. None of them is inductive, because
  messages in flight speak for processes that may be gone: the invariant says
  whose socket leads where and that a sender serves a run that has been started
  (`LineInv`), what each message in an inbox was made from (`InboxInv`), what a
  device knows of its partner at each stage (`KnownInv`), and that a receiver
  whose user confirmed is connected to the device that user meant
  (`MeantInv`).
* **`SetupProofs`.** `TypeCorrect`, `OneKeyHolds`, `OneSpaceHolds`,
  `NoGhostHolds`, `DoctorIsRightHolds`. The invariant says what a command holds
  at each stage and what it has seen to be true (`CmdInv`), that a machine at
  work has no daemon unless one slipped in (`GhostInv`), where the key a machine
  used last lies and that the fallback file does not hold another
  (`KeyringInv`), that the embedder of every memento and every daemon is the
  one `vault.json` names (`SpaceInv`), and that the mementos of a place, its
  daemons, and every machine configured for it agree on one key (`KeyInv`).
  `OneKey` alone is lost at the first write of a daemon whose key another
  machine never tested; hence the clause on every machine.
* **`IntegrationsProofs`.** `InvariantHolds`, `UsersKeptHolds`, `WholeHolds`,
  `CleanHolds`. The properties excuse named windows (two commands in one file,
  a write overtaken by the client or the user, a mixed hook group); the
  invariant says why nothing else goes wrong. Outside `shared` a file is
  rewritten by one command at a time, the descriptor leads to the `.tmp`, and
  a file filled is the file meant (`WriteInv`). Outside `overtaken` too, what a
  command holds is what it would compute from the file as it is now
  (`HeldInv`), so the rename loses nothing of the user's (`KeptInv`). For
  `Clean`: something of ours is only where an uninstall looks for it
  (`PlacesInv`); before the step that calls a client uninstalled come only steps
  that take from it (`GoneInv`), and they take all there is left (`CleanInv`).
  The three are for any number of machines, clients on them, commands
  and edits; they need that no item of the user is named like one of ours.
* **`RetrievalProofs`.** `IInvHolds`, `PostingsCorrect` (`PostingsInverse`),
  `SearchCorrect` (`TrigramIsScan`), `SizesCorrect`, for any set of mementos, any
  texts, any chunk size and any limits of a search. None of these properties is
  inductive: that a word leads to exactly its chunks rests on what the retriever
  remembers of each chunk's terms when it takes the chunk out, and that the
  trigram search misses nothing on the order of the posting lists it walks. The
  invariant (`IInv`) says that the inverted index is the inverse of what the
  vector index holds (`Inverted`: every list names a document once, with its
  count, no list is empty, the remembered terms are the chunk's words, and the
  total length is the number of words), that every slot of the trigram
  index that is in use leads back to its memento and each trigram of its text
  lists that slot, in ascending lists (`Searchable`), that the two searchers hold
  the same texts, of the mementos RAM knows, and that the chunks indexed are those of
  known versions or of a memento updated over an unseen one (`Agrees`). Cutting a text is shown
  to give non-empty chunks within the limit whatever branch cuts it
  (`SizesCorrect`: splitting at blank lines, packing sentences, cutting long
  ones). That the candidates contain every match goes by cases: a match
  has every trigram of the query, so its slot is in every list, and walking two
  ascending lists side by side keeps what they share; the snippets are the same
  because a memento without a match adds nothing to what is collected.
  `ListingCorrect` (`ListingComplete`) has an invariant of its own (`LInv`): the
  times at which mementos were written are disjoint sets and RAM says of each one of its own
  (`Provenance`: without it two could be equally new, and the newest not be
  defined), and a read under way has picked `Least(k, allowed)` different
  mementos, each still to be read, found, or among those it was told are gone (`Asking`).
  It rests on what `topK` returns (`TopKIs`: the heap is a permutation of what
  it was offered and not dropped, sifting up and down restores its order in as
  many turns as there are places, and draining it gives each entry once), and on
  what a query can find (`RankIs`: through both legs, the fusion, the
  threshold and the collapse, only mementos that may be found, each once).

Only model-checked: liveness (`EveryCallReturns`, `SpawnerReturns`,
`OperationEnds`, `Converges`, `SessionEnds`, `Delivered`), which is out of the
prover's reach; the part of `ChunksFit` about words; and `RecallFull`, which
compares what the two legs fetch with what is relevant. The exception it names is
real: the chunks of a long memento can take every place of a leg (see below).

The provers cannot instantiate the library's induction principles. Where a
proof needs one for a fact about positions of a sequence, it takes the least
counterexample of a *set* of naturals (`WFMin` with
`NatLessThanWellFounded`), which needs no operator parameter. In
`RetrievalProofs` that is done once for loops (`Fold`, `Turns`: a fold over `n`
items goes through `n + 1` values, each got from the last) and once for
recursive walks (`Chain`); the functions that TLA+'s recursive definitions
choose are shown to exist there, and the proofs about a fold go along its values.

## Finding

`vault_stale`. A cold startup reads a file and stats it afterwards: a file
replaced in between is kept with old content and new mtime, no later sync
reloads it, and the cache persists it.

## Behaviour the models contain and no property forbids

*Vault.* The etag check and the write of an update are two file operations: an
edit that lands between them is lost, as `storage/_utils/check-if-match.ts:9-14`
says, and no property is about it, since an edit that landed before is refused by
the check itself. `serialize()` saves graph and names
on two sides of an await (`vector/hnsw/index.ts:232`); a read that drops a
memento in between leaves a saved label without a name. The file it missed
makes the entries unusable, unless a sync client puts it back with its old
mtime, or the miss was delivered late and the file is there again: then a
startup accepts the cache. So it does after an update of a file edited outside
since RAM last read it (the chunks removed are those of the text read, not those
RAM has), or where a file was damaged while a cold startup was between its read
and its stat (`CacheSoundHolds` names the four conditions). A failed ingest leaves
overwritten a file RAM did not know, so that "a throw leaves disk and RAM both at
'nothing written'" holds of the files it created only (`storage/local/index.ts:64-66`
says as much; `BatchUndone` makes that exception). A failed save of the cache still clears the
dirty flag.

*Retrieval.* Chunks are trimmed and joined by line feeds, so that a search for
text that spans a chunk boundary may find nothing, against the comment at
`core/vault/index.ts:488`. A recall may return less than asked when a memento
has more chunks than the over-fetch multiple. A sentence over the limit whose
words are separated by single line feeds is cut inside a word
(`chunker.ts:80-91` looks for spaces; the comment at `:41` says only a giant
token is cut). An update over an unseen edit with fewer chunks leaves ghost keys
in index and retriever (`overwritten`), which may cost a recall a place. The
filter of a recall is evaluated before its query is embedded, so a result may
carry tags that no longer match.

*Git storage* (windows `unmerged`, `passed`, `swept`, `foreign`, `shouted`). A
rebase and a stash compare ends only: if another device deletes a file and
creates it again as it was, or the other way round, between two pulls, a change
made here over the first version is applied as if nothing had happened
(`passed`). A file of which `put` took the remote's version stays staged; when
another device deletes it and the pull restages it, it is new and staged, which
none of the three lists `sync` looks at names (`Unlisted`): it is never committed,
although "sync" means that the two agree (`storage/git/index.ts:490`). The revert
after a failed push restores the last commit, not what the file held: an edit a
failed batch had left, or a version taken from the remote without a commit, is
gone. After a put
that met a conflict another staged file may be swept into the next commit. When
the rebase dropped the commit as already applied, the revert takes back a
commit of the other device. A commit and its revert stay in the history and
conflict again at each pull, where the comment at `storage/git/index.ts:703`
promises recovery on the next sync. An autostash that does not apply leaves
unmerged files and a pull that "succeeded". An untracked file in the way blocks
every pull. The orphans a sync commits are reverted when its push fails. Startup
recovery commits a new file that was already staged without pushing it. A batch
of which one file cannot be written leaves the others on disk.

*Daemon.* One in shutdown frees the port first and deletes token and state by
name last, so a successor may lose them, although `runner.ts` lets `ready` imply
the token (`displaced`). `stop` on an unreadable state deletes whatever state
file is there by then. Of two clients that spawn at once the loser may report
"failed to start" although the winner is about to serve. A client that waits
without a budget for a daemon somebody else spawned waits for ever if that
dies (`daemon.ts:222`).

*Migration* (windows `late`, `abortCut`, `swapCut`). Guard and fence do not stop
a daemon that looked for the manifest before it was written and becomes visible
after the guard has looked. An abort in phase `committing` that is killed while
it removes the staging directory, followed by a resume, applies what is left of
the directory, possibly nothing, switches the key and removes the manifest. A
storage migration cut off between the new configuration and the end of the
manifest is undone by an abort that removes the vault in use. Guards and prompts
that refuse with `process.exit` skip the `finally` and leave the fence behind,
which only "a forced kill" should. A truncated manifest stops `--abort` as well,
which the comment in `readManifest` recommends for it. An abort after the key
was switched keeps the new key and discards the backup.

*Setup* (windows `adopted`, `unprobed`, `restored`, `switched`, `shadowed`,
`raced`, `slipped`). `init` adopts a vault on the storage without testing its
key; only joining tests it, and not when the vault is empty. A restore puts back
files under whatever key the backup was taken, over what is there or into an
empty place. Reinit with another key leaves other machines behind. A key stored
while the keychain works is shadowed by an old fallback file as soon as it does
not (`keys/keychain/index.ts:171`). Two machines that set up one directory at
once both write `vault.json`, and `init` overwrites one it cannot read
(`init.ts:286`, `raced`). A `restore` that finds a daemon exits behind its own
fence, which keeps the next daemon from starting until `migrate --abort`. A daemon may start between the guard and the
fence. `doctor` decrypts one memento and concludes on all. The advice after a
wrong key in a join ("run destroy first", `init.ts:666`) is refused by `destroy`
without a configuration.

*Key transfer.* Only the first connection of a session is served; a second
receiver waits until the sender goes, and keeps the sender's process alive.

*Integrations* (windows `overtaken`, `shared`, `contested`, `mixed`, `deaf`,
`cut`). Every writer uses the same `.tmp` name; a change between read and rename
is lost; a hook of the user in a group with one of ours goes with it; a client
program that fails is taken for "not registered", after which `destroy` leaves
hooks and skills although the README promises their removal (`README.md:105`).

## Not modelled

* **Vault**: the 120 s takeover of a stale lock and `VaultBusyError`'s retry
  budget (any wait may end busy); the `_index` memento; `close()` (a crash after
  a flush).
* **Retrieval**: BM25's formula, regular expressions (RE2 is not in the
  repository), the approximation of HNSW.
* **Git storage**: its `migrate()`, cloning, SSH setup, a crash inside one git
  command, edits of the user in the clone.
* **Daemon**: recycled process ids; a token file read while it is written.
* **Migration**: two commands at once (the fence of one is removed by the
  other's end), files that arrive from other devices meanwhile, a git backend, a
  key provider that cannot store, the index cache dropped with the embedder.
* **Setup**: the steps of `restore` behind its fence and of a migration of the
  key (see *Migration*); downloads, plugin installation, the creation of remotes; the words
  and derivation of a key.
* **Vault cryptography** is the verdict "authenticates or not"; **embedders**
  are equal or different vectors; **ingestors** convert foreign files without
  state of their own; **runtime commands**, **CLI and tools** are one call of a
  modelled operation each, with parsing and printing around it.

## Possible extensions

The `_index` memento on two devices; two `migrate` commands at once;
`Vault` over `GitSync` instead of local files.
