----------------------------- MODULE Migration ------------------------------
(***************************************************************************)
(* `mementos migrate` (cli/commands/migrate.ts): a change of the vault key, *)
(* of the embedder, or of the place of the vault, staged so that it can be  *)
(* resumed or aborted after the process died between any two steps.         *)
(*                                                                          *)
(* While the manifest exists no daemon may start, and no migration starts   *)
(* while a daemon runs; the two sides check each other at different times.  *)
(* One `migrate` command runs at a time.  Each action is the code between   *)
(* two steps a crash can separate: one file renamed into place, one         *)
(* directory renamed or unlinked entry by entry, one manifest written.      *)
(***************************************************************************)
EXTENDS FiniteSets

CONSTANTS
    Ids,            \* mementos of the vault
    Json,           \* vault.json, which names the embedder of a vault
    Keys, Dims,     \* vault keys; embedders, told apart by their dimension
    Places,         \* where a vault can be
    Types,          \* migrations in this instance
    Daemons,        \* does a daemon come and go?
    None

ASSUME MigrationAssumption ==
    /\ Json \notin Ids
    /\ Types \subseteq {"key", "embedder", "storage"}
    /\ Daemons \in BOOLEAN

Items   == Ids \cup {Json}
Form    == [key : Keys, dim : Dims]      \* how a .mem file is written
Slot(f) == IF f = Json THEN Dims ELSE Form

(* Directories: a file holds what its name promises, or is missing.         *)
Directory == {d \in [Items -> Form \cup Dims \cup {None}] :
                 \A f \in Items : d[f] \in Slot(f) \cup {None}}
Empty     == [f \in Items |-> None]

(* The manifests of a declared migration; a key is never written to one.    *)
Phases    == {"staging", "committing"}
Manifests == [type : {"key"}, phase : Phases, to : {None}]
               \cup [type : {"embedder"}, phase : Phases, to : Dims]
               \cup [type : {"storage"}, phase : {"staging"}, to : Places]
Plans     == [type : {"key"}, phase : Phases, to : Keys] \cup Manifests

NoPlan    == [type |-> "none", phase |-> "none", to |-> None]
Preflight == [type |-> "preflight", phase |-> "none", to |-> None]
Torn      == [type |-> "torn", phase |-> "none", to |-> None]

ASSUME NoneAssumption ==
    /\ None \notin Form \cup Dims \cup Keys \cup Places \cup Manifests \cup {Preflight, Torn}
    /\ None \notin Directory

VARIABLES
    manifest,   \* migration-pending.json, or None
    config,     \* machine config: the place of the vault
    keychain,   \* the stored key
    dir,        \* the files at each place
    staging,    \* the staging directory, or None
    backup,     \* the backup of this migration, or None
    pc,         \* where the migrate command is
    plan,       \* what it migrates: [type, phase, to]
    todo,       \* files still to copy or remove
    made,       \* files its batch created at the target
    daemon,     \* "off", "built" (not visible yet) or "up"
    held,       \* key, dimension and place the daemon works with
    mishaps     \* history: windows that were hit, see Properties

vault   == <<config, keychain, dir>>
copies  == <<staging, backup>>
command == <<pc, plan, todo, made>>
server  == <<daemon, held>>
vars    == <<manifest, vault, copies, command, server, mishaps>>

Live       == dir[config]
Goto(s)    == pc' = s
Done       == pc' = "idle" /\ plan' = NoPlan /\ todo' = {} /\ made' = {}
Mems(d)    == {f \in Ids : d[f] # None}
Held(d)    == {f \in Items : d[f] # None}
Visible    == daemon = "up"
At(s)      == pc = s

(* The manifest of a plan holds no key.                                     *)
Manifest(p) == [p EXCEPT !.to = IF p.type = "key" THEN None ELSE @]

(***************************************************************************)
(* runMigrate, fresh: the fence, the guards, the prompts.                   *)
(***************************************************************************)

Migrate ==
    /\ At("idle") /\ manifest = None
    /\ Goto("fence")
    /\ UNCHANGED <<manifest, vault, copies, plan, todo, made, server, mishaps>>

WriteFence ==
    /\ At("fence")
    /\ manifest' = Preflight
    /\ Goto("guard")
    /\ UNCHANGED <<vault, copies, plan, todo, made, server, mishaps>>

(* assertNoServerRunning, which sees daemons that have published themselves. *)
NoServer ==
    /\ ~Visible
    /\ mishaps' = mishaps \cup (IF daemon = "built" THEN {"late"} ELSE {})

(* It refuses, like assertKeyReachable, with process.exit, which no         *)
(* `finally` sees.                                                          *)
Guard ==
    /\ At("guard")
    /\ \/ NoServer /\ Goto("prompt") /\ UNCHANGED <<plan, todo, made>>
       \/ Done /\ UNCHANGED mishaps
    /\ UNCHANGED <<manifest, vault, copies, server>>

Targets(type) ==
    CASE type = "key"      -> Keys
      [] type = "embedder" -> Dims \ {Live[Json]}
      [] type = "storage"  -> {p \in Places \ {config} : dir[p] = Empty}

(* The user names type and target; paths derive from a new startedAt.  What *)
(* cannot be a target is refused, by process.exit again.                    *)
Prompt ==
    /\ At("prompt")
    /\ \/ /\ \E type \in Types : \E to \in Targets(type) :
                plan' = [type |-> type, phase |-> "staging", to |-> to]
          /\ staging' = None /\ backup' = None
          /\ Goto("declare") /\ UNCHANGED <<todo, made>>
       \/ Done /\ UNCHANGED copies
    /\ UNCHANGED <<manifest, vault, server, mishaps>>

(***************************************************************************)
(* runStagedMigration                                                       *)
(***************************************************************************)

Declare ==
    /\ At("declare")
    /\ manifest' = Manifest(plan)
    /\ IF plan.type = "storage"
         THEN Goto("copyStart") /\ UNCHANGED staging
         ELSE /\ Goto("stage")
              /\ staging' = IF staging = None THEN Empty ELSE staging
    /\ UNCHANGED <<vault, backup, plan, todo, made, server, mishaps>>

(* keyStageTransform, embedderStageTransform; both need the current key.    *)
Transform(form) ==
    IF plan.type = "key" THEN [form EXCEPT !.key = plan.to] ELSE [form EXCEPT !.dim = plan.to]

(* A file that is staged already is left alone.                             *)
Stage(f) ==
    /\ At("stage") /\ f \in Mems(Live) \ Mems(staging)
    /\ Live[f].key = keychain
    /\ staging' = [staging EXCEPT ![f] = Transform(Live[f])]
    /\ UNCHANGED <<manifest, vault, backup, command, server, mishaps>>

MarkCommitting ==
    /\ At("stage") /\ Mems(Live) \subseteq Mems(staging)
    /\ manifest' = Manifest([plan EXCEPT !.phase = "committing"])
    /\ Goto("backup")
    /\ UNCHANGED <<vault, copies, plan, todo, made, server, mishaps>>

(* Fault: a backup that exists is taken again.                              *)
BackUp_Again ==
    /\ At("backup")
    /\ staging # None
    /\ backup' = Live
    /\ todo' = Held(staging)
    /\ Goto("apply")
    /\ UNCHANGED <<manifest, vault, staging, plan, made, server, mishaps>>

(* backupVaultFiles: the first one stays, and needs vault.json.  Reading    *)
(* the staging directory for the batch fails if it is gone.                 *)
BackUp ==
    /\ At("backup")
    /\ backup' = IF backup = None /\ Live[Json] # None THEN Live ELSE backup
    /\ IF staging = None \/ backup' = None
         THEN Done
         ELSE Goto("apply") /\ todo' = Held(staging) /\ UNCHANGED <<plan, made>>
    /\ UNCHANGED <<manifest, vault, staging, server, mishaps>>

(* applyVaultFiles: a batch of writes in any order.                         *)
Apply(f) ==
    /\ At("apply") /\ f \in todo
    /\ dir' = [dir EXCEPT ![config][f] = staging[f]]
    /\ todo' = todo \ {f}
    /\ UNCHANGED <<manifest, config, keychain, copies, pc, plan, made, server, mishaps>>

(* storeEntropy; or vault.json, and the index cache dropped with it.        *)
Finalise ==
    /\ At("apply") /\ todo = {}
    /\ IF plan.type = "key"
         THEN keychain' = plan.to /\ UNCHANGED dir
         ELSE dir' = [dir EXCEPT ![config][Json] = plan.to] /\ UNCHANGED keychain
    /\ Goto("unfence")
    /\ UNCHANGED <<manifest, config, copies, plan, todo, made, server, mishaps>>

Unfence ==
    /\ At("unfence")
    /\ manifest' = None
    /\ IF plan.type = "storage" THEN Done ELSE Goto("cleanup") /\ UNCHANGED <<plan, todo, made>>
    /\ UNCHANGED <<vault, copies, server, mishaps>>

CleanUp ==
    /\ At("cleanup")
    /\ staging' = None
    /\ Done
    /\ UNCHANGED <<manifest, vault, backup, server, mishaps>>

(***************************************************************************)
(* doStorageCopy                                                            *)
(***************************************************************************)

(* A target with another vault.json is refused, by process.exit; a source   *)
(* without one cannot be read.                                              *)
CopyStart ==
    /\ At("copyStart")
    /\ IF Live[Json] = None \/ dir[plan.to][Json] \notin {None, Live[Json]}
         THEN Done
         ELSE /\ todo' = Held(Live) \ Held(dir[plan.to]) /\ made' = {}
              /\ Goto("copy") /\ UNCHANGED plan
    /\ UNCHANGED <<manifest, vault, copies, server, mishaps>>

Copy(f) ==
    /\ At("copy") /\ f \in todo
    /\ dir' = [dir EXCEPT ![plan.to][f] = Live[f]]
    /\ todo' = todo \ {f} /\ made' = made \cup {f}
    /\ UNCHANGED <<manifest, config, keychain, copies, pc, plan, server, mishaps>>

(* The probe has read the target; writeMachineConfig.                       *)
Swap ==
    /\ At("copy") /\ todo = {}
    /\ config' = plan.to
    /\ Goto("unfence")
    /\ UNCHANGED <<manifest, keychain, dir, copies, plan, todo, made, server, mishaps>>

(***************************************************************************)
(* Resume and abort.                                                        *)
(***************************************************************************)

Pending == manifest \notin {None, Torn}

(* runMigrate with a manifest, and `migrate --abort`.                       *)
MigrateAgain ==
    /\ At("idle") /\ Pending
    /\ NoServer
    /\ Goto("resume") \/ Goto("abort")
    /\ UNCHANGED <<manifest, vault, copies, plan, todo, made, server>>

DropPreflight ==
    /\ pc \in {"resume", "abort"} /\ manifest = Preflight
    /\ manifest' = None
    /\ Done
    /\ UNCHANGED <<vault, copies, server, mishaps>>

(* verifyKeyAgainstStaging: one staged file, if there is any.               *)
Matches(k) == staging = None \/ Mems(staging) = {} \/ \E f \in Mems(staging) : staging[f].key = k

(* The new key is entered again, the other targets are in the manifest.     *)
Resume ==
    /\ At("resume") /\ manifest.type \in {"key", "embedder", "storage"}
    /\ \E to \in IF manifest.type = "key" THEN Keys ELSE {manifest.to} :
          IF manifest.type = "key" /\ ~Matches(to)
            THEN Done
            ELSE /\ plan' = [manifest EXCEPT !.to = to]
                 /\ IF manifest.type = "storage" THEN Goto("copyStart")
                    ELSE IF manifest.phase = "staging" THEN Goto("declare") ELSE Goto("backup")
                 /\ UNCHANGED <<todo, made>>
    /\ UNCHANGED <<manifest, vault, copies, server, mishaps>>

DeclineResume ==
    /\ At("resume") /\ manifest # Preflight
    /\ Goto("abort")
    /\ UNCHANGED <<manifest, vault, copies, plan, todo, made, server, mishaps>>

(* The probes of abortStagedMigration.                                      *)
KeyFits == \A f \in Mems(Live) : Live[f].key = keychain
DimFits == \A f \in Mems(Live) : Live[f].dim = Live[Json]
Covers  == backup # None => Mems(backup) \subseteq Mems(Live)

(* The embedder's probe has to decrypt every file.                          *)
AbortProbe ==
    /\ At("abort") /\ manifest.type \in {"key", "embedder"}
    /\ manifest.type = "embedder" => KeyFits
    /\ LET consistent == (IF manifest.type = "key" THEN KeyFits ELSE DimFits) /\ Covers
       IN  \/ /\ consistent
              /\ Goto("removeStaging") /\ plan' = manifest /\ UNCHANGED <<todo, made>>
           \/ /\ ~consistent /\ backup # None
              /\ Goto("restore") /\ plan' = manifest /\ todo' = Held(backup) /\ UNCHANGED made
           \/ ~consistent /\ backup = None /\ Done
    /\ UNCHANGED <<manifest, vault, copies, server, mishaps>>

Restore(f) ==
    /\ At("restore") /\ f \in todo
    /\ dir' = [dir EXCEPT ![config][f] = backup[f]]
    /\ todo' = todo \ {f}
    /\ UNCHANGED <<manifest, config, keychain, copies, pc, plan, made, server, mishaps>>

Restored ==
    /\ At("restore") /\ todo = {}
    /\ Goto("removeStaging")
    /\ UNCHANGED <<manifest, vault, copies, plan, todo, made, server, mishaps>>

(* rm of a directory: entry by entry, the directory last.                   *)
RemoveStaged(f) ==
    /\ At("removeStaging") /\ staging # None /\ staging[f] # None
    /\ staging' = [staging EXCEPT ![f] = None]
    /\ UNCHANGED <<manifest, vault, backup, command, server, mishaps>>

RemoveStaging ==
    /\ At("removeStaging") /\ staging \in {None, Empty}
    /\ staging' = None
    /\ Goto("removeBackup")
    /\ UNCHANGED <<manifest, vault, backup, plan, todo, made, server, mishaps>>

RemoveBackedUp(f) ==
    /\ At("removeBackup") /\ backup # None /\ backup[f] # None
    /\ backup' = [backup EXCEPT ![f] = None]
    /\ UNCHANGED <<manifest, vault, staging, command, server, mishaps>>

RemoveBackup ==
    /\ At("removeBackup") /\ backup \in {None, Empty}
    /\ backup' = None
    /\ Goto("aborted")
    /\ UNCHANGED <<manifest, vault, staging, plan, todo, made, server, mishaps>>

AbortStorage ==
    /\ At("abort") /\ manifest.type = "storage"
    /\ plan' = manifest
    /\ Goto("removeTarget")
    /\ UNCHANGED <<manifest, vault, copies, todo, made, server, mishaps>>

RemoveTarget(f) ==
    /\ At("removeTarget") /\ dir[plan.to][f] # None
    /\ dir' = [dir EXCEPT ![plan.to][f] = None]
    /\ UNCHANGED <<manifest, config, keychain, copies, command, server, mishaps>>

TargetRemoved ==
    /\ At("removeTarget") /\ dir[plan.to] = Empty
    /\ Goto("aborted")
    /\ UNCHANGED <<manifest, vault, copies, plan, todo, made, server, mishaps>>

(* Fault: the manifest goes before the vault is restored.                   *)
Aborted_First ==
    /\ pc \in {"restore", "aborted"}
    /\ manifest' = None
    /\ Done
    /\ UNCHANGED <<vault, copies, server, mishaps>>

Aborted ==
    /\ At("aborted")
    /\ manifest' = None
    /\ Done
    /\ UNCHANGED <<vault, copies, server, mishaps>>

(***************************************************************************)
(* Failures.                                                                *)
(***************************************************************************)

(* Where a manifest is written, and where withMigrationFence still awaits.  *)
Writing == \/ pc \in {"fence", "declare"}
           \/ At("stage") /\ Mems(Live) \subseteq Mems(staging)
InFence == {"guard", "prompt", "declare"}

Windows ==
    (IF pc = "removeStaging" /\ plan.phase = "committing" THEN {"abortCut"} ELSE {})
      \cup (IF pc = "unfence" /\ plan.type = "storage" THEN {"swapCut"} ELSE {})

(* The process is killed; a manifest it was writing is left truncated.      *)
Kill ==
    /\ ~At("idle")
    /\ manifest' \in {manifest} \cup (IF Writing THEN {Torn} ELSE {})
    /\ Done
    /\ mishaps' = mishaps \cup Windows
    /\ UNCHANGED <<vault, copies, server>>

(* A step throws: Ctrl-C at a prompt, a full disk, a keychain that refuses. *)
(* `finally` removes the fence if nothing has replaced it; putBatch, if it  *)
(* is what throws, removes what it created.                                 *)
Throw ==
    /\ pc \notin {"idle", "fence"}
    /\ manifest' = IF pc \in InFence /\ manifest = Preflight THEN None ELSE manifest
    /\ dir' = IF pc = "copy" /\ todo # {}
                THEN [dir EXCEPT ![plan.to] =
                        [f \in Items |-> IF f \in made THEN None ELSE dir[plan.to][f]]]
                ELSE dir
    /\ Done
    /\ mishaps' = mishaps \cup Windows
    /\ UNCHANGED <<config, keychain, copies, server>>

(***************************************************************************)
(* The daemon: the manifest is looked at first, the state file is written   *)
(* later, the key is read last.                                             *)
(***************************************************************************)

(* Fault: buildVault does not look for a manifest.                          *)
DaemonBuilds_Unfenced ==
    /\ Daemons /\ daemon = "off" /\ Live[Json] # None
    /\ daemon' = "built"
    /\ held' = [key |-> None, dim |-> Live[Json], place |-> config]
    /\ UNCHANGED <<manifest, vault, copies, command, mishaps>>

DaemonBuilds ==
    /\ Daemons /\ daemon = "off" /\ manifest = None /\ Live[Json] # None
    /\ daemon' = "built"
    /\ held' = [key |-> None, dim |-> Live[Json], place |-> config]
    /\ UNCHANGED <<manifest, vault, copies, command, mishaps>>

DaemonUp ==
    /\ daemon = "built"
    /\ daemon' = "up"
    /\ held' = [held EXCEPT !.key = keychain]
    /\ UNCHANGED <<manifest, vault, copies, command, mishaps>>

(* add, or update, which reads the memento first.                           *)
DaemonWrites(f) ==
    /\ daemon = "up" /\ dir[held.place][f] \in {None} \cup [key : {held.key}, dim : Dims]
    /\ dir' = [dir EXCEPT ![held.place][f] = [key |-> held.key, dim |-> held.dim]]
    /\ UNCHANGED <<manifest, config, keychain, copies, command, server, mishaps>>

NotHeld == [key |-> None, dim |-> None, place |-> None]

DaemonStops ==
    /\ daemon # "off"
    /\ daemon' = "off" /\ held' = NotHeld
    /\ UNCHANGED <<manifest, vault, copies, command, mishaps>>

(***************************************************************************)
(* Specification                                                            *)
(***************************************************************************)

Init ==
    /\ manifest = None
    /\ config \in Places /\ keychain \in Keys
    /\ \E d \in Dims :
          dir = [p \in Places |->
                   IF p = config
                     THEN [f \in Items |-> IF f = Json THEN d ELSE [key |-> keychain, dim |-> d]]
                     ELSE Empty]
    /\ staging = None /\ backup = None
    /\ pc = "idle" /\ plan = NoPlan /\ todo = {} /\ made = {}
    /\ daemon = "off" /\ held = NotHeld
    /\ mishaps = {}

Forward ==
    \/ Migrate \/ WriteFence \/ Guard \/ Prompt \/ Declare
    \/ MarkCommitting \/ BackUp \/ Finalise \/ Unfence \/ CleanUp \/ CopyStart \/ Swap
    \/ \E f \in Ids : Stage(f)
    \/ \E f \in Items : Apply(f) \/ Copy(f)

Again ==
    \/ MigrateAgain \/ DropPreflight \/ Resume \/ DeclineResume
    \/ AbortProbe \/ Restored \/ RemoveStaging \/ RemoveBackup
    \/ AbortStorage \/ TargetRemoved \/ Aborted
    \/ \E f \in Items : Restore(f) \/ RemoveStaged(f) \/ RemoveBackedUp(f) \/ RemoveTarget(f)

Server == DaemonBuilds \/ DaemonUp \/ DaemonStops \/ \E f \in Ids : DaemonWrites(f)

Next == Forward \/ Again \/ Kill \/ Throw \/ Server

Spec == Init /\ [][Next]_vars

(***************************************************************************)
(* Properties.  Three windows are known to break what follows; a state in   *)
(* which none was hit has no mishap:                                        *)
(*   late      a daemon that looked for the manifest before it was written  *)
(*             is not visible yet when the guard looks for daemons;         *)
(*   abortCut  an abort cut off while it removes a complete staging         *)
(*             directory: a resume then applies what is left of it;         *)
(*   swapCut   a storage migration cut off between the new configuration    *)
(*             and the end of the manifest: an abort then removes the vault *)
(*             the configuration names.                                     *)
(***************************************************************************)

ManifestOK == manifest \in Manifests \cup {None, Preflight, Torn}
VaultOK    == config \in Places /\ keychain \in Keys /\ dir \in [Places -> Directory]
CopiesOK   == staging \in Directory \cup {None} /\ backup \in Directory \cup {None}
Stages     ==
    {"idle", "fence", "guard", "prompt", "declare", "stage", "backup", "apply", "unfence",
     "cleanup", "copyStart", "copy", "resume", "abort", "restore", "removeStaging",
     "removeBackup", "removeTarget", "aborted"}
CommandOK  ==
    /\ pc \in Stages /\ plan \in Plans \cup {NoPlan}
    /\ todo \subseteq Items /\ made \subseteq Items
ServerOK   ==
    /\ daemon \in {"off", "built", "up"}
    /\ held \in [key : Keys \cup {None}, dim : Dims \cup {None}, place : Places \cup {None}]

TypeOK ==
    /\ ManifestOK /\ VaultOK /\ CopiesOK /\ CommandOK /\ ServerOK
    /\ mishaps \subseteq {"late", "abortCut", "swapCut"}

Consistent == \A f \in Ids : Live[f] = [key |-> keychain, dim |-> Live[Json]]

(* migrate.ts: "The manifest is deleted last, so 'manifest absent' implies  *)
(* 'vault consistent'": every memento is where the configuration points, in *)
(* a form the stored key and the named embedder read, wherever migrations,  *)
(* resumes and aborts were killed or failed before.                         *)
UnfencedMeansReadable == (manifest = None /\ mishaps = {}) => Consistent

(* The mementos exist in one form, all of them, in the live vault or in a   *)
(* backup, at every moment: a vault that is cut off can be restored. Not    *)
(* said of a daemon that came up late, nor after an abort cut off while it  *)
(* removes the staging directory, whose backup a later migration disowns.   *)
Uniform(d) == \E form \in Form : d = [f \in Items |-> IF f = Json THEN form.dim ELSE form]

Recoverable ==
    mishaps \cap {"late", "abortCut"} = {} =>
        \/ Uniform(Live)
        \/ backup # None /\ Uniform(backup)
        \/ "swapCut" \in mishaps /\ \E p \in Places : Uniform(dir[p])

(* withMigrationFence: no daemon serves with an old key, embedder or place  *)
(* while a migration is declared.                                           *)
FenceHolds ==
    (Visible /\ "late" \notin mishaps) =>
        /\ manifest \in {None, Preflight, Torn}
        /\ pc \in {"idle", "fence", "guard", "cleanup"}
=============================================================================
