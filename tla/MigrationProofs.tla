--------------------------- MODULE MigrationProofs ---------------------------
(* Theorems about Migration: type correctness, and that no daemon serves    *)
(* while a migration is at work.                                            *)
EXTENDS Migration, TLAPS

(***************************************************************************)
(* The inductive invariant                                                  *)
(***************************************************************************)

(* Plans of a running command: the target is known.                         *)
Aims == [type : {"key"}, phase : Phases, to : Keys]
          \cup [type : {"embedder"}, phase : Phases, to : Dims]
          \cup [type : {"storage"}, phase : {"staging"}, to : Places]

(* What is on disk as the fence at each stage of the command.               *)
FenceInv ==
    /\ pc \in {"fence", "cleanup"} => manifest = None
    /\ pc = "guard" => manifest = Preflight
    /\ pc \notin {"idle", "fence", "cleanup"} => manifest # None
    /\ pc \in {"resume", "abort"} => manifest \in Manifests \cup {Preflight}

(* What the command has at hand at each stage.                              *)
StageInv ==
    /\ pc = "declare" => plan \in Aims
    /\ pc \in {"stage", "backup", "apply"} => plan \in Aims /\ plan.type # "storage"
    /\ pc \in {"copyStart", "copy"} => plan \in Aims /\ plan.type = "storage"
    /\ pc = "removeTarget" => plan \in Manifests /\ plan.type = "storage"
    /\ pc \in {"stage", "apply"} => staging \in Directory
    /\ pc = "restore" => backup \in Directory

HeldInv ==
    /\ daemon # "off" => held.dim \in Dims /\ held.place \in Places
    /\ daemon = "up" => held.key \in Keys

TypeInv == TypeOK /\ FenceInv /\ StageInv /\ HeldInv

(***************************************************************************)
(* Directories                                                              *)
(***************************************************************************)

LEMMA PutTyped ==
    ASSUME NEW d \in Directory, NEW f \in Items, NEW v \in Slot(f) \cup {None}
    PROVE  [d EXCEPT ![f] = v] \in Directory
  BY DEF Directory, Slot

LEMMA EmptyTyped == Empty \in Directory
  BY DEF Directory, Empty

(* No directory is None's equal in the sets the variables range over.       *)
LEMMA FileTyped ==
    ASSUME NEW d \in Directory, NEW f \in Items
    PROVE  /\ d[f] \in Slot(f) \cup {None}
           /\ f \in Ids => d[f] \in Form \cup {None}
           /\ f = Json => d[f] \in Dims \cup {None}
  BY MigrationAssumption DEF Directory, Slot

LEMMA LiveTyped == VaultOK => Live \in Directory
  BY DEF VaultOK, Live

LEMMA DirTyped ==
    ASSUME VaultOK, NEW p \in Places, NEW d \in Directory
    PROVE  [dir EXCEPT ![p] = d] \in [Places -> Directory]
  BY DEF VaultOK

(* A file put into the directory at one place.                              *)
LEMMA FilePut ==
    ASSUME VaultOK, NEW p \in Places, NEW f \in Items, NEW v \in Slot(f) \cup {None}
    PROVE  [dir EXCEPT ![p][f] = v] \in [Places -> Directory]
  <1>1. dir[p] \in Directory
    BY DEF VaultOK
  <1>2. [dir[p] EXCEPT ![f] = v] \in Directory
    BY <1>1, PutTyped
  <1>3. [dir EXCEPT ![p][f] = v] = [dir EXCEPT ![p] = [dir[p] EXCEPT ![f] = v]]
    OBVIOUS
  <1> QED
    BY <1>2, <1>3, DirTyped

LEMMA ManifestTyped ==
    ASSUME NEW p \in Aims PROVE Manifest(p) \in Manifests
  BY DEF Aims, Manifest, Manifests, Phases

LEMMA AimsAreManifests ==
    /\ Aims \subseteq Plans /\ Manifests \subseteq Plans
    /\ \A m \in Manifests : m \in Aims \/ m.type = "key"
  BY DEF Aims, Plans, Manifests

LEMMA NotNone ==
    /\ \A m \in Manifests : m # None /\ m # Preflight
    /\ Preflight # None /\ Torn # None /\ Torn # Preflight
  BY NoneAssumption DEF Manifests, Preflight, Torn

(***************************************************************************)
(* Type correctness                                                         *)
(***************************************************************************)

LEMMA InitTyped == Init => TypeInv
  <1> SUFFICES ASSUME Init PROVE TypeInv
    OBVIOUS
  <1>1. dir \in [Places -> Directory]
    <2>1. PICK d \in Dims : dir = [p \in Places |->
                   IF p = config
                     THEN [f \in Items |-> IF f = Json THEN d ELSE [key |-> keychain, dim |-> d]]
                     ELSE Empty]
      BY DEF Init
    <2>2. [f \in Items |-> IF f = Json THEN d ELSE [key |-> keychain, dim |-> d]] \in Directory
      BY DEF Init, Directory, Slot, Form
    <2> QED
      BY <2>1, <2>2, EmptyTyped
  <1> QED
    BY <1>1 DEF Init, TypeInv, TypeOK, ManifestOK, VaultOK, CopiesOK, CommandOK, ServerOK, FenceInv, StageInv, HeldInv, Stages, NoPlan, NotHeld

(* Steps that only move the control, or write one of the small variables.   *)
LEMMA ControlTyped ==
    ASSUME TypeInv,
           \/ Migrate \/ WriteFence \/ Guard \/ Prompt \/ MarkCommitting \/ Unfence \/ CleanUp
           \/ MigrateAgain \/ DropPreflight \/ DeclineResume \/ AbortStorage \/ Restored
           \/ RemoveStaging \/ RemoveBackup \/ TargetRemoved \/ Aborted
           \/ DaemonBuilds \/ DaemonUp \/ DaemonStops
    PROVE  TypeInv'
  <1> USE NotNone DEF TypeInv, TypeOK, ManifestOK, VaultOK, CopiesOK, CommandOK, ServerOK, FenceInv, StageInv, HeldInv, Stages, Goto, At, Done
  <1>1. CASE Migrate
    BY <1>1 DEF Migrate, vault, copies, server
  <1>2. CASE WriteFence
    BY <1>2 DEF WriteFence, vault, copies, server
  <1>3. CASE Guard
    BY <1>3 DEF Guard, NoServer, vault, copies, server, NoPlan
  <1>4. CASE Prompt
    <2>1. CASE Done /\ UNCHANGED copies
      BY <1>4, <2>1 DEF Prompt, vault, copies, server, NoPlan
    <2>2. ASSUME NEW type \in Types, NEW to \in Targets(type),
                 plan' = [type |-> type, phase |-> "staging", to |-> to],
                 staging' = None, backup' = None,
                 pc' = "declare", UNCHANGED <<todo, made>>
          PROVE  TypeInv'
      <3>1. plan' \in Aims
        BY <2>2, MigrationAssumption DEF Targets, Aims, Phases
      <3> QED
        BY <1>4, <2>2, <3>1, AimsAreManifests DEF Prompt, vault, server
    <2> QED
      BY <1>4, <2>1, <2>2 DEF Prompt
  <1>5. CASE MarkCommitting
    <2>1. [plan EXCEPT !.phase = "committing"] \in Aims
      BY <1>5 DEF MarkCommitting, Aims, Phases
    <2> QED
      BY <1>5, <2>1, ManifestTyped DEF MarkCommitting, vault, copies, server
  <1>6. CASE Unfence
    BY <1>6 DEF Unfence, vault, copies, server, NoPlan
  <1>7. CASE CleanUp
    BY <1>7 DEF CleanUp, vault, server, NoPlan
  <1>8. CASE MigrateAgain
    BY <1>8 DEF MigrateAgain, NoServer, Pending, vault, copies, server
  <1>9. CASE DropPreflight
    BY <1>9 DEF DropPreflight, vault, copies, server, NoPlan
  <1>10. CASE DeclineResume
    BY <1>10 DEF DeclineResume, vault, copies, server
  <1>11. CASE AbortStorage
    BY <1>11, AimsAreManifests DEF AbortStorage, vault, copies, server, Preflight
  <1>12. CASE Restored
    BY <1>12 DEF Restored, vault, copies, server
  <1>13. CASE RemoveStaging
    BY <1>13 DEF RemoveStaging, vault, server
  <1>14. CASE RemoveBackup
    BY <1>14 DEF RemoveBackup, vault, server
  <1>15. CASE TargetRemoved
    BY <1>15 DEF TargetRemoved, vault, copies, server
  <1>16. CASE Aborted
    BY <1>16 DEF Aborted, vault, copies, server, NoPlan
  <1>17. CASE DaemonBuilds
    <2>1. Live[Json] \in Dims
      BY <1>17, LiveTyped, FileTyped DEF DaemonBuilds, Items
    <2> QED
      BY <1>17, <2>1 DEF DaemonBuilds, vault, copies, command
  <1>18. CASE DaemonUp
    BY <1>18 DEF DaemonUp, vault, copies, command
  <1>19. CASE DaemonStops
    BY <1>19 DEF DaemonStops, NotHeld, vault, copies, command
  <1> QED
    BY <1>1, <1>2, <1>3, <1>4, <1>5, <1>6, <1>7, <1>8, <1>9, <1>10, <1>11, <1>12, <1>13, <1>14,
       <1>15, <1>16, <1>17, <1>18, <1>19

(* Steps that copy, transform or remove a file.                             *)
LEMMA FilesTyped ==
    ASSUME TypeInv, NEW f \in Items,
           \/ f \in Ids /\ (Stage(f) \/ DaemonWrites(f))
           \/ Apply(f) \/ Copy(f) \/ Restore(f) \/ RemoveStaged(f) \/ RemoveBackedUp(f)
           \/ RemoveTarget(f)
    PROVE  TypeInv'
  <1> USE NotNone DEF TypeInv, TypeOK, ManifestOK, VaultOK, CopiesOK, CommandOK, ServerOK, FenceInv, StageInv, HeldInv, At
  <1>1. CASE f \in Ids /\ Stage(f)
    <2>1. Live[f] \in Form
      BY <1>1, LiveTyped, FileTyped DEF Stage, Mems
    <2>2. Transform(Live[f]) \in Form
      BY <1>1, <2>1 DEF Stage, Transform, Form, Aims
    <2>3. staging' \in Directory
      BY <1>1, <2>2, PutTyped, MigrationAssumption DEF Stage, Slot
    <2> QED
      BY <1>1, <2>3 DEF Stage, vault, command, server
  <1>2. CASE f \in Ids /\ DaemonWrites(f)
    <2>1. [key |-> held.key, dim |-> held.dim] \in Slot(f) /\ held.place \in Places
      BY <1>2, MigrationAssumption DEF DaemonWrites, Slot, Form
    <2>2. dir' \in [Places -> Directory]
      BY <1>2, <2>1, FilePut DEF DaemonWrites
    <2> QED
      BY <1>2, <2>2 DEF DaemonWrites, copies, command, server
  <1>3. CASE Apply(f)
    <2>1. dir' \in [Places -> Directory]
      BY <1>3, FileTyped, FilePut DEF Apply
    <2> QED
      BY <1>3, <2>1 DEF Apply, copies, server
  <1>4. CASE Copy(f)
    <2>1. plan.to \in Places
      BY <1>4 DEF Copy, Aims
    <2>2. dir' \in [Places -> Directory]
      BY <1>4, <2>1, LiveTyped, FileTyped, FilePut DEF Copy
    <2> QED
      BY <1>4, <2>2 DEF Copy, copies, server
  <1>5. CASE Restore(f)
    <2>1. dir' \in [Places -> Directory]
      BY <1>5, FileTyped, FilePut DEF Restore
    <2> QED
      BY <1>5, <2>1 DEF Restore, copies, server
  <1>6. CASE RemoveStaged(f)
    <2>1. staging' \in Directory
      BY <1>6, PutTyped DEF RemoveStaged
    <2> QED
      BY <1>6, <2>1 DEF RemoveStaged, vault, command, server
  <1>7. CASE RemoveBackedUp(f)
    <2>1. backup' \in Directory
      BY <1>7, PutTyped DEF RemoveBackedUp
    <2> QED
      BY <1>7, <2>1 DEF RemoveBackedUp, vault, command, server
  <1>8. CASE RemoveTarget(f)
    <2>1. plan.to \in Places
      BY <1>8 DEF RemoveTarget, Manifests
    <2>2. dir' \in [Places -> Directory]
      BY <1>8, <2>1, FilePut DEF RemoveTarget
    <2> QED
      BY <1>8, <2>2 DEF RemoveTarget, copies, command, server
  <1> QED
    BY <1>1, <1>2, <1>3, <1>4, <1>5, <1>6, <1>7, <1>8

(* Steps that look at the files, switch a setting, or end a command.        *)
LEMMA DecisionTyped ==
    ASSUME TypeInv,
           \/ Declare \/ BackUp \/ Finalise \/ CopyStart \/ Swap \/ Resume \/ AbortProbe
           \/ Kill \/ Throw
    PROVE  TypeInv'
  <1> USE NotNone DEF TypeInv, TypeOK, ManifestOK, VaultOK, CopiesOK, CommandOK, ServerOK, FenceInv, StageInv, HeldInv, Stages, Goto, At, Done, NoPlan
  <1>1. CASE Declare
    <2>1. manifest' \in Manifests
      BY <1>1, ManifestTyped DEF Declare
    <2> QED
      BY <1>1, <2>1, EmptyTyped, AimsAreManifests DEF Declare, vault, server
  <1>2. CASE BackUp
    <2>1. backup' \in Directory \cup {None}
      BY <1>2, LiveTyped DEF BackUp
    <2> QED
      BY <1>2, <2>1 DEF BackUp, Held, vault, server
  <1>3. CASE Finalise
    <2>1. CASE plan.type = "key"
      <3>1. plan.to \in Keys
        BY <1>3, <2>1 DEF Finalise, Aims
      <3> QED
        BY <1>3, <2>1, <3>1 DEF Finalise, copies, server
    <2>2. CASE plan.type # "key"
      <3>1. plan.to \in Slot(Json) \cup {None} /\ Json \in Items
        BY <1>3, <2>2 DEF Finalise, Aims, Slot, Items
      <3>2. dir' \in [Places -> Directory]
        BY <1>3, <2>2, <3>1, FilePut DEF Finalise
      <3> QED
        BY <1>3, <2>2, <3>2 DEF Finalise, copies, server
    <2> QED
      BY <2>1, <2>2
  <1>4. CASE CopyStart
    BY <1>4 DEF CopyStart, Held, vault, copies, server
  <1>5. CASE Swap
    <2>1. plan.to \in Places
      BY <1>5 DEF Swap, Aims
    <2> QED
      BY <1>5, <2>1 DEF Swap, copies, server
  <1>6. CASE Resume
    <2>1. PICK to \in (IF manifest.type = "key" THEN Keys ELSE {manifest.to}) :
            \/ Done
            \/ /\ plan' = [manifest EXCEPT !.to = to]
               /\ IF manifest.type = "storage" THEN Goto("copyStart")
                  ELSE IF manifest.phase = "staging" THEN Goto("declare") ELSE Goto("backup")
               /\ UNCHANGED <<todo, made>>
      BY <1>6 DEF Resume
    <2>2. manifest \in Manifests
      BY <1>6 DEF Resume, Preflight
    <2>3. [manifest EXCEPT !.to = to] \in Aims
      BY <2>2 DEF Manifests, Aims
    <2>4. [manifest EXCEPT !.to = to].type = manifest.type
      BY <2>2 DEF Manifests
    <2> QED
      BY <1>6, <2>1, <2>2, <2>3, <2>4, AimsAreManifests DEF Resume, vault, copies, server
  <1>7. CASE AbortProbe
    <2>1. manifest \in Manifests
      BY <1>7 DEF AbortProbe, Preflight
    <2> QED
      BY <1>7, <2>1, AimsAreManifests DEF AbortProbe, Held, vault, copies, server
  <1>8. CASE Kill
    BY <1>8 DEF Kill, Windows, vault, copies, server
  <1>9. CASE Throw
    <2>1. dir' \in [Places -> Directory]
      <3>1. CASE pc = "copy"
        <4>1. plan.to \in Places
          BY <3>1 DEF Aims
        <4>2. [f \in Items |-> IF f \in made THEN None ELSE dir[plan.to][f]] \in Directory
          BY <4>1, FileTyped DEF Directory
        <4> QED
          BY <1>9, <3>1, <4>1, <4>2, DirTyped DEF Throw
      <3> QED
        BY <1>9, <3>1 DEF Throw
    <2> QED
      BY <1>9, <2>1 DEF Throw, Windows, copies, server
  <1> QED
    BY <1>1, <1>2, <1>3, <1>4, <1>5, <1>6, <1>7, <1>8, <1>9

LEMMA NextTyped == TypeInv /\ [Next]_vars => TypeInv'
  <1> SUFFICES ASSUME TypeInv, [Next]_vars PROVE TypeInv'
    OBVIOUS
  <1>1. CASE UNCHANGED vars
    BY <1>1 DEF vars, vault, copies, command, server, TypeInv, TypeOK, ManifestOK, VaultOK, CopiesOK, CommandOK, ServerOK, FenceInv, StageInv, HeldInv
  <1>2. CASE Next
    BY <1>2, ControlTyped, FilesTyped, DecisionTyped DEF Next, Forward, Again, Server, Items
  <1> QED
    BY <1>1, <1>2

(* Every reachable state is well typed: the manifest on disk is a complete  *)
(* one of a declared migration, the fence, or the remains of a cut write,   *)
(* and never holds a key (migration-manifest.ts).                           *)
THEOREM TypeCorrect == Spec => []TypeOK
  <1>1. TypeInv => TypeOK
    BY DEF TypeInv
  <1> QED
    BY InitTyped, NextTyped, <1>1, PTL DEF Spec

(***************************************************************************)
(* The fence                                                                *)
(***************************************************************************)

(* The files of the vault are being changed by a migration.                 *)
AtWork == manifest \notin {None, Preflight, Torn} \/ pc \notin {"idle", "fence", "guard", "cleanup"}

(* Not even a daemon that is only about to become visible is there, unless  *)
(* the guard passed one.                                                    *)
NoDaemonInv == "late" \notin mishaps /\ AtWork => daemon = "off"

LEMMA NextNoDaemon == FenceInv /\ NoDaemonInv /\ ServerOK /\ [Next]_vars => NoDaemonInv'
  <1> SUFFICES ASSUME FenceInv, NoDaemonInv, ServerOK, [Next]_vars PROVE NoDaemonInv'
    OBVIOUS
  <1> USE NotNone DEF NoDaemonInv, AtWork, At, Goto, Done
  <1>1. CASE Migrate \/ WriteFence \/ Unfence \/ CleanUp \/ DropPreflight \/ Aborted
    BY <1>1 DEF Migrate, WriteFence, Unfence, CleanUp, DropPreflight, Aborted, FenceInv, server
  <1>2. CASE Guard \/ MigrateAgain
    BY <1>2 DEF Guard, MigrateAgain, NoServer, server, ServerOK, Visible
  <1>3. CASE Prompt \/ Declare \/ MarkCommitting \/ BackUp \/ Finalise \/ CopyStart \/ Swap
    BY <1>3 DEF Prompt, Declare, MarkCommitting, BackUp, Finalise, CopyStart, Swap, server
  <1>4. CASE \/ Resume \/ DeclineResume \/ AbortProbe \/ Restored \/ RemoveStaging \/ RemoveBackup
             \/ AbortStorage \/ TargetRemoved
    BY <1>4 DEF Resume, DeclineResume, AbortProbe, Restored, RemoveStaging, RemoveBackup,
       AbortStorage, TargetRemoved, server
  <1>5. ASSUME NEW f \in Items,
               \/ Stage(f) \/ Apply(f) \/ Copy(f)
               \/ Restore(f) \/ RemoveStaged(f) \/ RemoveBackedUp(f) \/ RemoveTarget(f)
               \/ DaemonWrites(f)
        PROVE  NoDaemonInv'
    BY <1>5 DEF Stage, Apply, Copy, Restore, RemoveStaged, RemoveBackedUp, RemoveTarget,
       DaemonWrites, command, server
  <1>6. CASE Kill
    BY <1>6 DEF Kill, server
  <1>7. CASE Throw
    BY <1>7 DEF Throw, server
  <1>8. CASE DaemonBuilds
    BY <1>8 DEF DaemonBuilds, FenceInv, command
  <1>9. CASE DaemonUp \/ DaemonStops
    BY <1>9 DEF DaemonUp, DaemonStops, command
  <1>10. CASE UNCHANGED vars
    BY <1>10 DEF vars, command, server
  <1> QED
    BY <1>1, <1>2, <1>3, <1>4, <1>5, <1>6, <1>7, <1>8, <1>9, <1>10
    DEF Next, Forward, Again, Server, Items

(* While a migration is declared or at work no daemon serves, whatever was  *)
(* killed, resumed or aborted before, unless one slipped past the guard     *)
(* between its look at the manifest and its state file.                     *)
THEOREM FenceHoldsAlways == Spec => []FenceHolds
  <1>1. Init => NoDaemonInv
    BY DEF Init, NoDaemonInv
  <1>2. TypeInv => FenceInv /\ ServerOK
    BY DEF TypeInv, TypeOK
  <1>3. NoDaemonInv => FenceHolds
    BY DEF NoDaemonInv, AtWork, FenceHolds, Visible
  <1> QED
    BY InitTyped, NextTyped, NextNoDaemon, <1>1, <1>2, <1>3, PTL DEF Spec

(***************************************************************************)
(* The inductive invariant                                                  *)
(***************************************************************************)

Declared == manifest \in Manifests
Staged   == Declared /\ manifest.type # "storage"

(* The plan at hand is the one that was declared.                           *)
Same == plan.type = manifest.type /\ manifest.to = Manifest(plan).to

PlanInv ==
    /\ pc = "prompt" => manifest = Preflight
    /\ pc = "declare" => /\ plan.phase = "staging"
                         /\ \/ manifest = Preflight
                            \/ Staged /\ manifest.phase = "staging" /\ Same
    /\ pc = "stage" => Staged /\ manifest.phase = "staging" /\ Same
    /\ pc \in {"backup", "apply"} => Staged /\ manifest.phase = "committing" /\ Same
    /\ pc = "unfence" => Declared /\ Same /\ (Staged => manifest.phase = "committing")
    /\ pc \in {"copyStart", "copy"} => Declared /\ Same
    /\ pc \in {"restore", "removeStaging", "removeBackup"} => Staged /\ plan = manifest
    /\ pc = "removeTarget" => Declared /\ plan = manifest
    /\ pc = "aborted" => Declared

(* How the mementos are read now, and how they will be, with k the new key. *)
Here      == [key |-> keychain, dim |-> Live[Json]]
Target(k) == IF manifest.type = "key" THEN [key |-> k, dim |-> Live[Json]]
                                      ELSE [key |-> keychain, dim |-> manifest.to]

Settled ==
    /\ Live[Json] \in Dims
    /\ \/ ~Staged
       \/ manifest.phase = "staging"
       \/ pc \in {"unfence", "removeStaging", "removeBackup", "aborted"}
       => Consistent

(* What a daemon works with is what is configured.                          *)
Serving ==
    daemon # "off" => /\ held.place = config /\ held.dim = Live[Json]
                      /\ daemon = "up" => held.key = keychain

(* Some place has the whole vault, and nobody will write there.             *)
Spare ==
    \E p \in Places :
       /\ Uniform(dir[p]) /\ p # config
       /\ (Declared /\ manifest.type = "storage") => manifest.to # p
       /\ plan.type = "storage" => plan.to # p
       /\ daemon # "off" => held.place # p

(* The target of a storage migration holds nothing but copies.              *)
CopyInv ==
    /\ (Declared /\ manifest.type = "storage" /\ pc # "unfence") =>
          /\ manifest.to # config
          /\ \A f \in Items : dir[manifest.to][f] \in {None, Live[f]}
    /\ pc = "copy" => \A f \in Items \ todo : dir[plan.to][f] = Live[f]
    /\ (pc = "declare" /\ plan.type = "storage") => plan.to # config /\ dir[plan.to] = Empty
    /\ (pc = "unfence" /\ plan.type = "storage") => Spare

(* A commit cut off anywhere has all it needs to go on and to go back.      *)
BackedUp == backup # None /\ backup[Json] = Live[Json] /\ \A f \in Ids : backup[f] = Here

Halfway(k) ==
    /\ staging # None
    /\ \A f \in Ids : staging[f] = Target(k)
    /\ \A f \in Ids : Live[f] \in {Here, Target(k)}
    /\ backup = None => Consistent
    /\ backup # None => BackedUp \/ \A f \in Ids : Live[f] = Here /\ Here = Target(k)

StagedFor(k) ==
    /\ staging # None => staging[Json] = None /\ \A f \in Ids : staging[f] \in {None, Target(k)}
    /\ (pc \in {"declare", "stage", "backup", "apply"} /\ plan.type = "key") => plan.to = k
    /\ manifest.phase = "staging" => backup = None
    /\ (manifest.phase = "committing" /\ pc \notin {"removeStaging", "removeBackup", "aborted"}) =>
          Halfway(k) \/ (staging = None /\ Consistent)
    /\ pc = "apply" => /\ Halfway(k) /\ backup # None /\ todo \subseteq Ids
                       /\ \A f \in Ids \ todo : Live[f] = Target(k)
    /\ pc = "restore" => /\ Halfway(k) /\ BackedUp /\ manifest.phase = "committing"
                         /\ \A f \in Ids \ todo : Live[f] = Here
    /\ pc \in {"removeBackup", "aborted"} => staging = None

CommitInv ==
    /\ (pc = "declare" /\ manifest = Preflight) => staging = None /\ backup = None
    /\ Staged => \E k \in Keys : StagedFor(k)

Good == Settled /\ Serving /\ CopyInv /\ CommitInv

Known == TypeInv /\ NoDaemonInv /\ PlanInv

IInv == /\ Known
        /\ mishaps = {} => Good
        /\ mishaps = {"swapCut"} => Spare

(***************************************************************************)
(* Manifests and plans                                                      *)
(***************************************************************************)

LEMMA Kinds ==
    /\ \A m \in Manifests : /\ m.type \in {"key", "embedder", "storage"} /\ m.phase \in Phases
                            /\ m.type = "key" => m.to = None
                            /\ m.type = "embedder" => m.to \in Dims
                            /\ m.type = "storage" => m.to \in Places /\ m.phase = "staging"
    /\ \A m \in Aims : /\ m.type \in {"key", "embedder", "storage"} /\ m.phase \in Phases
                       /\ m.type = "key" => m.to \in Keys
                       /\ m.type = "embedder" => m.to \in Dims
                       /\ m.type = "storage" => m.to \in Places /\ m.phase = "staging"
    /\ None \notin Manifests /\ Preflight \notin Manifests /\ Torn \notin Manifests
    /\ Preflight # None /\ Torn # None /\ Torn # Preflight
    /\ Preflight.type = "preflight" /\ NoPlan.type = "none"
  BY NoneAssumption DEF Manifests, Aims, Phases, Preflight, Torn, NoPlan

LEMMA ManifestOf ==
    ASSUME NEW p \in Aims
    PROVE  /\ Manifest(p) \in Manifests
           /\ Manifest(p).type = p.type /\ Manifest(p).phase = p.phase
           /\ Manifest(p).to = IF p.type = "key" THEN None ELSE p.to
  BY ManifestTyped DEF Aims, Manifest, Phases

LEMMA CommitsTo ==
    ASSUME NEW p \in Aims, p.type # "storage", NEW q, q = [p EXCEPT !.phase = "committing"]
    PROVE  /\ q \in Aims /\ q.type = p.type /\ q.to = p.to /\ q.phase = "committing"
  BY DEF Aims, Phases

LEMMA Resumed ==
    ASSUME NEW m \in Manifests, NEW to, NEW q, q = [m EXCEPT !.to = to],
           to \in IF m.type = "key" THEN Keys ELSE {m.to}
    PROVE  /\ q \in Aims /\ q.type = m.type /\ q.phase = m.phase /\ q.to = to
           /\ m.to = Manifest(q).to
  <1>1. q \in Aims /\ q.type = m.type /\ q.phase = m.phase /\ q.to = to
    BY DEF Manifests, Aims, Phases
  <1> QED
    BY <1>1, ManifestOf, Kinds

(***************************************************************************)
(* The plan                                                                 *)
(***************************************************************************)

LEMMA NextPlan == TypeInv /\ PlanInv /\ [Next]_vars => PlanInv'
  <1> SUFFICES ASSUME TypeInv, PlanInv, [Next]_vars PROVE PlanInv'
    OBVIOUS
  <1> USE DEF At, Goto, Done, PlanInv, Declared, Staged, Same
  <1>t. ManifestOK /\ FenceInv /\ StageInv
    BY DEF TypeInv, TypeOK
  <1>1. CASE Migrate \/ WriteFence \/ Guard \/ CleanUp \/ DropPreflight \/ Aborted \/ Unfence
    BY <1>1, <1>t, Kinds DEF Migrate, WriteFence, Guard, CleanUp, DropPreflight, Aborted, Unfence, FenceInv
  <1>2. CASE Prompt
    BY <1>2, <1>t, Kinds DEF Prompt, FenceInv
  <1>3. CASE Declare
    <2>1. plan \in Aims
      BY <1>3, <1>t DEF Declare, StageInv
    <2> QED
      BY <1>3, <2>1, ManifestOf, Kinds DEF Declare
  <1>4. CASE MarkCommitting
    <2>1. plan \in Aims /\ plan.type # "storage"
      BY <1>4, <1>t DEF MarkCommitting, StageInv
    <2> DEFINE q == [plan EXCEPT !.phase = "committing"]
    <2>2. q \in Aims /\ q.type = plan.type /\ q.to = plan.to /\ q.phase = "committing"
      BY <2>1, CommitsTo
    <2>3. manifest' = Manifest(q) /\ plan' = plan /\ pc' = "backup"
      BY <1>4 DEF MarkCommitting
    <2> QED
      BY <2>1, <2>2, <2>3, ManifestOf
  <1>5. CASE BackUp \/ Finalise \/ CopyStart \/ Swap
    BY <1>5, <1>t, Kinds DEF BackUp, Finalise, CopyStart, Swap, StageInv
  <1>6. CASE MigrateAgain \/ DeclineResume
    BY <1>6 DEF MigrateAgain, DeclineResume
  <1>7. CASE Resume
    <2>0. manifest \in Manifests /\ pc' \in {"idle", "copyStart", "declare", "backup"} /\ manifest' = manifest
      BY <1>7, <1>t, Kinds DEF Resume, FenceInv
    <2>1. CASE pc' = "idle"
      BY <2>0, <2>1
    <2>2. CASE pc' # "idle"
      <3>1. PICK to \in (IF manifest.type = "key" THEN Keys ELSE {manifest.to}) :
               /\ plan' = [manifest EXCEPT !.to = to]
               /\ IF manifest.type = "storage" THEN pc' = "copyStart"
                  ELSE IF manifest.phase = "staging" THEN pc' = "declare" ELSE pc' = "backup"
        BY <1>7, <2>2 DEF Resume
      <3>2. /\ plan' \in Aims /\ plan'.type = manifest.type /\ plan'.phase = manifest.phase
            /\ manifest.to = Manifest(plan').to
        BY <2>0, <3>1, Resumed
      <3>3. manifest.phase \in {"staging", "committing"}
        BY <2>0, Kinds DEF Phases
      <3>4. manifest'.to = Manifest(plan)'.to
        BY <2>0, <3>2 DEF Manifest
      <3> QED
        BY <2>0, <3>1, <3>2, <3>3, <3>4
    <2> QED
      BY <2>1, <2>2
  <1>8. CASE AbortProbe \/ AbortStorage
    BY <1>8, <1>t, Kinds DEF AbortProbe, AbortStorage, FenceInv
  <1>9. CASE Restored \/ RemoveStaging \/ RemoveBackup \/ TargetRemoved
    BY <1>9 DEF Restored, RemoveStaging, RemoveBackup, TargetRemoved
  <1>10. ASSUME NEW f \in Items,
                \/ Stage(f) \/ Apply(f) \/ Copy(f) \/ Restore(f) \/ RemoveStaged(f)
                \/ RemoveBackedUp(f) \/ RemoveTarget(f) \/ DaemonWrites(f)
         PROVE  PlanInv'
    <2>1. manifest' = manifest /\ pc' = pc /\ plan' = plan
      BY <1>10 DEF Stage, Apply, Copy, Restore, RemoveStaged, RemoveBackedUp, RemoveTarget,
                   DaemonWrites, command
    <2> QED
      BY <2>1 DEF Manifest
  <1>11. CASE Kill \/ Throw
    BY <1>11 DEF Kill, Throw
  <1>12. CASE DaemonBuilds \/ DaemonUp \/ DaemonStops \/ UNCHANGED vars
    <2>1. manifest' = manifest /\ pc' = pc /\ plan' = plan
      BY <1>12 DEF DaemonBuilds, DaemonUp, DaemonStops, vars, command
    <2> QED
      BY <2>1 DEF Manifest
  <1> QED
    BY <1>1, <1>2, <1>3, <1>4, <1>5, <1>6, <1>7, <1>8, <1>9, <1>10, <1>11, <1>12
    DEF Next, Forward, Again, Server, Items

(***************************************************************************)
(* The spare copy                                                           *)
(***************************************************************************)

SpareAt(p) ==
    /\ Uniform(dir[p]) /\ p # config
    /\ (Declared /\ manifest.type = "storage") => manifest.to # p
    /\ plan.type = "storage" => plan.to # p
    /\ daemon # "off" => held.place # p

LEMMA UniformIsFull ==
    ASSUME NEW d \in Directory, Uniform(d)
    PROVE  d # Empty /\ d[Json] \in Dims
  BY NoneAssumption DEF Uniform, Empty, Form, Items

(* Only the vault, the target of a copy and the place a daemon serves are   *)
(* ever written to.                                                         *)
LEMMA SpareUntouched ==
    ASSUME TypeInv, PlanInv, NEW p \in Places, SpareAt(p), [Next]_vars
    PROVE  dir'[p] = dir[p]
  <1> USE DEF SpareAt
  <1>t. VaultOK /\ StageInv /\ HeldInv
    BY DEF TypeInv, TypeOK
  <1>1. ASSUME NEW f \in Items, Apply(f) \/ Restore(f) PROVE dir'[p] = dir[p]
    BY <1>1, <1>t DEF Apply, Restore, VaultOK
  <1>2. ASSUME NEW f \in Items, Copy(f) PROVE dir'[p] = dir[p]
    BY <1>2, <1>t DEF Copy, VaultOK, StageInv, At
  <1>3. ASSUME NEW f \in Items, RemoveTarget(f) PROVE dir'[p] = dir[p]
    BY <1>3, <1>t DEF RemoveTarget, VaultOK, StageInv, At
  <1>4. CASE Finalise
    BY <1>4, <1>t DEF Finalise, VaultOK
  <1>5. CASE Throw
    BY <1>5, <1>t DEF Throw, VaultOK, StageInv
  <1>6. ASSUME NEW f \in Items, DaemonWrites(f) PROVE dir'[p] = dir[p]
    BY <1>6, <1>t DEF DaemonWrites, VaultOK
  <1>7. CASE Swap
    BY <1>7 DEF Swap
  <1>8. CASE dir' = dir
    BY <1>8
  <1> QED
    BY <1>1, <1>2, <1>3, <1>4, <1>5, <1>6, <1>7, <1>8
    DEF Next, Forward, Again, Server, vars, vault, Migrate, WriteFence, Guard, Prompt, Declare,
        MarkCommitting, BackUp, Unfence, CleanUp, CopyStart, Stage, MigrateAgain, DropPreflight,
        Resume, DeclineResume, AbortProbe, Restored, RemoveStaging, RemoveBackup, RemoveStaged,
        RemoveBackedUp, AbortStorage, TargetRemoved, Aborted, Kill, DaemonBuilds, DaemonUp,
        DaemonStops, Items

LEMMA NextSpare ==
    ASSUME TypeInv, PlanInv, NEW p \in Places, SpareAt(p), [Next]_vars
    PROVE  SpareAt(p)'
  <1>t. VaultOK /\ ManifestOK /\ StageInv /\ HeldInv /\ CommandOK /\ ServerOK
    BY DEF TypeInv, TypeOK
  <1>d. dir'[p] = dir[p]
    BY SpareUntouched
  <1>u. Uniform(dir[p])'
    BY <1>d DEF Uniform, SpareAt
  <1>p. dir[p] # Empty
    BY <1>t, UniformIsFull DEF SpareAt, VaultOK
  <1> USE DEF SpareAt, Declared, At, Goto, Done
  <1>1. CASE Migrate \/ WriteFence \/ Guard \/ CleanUp \/ DropPreflight \/ Aborted \/ Unfence
    BY <1>1, <1>u, Kinds DEF Migrate, WriteFence, Guard, CleanUp, DropPreflight, Aborted, Unfence,
                        vault, server
  <1>2. CASE Prompt
    BY <1>2, <1>u, <1>p, Kinds DEF Prompt, vault, server, Targets
  <1>3. CASE Declare
    <2>1. plan \in Aims
      BY <1>3, <1>t DEF Declare, StageInv
    <2> QED
      BY <1>3, <1>u, <2>1, ManifestOf, Kinds DEF Declare, vault, server
  <1>4. CASE MarkCommitting
    <2>1. plan \in Aims /\ plan.type # "storage"
      BY <1>4, <1>t DEF MarkCommitting, StageInv
    <2> DEFINE q == [plan EXCEPT !.phase = "committing"]
    <2>2. q \in Aims /\ q.type = plan.type
      BY <2>1, CommitsTo
    <2>3. manifest' = Manifest(q)
      BY <1>4 DEF MarkCommitting
    <2> QED
      BY <1>4, <1>u, <2>1, <2>2, <2>3, ManifestOf DEF MarkCommitting, vault, server
  <1>5. CASE BackUp \/ Finalise \/ CopyStart
    BY <1>5, <1>u, Kinds DEF BackUp, Finalise, CopyStart, vault, server
  <1>6. CASE Swap
    <2>1. plan.type = "storage"
      BY <1>6, <1>t DEF Swap, StageInv
    <2> QED
      BY <1>6, <1>u, <2>1 DEF Swap, server
  <1>7. CASE MigrateAgain \/ DeclineResume
    BY <1>7, <1>u DEF MigrateAgain, DeclineResume, vault, server
  <1>8. CASE Resume
    <2>1. plan'.type = "storage" => manifest \in Manifests /\ manifest.type = "storage" /\ plan'.to = manifest.to
      <3>0. manifest \in Manifests
        BY <1>8, <1>t, Kinds DEF Resume, TypeInv, FenceInv
      <3>1. CASE plan' = NoPlan
        BY <3>1, Kinds
      <3>2. CASE plan' # NoPlan
        <4>1. PICK to \in (IF manifest.type = "key" THEN Keys ELSE {manifest.to}) :
                 plan' = [manifest EXCEPT !.to = to]
          BY <1>8, <3>2 DEF Resume
        <4>2. plan'.type = manifest.type /\ plan'.to = to
          BY <3>0, <4>1, Resumed
        <4> QED
          BY <3>0, <4>1, <4>2
      <3> QED
        BY <3>1, <3>2
    <2> QED
      BY <1>8, <1>u, <2>1 DEF Resume, vault, server
  <1>9. CASE AbortProbe \/ AbortStorage
    <2>1. plan'.type = "storage" => manifest \in Manifests /\ manifest.type = "storage" /\ plan'.to = manifest.to
      BY <1>9, <1>t, Kinds DEF AbortProbe, AbortStorage, TypeInv, FenceInv
    <2> QED
      BY <1>9, <1>u, <2>1 DEF AbortProbe, AbortStorage, vault, server
  <1>10. CASE Restored \/ RemoveStaging \/ RemoveBackup \/ TargetRemoved
    BY <1>10, <1>u DEF Restored, RemoveStaging, RemoveBackup, TargetRemoved, vault, server
  <1>11. ASSUME NEW f \in Items,
                \/ Stage(f) \/ Apply(f) \/ Copy(f) \/ Restore(f) \/ RemoveStaged(f)
                \/ RemoveBackedUp(f) \/ RemoveTarget(f) \/ DaemonWrites(f)
         PROVE  SpareAt(p)'
    BY <1>11, <1>u DEF Stage, Apply, Copy, Restore, RemoveStaged, RemoveBackedUp, RemoveTarget,
                   DaemonWrites, command, vault, server
  <1>12. CASE Kill \/ Throw
    BY <1>12, <1>u, Kinds DEF Kill, Throw, vault, server
  <1>13. CASE DaemonBuilds \/ DaemonUp \/ DaemonStops
    BY <1>13, <1>u, <1>t DEF DaemonBuilds, DaemonUp, DaemonStops, command, vault, ServerOK
  <1>14. CASE UNCHANGED vars
    BY <1>14, <1>u DEF vars, vault, command, server
  <1> QED
    BY <1>1, <1>2, <1>3, <1>4, <1>5, <1>6, <1>7, <1>8, <1>9, <1>10, <1>11, <1>12, <1>13, <1>14
    DEF Next, Forward, Again, Server, Items

(***************************************************************************)
(* The vault while nothing has gone wrong                                   *)
(***************************************************************************)

Sound == Settled /\ CopyInv /\ CommitInv

LEMMA Basics ==
    ASSUME Known, Good
    PROVE  /\ VaultOK /\ ManifestOK /\ CopiesOK /\ CommandOK /\ ServerOK /\ FenceInv /\ StageInv
           /\ config \in Places /\ keychain \in Keys
           /\ Live \in Directory /\ Live[Json] \in Dims
           /\ Json \notin Ids /\ Items = Ids \cup {Json}
           /\ Here \in Form /\ None \notin Form /\ None \notin Dims
           /\ Consistent <=> \A f \in Ids : Live[f] = Here
           /\ Declared => \A k \in Keys : Staged => Target(k) \in Form
  <1>1. /\ VaultOK /\ ManifestOK /\ CopiesOK /\ CommandOK /\ ServerOK /\ FenceInv /\ StageInv
        /\ config \in Places /\ keychain \in Keys
    BY DEF Known, TypeInv, TypeOK, VaultOK
  <1>2. Live \in Directory /\ Live[Json] \in Dims
    BY <1>1, LiveTyped DEF Good, Settled
  <1>3. Json \notin Ids /\ Items = Ids \cup {Json} /\ None \notin Form /\ None \notin Dims
    BY MigrationAssumption, NoneAssumption DEF Items
  <1>4. Here \in Form
    BY <1>1, <1>2 DEF Here, Form
  <1>5. Consistent <=> \A f \in Ids : Live[f] = Here
    BY DEF Consistent, Here
  <1>6. Declared => \A k \in Keys : Staged => Target(k) \in Form
    BY <1>1, <1>2, Kinds DEF Declared, Staged, Target, Form
  <1> QED
    BY <1>1, <1>2, <1>3, <1>4, <1>5, <1>6

(* What depends on the files, the settings and the manifest only.           *)
LEMMA Frame ==
    ASSUME manifest' = manifest, UNCHANGED vault, UNCHANGED copies
    PROVE  /\ Live' = Live /\ Consistent' = Consistent /\ Here' = Here /\ Staged' = Staged
           /\ Declared' = Declared /\ BackedUp' = BackedUp
           /\ \A k \in Keys : Target(k)' = Target(k) /\ Halfway(k)' = Halfway(k)
  BY DEF vault, copies, Live, Consistent, Here, Staged, Declared, BackedUp, Target, Halfway

LEMMA ServingStep ==
    ASSUME Known, Good, mishaps = {}, [Next]_vars
    PROVE  Serving'
  <1>1. AtWork => daemon = "off"
    BY DEF Known, NoDaemonInv
  <1>2. Serving /\ ServerOK
    BY DEF Good, Known, TypeInv, TypeOK
  <1>3. CASE AtWork /\ ~DaemonBuilds
    BY <1>1, <1>3
    DEF Next, Forward, Again, Server, vars, server, Migrate, WriteFence, Guard, Prompt, Declare,
        MarkCommitting, BackUp, Unfence, CleanUp, CopyStart, Stage, MigrateAgain, DropPreflight,
        Resume, DeclineResume, AbortProbe, Restored, RemoveStaging, RemoveBackup, RemoveStaged,
        RemoveBackedUp, AbortStorage, TargetRemoved, Aborted, Kill, Throw, DaemonUp,
        DaemonStops, DaemonWrites, Apply, Finalise, Copy, Swap, Restore, RemoveTarget, Serving
  <1>4. CASE DaemonBuilds
    BY <1>4 DEF DaemonBuilds, Serving, vault, Live
  <1>5. CASE DaemonUp
    BY <1>2, <1>5 DEF DaemonUp, Serving, vault, Live, ServerOK
  <1>6. ASSUME NEW f \in Ids, DaemonWrites(f) PROVE Serving'
    <2>1. Live'[Json] = Live[Json]
      BY <1>6, MigrationAssumption DEF DaemonWrites, Live, Known, TypeInv, TypeOK, VaultOK, Directory, Items
    <2> QED
      BY <1>2, <1>6, <2>1 DEF DaemonWrites, Serving, server
  <1>7. CASE DaemonStops
    BY <1>7 DEF DaemonStops, Serving
  <1>8. CASE ~AtWork /\ UNCHANGED vault /\ UNCHANGED server
    BY <1>2, <1>8 DEF vault, server, Serving, Live
  <1> QED
    BY <1>3, <1>4, <1>5, <1>6, <1>7, <1>8
    DEF Next, Forward, Again, Server, vars, vault, server, AtWork, At, Migrate, WriteFence, Guard, Prompt, Declare,
        MarkCommitting, BackUp, Unfence, CleanUp, CopyStart, Stage, MigrateAgain, DropPreflight,
        Resume, DeclineResume, AbortProbe, Restored, RemoveStaging, RemoveBackup, RemoveStaged,
        RemoveBackedUp, AbortStorage, TargetRemoved, Aborted, Kill, Throw,
        Apply, Finalise, Copy, Swap, Restore, RemoveTarget

(* A command that ends, or moves on, and touches nothing.                   *)
LEMMA MovesOn ==
    ASSUME Known, Good, manifest' = manifest, UNCHANGED vault, UNCHANGED copies,
           pc' \in {"idle", "resume", "abort", "removeTarget"} \/ (pc' = "aborted" /\ ~Staged),
           ~(pc = "unfence" /\ plan.type = "storage"),
           ~(pc = "removeStaging" /\ manifest.phase = "committing")
    PROVE  Sound'
  <1>1. Settled'
    BY Frame DEF Good, Settled, vault, Live
  <1>2. CopyInv'
    <2>1. (pc = "unfence") => ~(Declared /\ manifest.type = "storage")
      BY DEF Known, PlanInv, Same
    <2> QED
      BY <2>1 DEF Good, CopyInv, vault, Live, Declared
  <1>3. ASSUME Staged PROVE \E k \in Keys : StagedFor(k)'
    <2>1. PICK k \in Keys : StagedFor(k)
      BY <1>3 DEF Good, CommitInv
    <2>2. (manifest.phase = "committing") => Halfway(k) \/ (staging = None /\ Consistent)
      <3>1. CASE pc \in {"removeStaging", "removeBackup", "aborted"}
        BY <2>1, <3>1, <1>3, Kinds DEF StagedFor, Good, Settled
      <3> QED
        BY <2>1, <3>1 DEF StagedFor
    <2>3. StagedFor(k)'
      BY <1>3, <2>1, <2>2, Frame DEF StagedFor, copies
    <2> QED
      BY <2>3
  <1> QED
    BY <1>1, <1>2, <1>3, Frame DEF Sound, CommitInv

(* The manifest goes, or is torn.                                           *)
LEMMA Undeclares ==
    ASSUME Known, Good, Consistent, ~Declared', UNCHANGED vault,
           pc' \in {"idle", "fence", "guard", "prompt", "cleanup"}
    PROVE  Sound'
  BY DEF Good, Sound, Settled, Consistent, CopyInv, CommitInv, Staged, vault, Live

LEMMA UndeclaredSound ==
    ASSUME Known, Good,
           \/ Migrate \/ WriteFence \/ Guard \/ DropPreflight \/ Unfence \/ CleanUp \/ Aborted
           \/ Prompt /\ Done
    PROVE  Sound'
  <1> USE DEF At, Goto, Done
  <1>1. /\ ~Declared' /\ UNCHANGED vault /\ pc' \in {"idle", "fence", "guard", "prompt", "cleanup"}
        /\ ~Staged \/ pc \in {"unfence", "aborted"}
    BY Basics, Kinds DEF Migrate, WriteFence, Guard, DropPreflight, Unfence, CleanUp, Aborted, Prompt,
       Declared, Staged, FenceInv, Known, PlanInv
  <1>2. Consistent
    BY <1>1 DEF Good, Settled
  <1> QED
    BY <1>1, <1>2, Undeclares

LEMMA MovesOnSound ==
    ASSUME Known, Good, MigrateAgain \/ DeclineResume \/ AbortStorage \/ TargetRemoved
    PROVE  Sound'
  <1> USE DEF At, Goto
  <1>1. /\ manifest' = manifest /\ UNCHANGED vault /\ UNCHANGED copies
        /\ pc' \in {"idle", "resume", "abort", "removeTarget"} \/ (pc' = "aborted" /\ ~Staged)
        /\ pc \notin {"unfence", "removeStaging"}
    BY Basics DEF MigrateAgain, DeclineResume, AbortStorage, TargetRemoved, Known, PlanInv, Staged, StageInv
  <1> QED
    BY <1>1, MovesOn

LEMMA InitGood == Init => Good
  <1> SUFFICES ASSUME Init PROVE Good
    OBVIOUS
  <1>1. PICK d \in Dims : dir = [p \in Places |->
                   IF p = config
                     THEN [f \in Items |-> IF f = Json THEN d ELSE [key |-> keychain, dim |-> d]]
                     ELSE Empty]
    BY DEF Init
  <1>2. Live = [f \in Items |-> IF f = Json THEN d ELSE [key |-> keychain, dim |-> d]]
    BY <1>1 DEF Init, Live
  <1>3. Live[Json] \in Dims /\ Consistent
    BY <1>2, MigrationAssumption DEF Consistent, Items
  <1>4. ~Declared
    BY Kinds DEF Init, Declared
  <1> QED
    BY <1>3, <1>4 DEF Init, Good, Settled, Serving, CopyInv, CommitInv, Staged

(* A failed command leaves the vault as it was, but for the three windows.  *)
LEMMA FailSound ==
    ASSUME Known, Good, mishaps = {}, mishaps' = {}, Kill \/ (Throw /\ pc # "copy")
    PROVE  Sound'
  <1>1. UNCHANGED vault /\ UNCHANGED copies /\ pc' = "idle"
    BY DEF Kill, Throw, vault, Done
  <1>2. CASE manifest' = manifest
    <2>1. ~(pc = "unfence" /\ plan.type = "storage")
      BY DEF Kill, Throw, Windows
    <2>2. pc = "removeStaging" => manifest.phase # "committing"
      BY DEF Kill, Throw, Windows, Known, PlanInv
    <2> QED
      BY <1>1, <1>2, <2>1, <2>2, MovesOn
  <1>3. CASE manifest' # manifest
    <2>1. manifest' \in {None, Torn} /\ (manifest = Preflight \/ Writing)
      BY <1>3 DEF Kill, Throw
    <2>2. ~Staged \/ manifest.phase = "staging"
      BY <2>1, Kinds, Basics DEF Writing, Known, PlanInv, At, Staged, Declared, FenceInv
    <2>3. Consistent
      BY <2>2 DEF Good, Settled
    <2> QED
      BY <1>1, <2>1, <2>3, Undeclares, Kinds DEF Declared
  <1> QED
    BY <1>2, <1>3

(***************************************************************************)
(* A move of the vault                                                      *)
(***************************************************************************)

LEMMA Moving ==
    ASSUME Known, Good, pc \in {"copyStart", "copy", "removeTarget"}
    PROVE  /\ Declared /\ ~Staged /\ Consistent /\ manifest.type = "storage" /\ plan.type = "storage"
           /\ plan.to = manifest.to /\ plan.to \in Places /\ plan.to # config
           /\ dir[plan.to] \in Directory
           /\ \A f \in Items : dir[plan.to][f] \in {None, Live[f]}
  <1>1. Declared /\ manifest.type = "storage" /\ plan.type = "storage" /\ plan.to = manifest.to
    BY Basics, ManifestOf DEF Known, PlanInv, StageInv, Same
  <1>2. plan.to \in Places
    BY <1>1, Kinds DEF Declared
  <1> QED
    BY <1>1, <1>2, Basics DEF Good, Settled, CopyInv, Staged, VaultOK

(* Files of the target are written or removed, and nothing else.            *)
LEMMA TargetOnly ==
    ASSUME Known, Good, pc \in {"copyStart", "copy", "removeTarget"},
           manifest' = manifest, config' = config, keychain' = keychain, UNCHANGED copies,
           NEW d, dir' = [dir EXCEPT ![plan.to] = d],
           \A f \in Items : d[f] \in {None, Live[f]},
           \/ pc' \in {"idle", "removeTarget"}
           \/ pc' = "copy" /\ plan' = plan /\ \A f \in Items \ todo' : d[f] = Live[f]
    PROVE  Sound'
  <1>1. /\ Declared /\ ~Staged /\ Consistent /\ manifest.type = "storage" /\ plan.type = "storage"
        /\ plan.to = manifest.to /\ plan.to \in Places /\ plan.to # config
    BY Moving
  <1>2. dir'[config] = dir[config] /\ dir'[plan.to] = d
    BY <1>1, Basics DEF VaultOK
  <1>3. Live' = Live /\ Consistent'
    BY <1>1, <1>2 DEF Live, Consistent
  <1>4. Settled'
    BY <1>3 DEF Good, Settled
  <1>5. CopyInv'
    BY <1>1, <1>2, <1>3 DEF CopyInv, Declared
  <1> QED
    BY <1>1, <1>4, <1>5 DEF Sound, CommitInv, Staged, Declared

LEMMA CopyStartSound ==
    ASSUME Known, Good, CopyStart
    PROVE  Sound'
  <1> USE DEF At, Goto, Done
  <1>1. CASE pc' = "idle"
    BY <1>1, MovesOn DEF CopyStart
  <1>2. CASE pc' # "idle"
    <2>1. /\ pc = "copyStart" /\ pc' = "copy" /\ todo' = Held(Live) \ Held(dir[plan.to]) /\ plan' = plan
          /\ manifest' = manifest /\ UNCHANGED vault /\ UNCHANGED copies
      BY <1>2 DEF CopyStart
    <2>2. \A f \in Items \ todo' : dir[plan.to][f] = Live[f]
      BY <2>1, Moving DEF Held
    <2>3. dir' = [dir EXCEPT ![plan.to] = dir[plan.to]]
      BY <2>1, Basics DEF vault, VaultOK
    <2> QED
      BY <2>1, <2>2, <2>3, Moving, TargetOnly DEF vault
  <1> QED
    BY <1>1, <1>2

LEMMA TargetFileSound ==
    ASSUME Known, Good, NEW f \in Items, Copy(f) \/ RemoveTarget(f)
    PROVE  Sound'
  <1> USE DEF At
  <1>m. /\ dir[plan.to] \in Directory /\ plan.to \in Places
        /\ \A g \in Items : dir[plan.to][g] \in {None, Live[g]}
        /\ pc \in {"copy", "removeTarget"}
    BY Moving DEF Copy, RemoveTarget
  <1>1. CASE Copy(f)
    <2> DEFINE d == [dir[plan.to] EXCEPT ![f] = Live[f]]
    <2>1. dir' = [dir EXCEPT ![plan.to] = d]
      BY <1>1 DEF Copy
    <2>2. \A g \in Items : d[g] = IF g = f THEN Live[f] ELSE dir[plan.to][g]
      BY <1>m DEF Directory
    <2>3. \A g \in Items \ todo : dir[plan.to][g] = Live[g]
      BY <1>1 DEF Copy, Good, CopyInv
    <2>4. /\ pc = "copy" /\ pc' = "copy" /\ plan' = plan /\ manifest' = manifest /\ config' = config
          /\ keychain' = keychain /\ UNCHANGED copies /\ todo' = todo \ {f}
      BY <1>1 DEF Copy
    <2> HIDE DEF d
    <2>5. /\ \A g \in Items : d[g] \in {None, Live[g]}
          /\ \A g \in Items \ todo' : d[g] = Live[g]
      BY <1>m, <2>2, <2>3, <2>4
    <2> QED
      BY <2>1, <2>4, <2>5, TargetOnly
  <1>2. CASE RemoveTarget(f)
    <2> DEFINE d == [dir[plan.to] EXCEPT ![f] = None]
    <2>1. dir' = [dir EXCEPT ![plan.to] = d]
      BY <1>2 DEF RemoveTarget
    <2>2. \A g \in Items : d[g] = IF g = f THEN None ELSE dir[plan.to][g]
      BY <1>m DEF Directory
    <2> HIDE DEF d
    <2> QED
      BY <1>2, <1>m, <2>1, <2>2, TargetOnly DEF RemoveTarget, command
  <1> QED
    BY <1>1, <1>2

LEMMA CopyFailSound ==
    ASSUME Known, Good, Throw, pc = "copy"
    PROVE  Sound'
  <1> DEFINE d == [f \in Items |-> IF f \in made THEN None ELSE dir[plan.to][f]]
  <1>1. manifest' = manifest /\ pc' = "idle"
    BY DEF Throw, InFence, Done
  <1>2. CASE todo = {}
    BY <1>1, <1>2, MovesOn DEF Throw, vault
  <1>3. CASE todo # {}
    <2>1. dir' = [dir EXCEPT ![plan.to] = d]
      BY <1>3 DEF Throw
    <2>2. \A f \in Items : d[f] \in {None, Live[f]}
      BY Moving
    <2> HIDE DEF d
    <2> QED
      BY <1>1, <2>1, <2>2, TargetOnly DEF Throw
  <1> QED
    BY <1>2, <1>3

LEMMA HereIsUniform ==
    ASSUME Known, Good, NEW d \in Directory, d[Json] = Live[Json], \A f \in Ids : d[f] = Here
    PROVE  Uniform(d)
  <1>1. d = [f \in Items |-> d[f]]
    BY DEF Directory
  <1>2. d = [f \in Items |-> IF f = Json THEN Here.dim ELSE Here]
    BY <1>1, Basics DEF Here
  <1> QED
    BY <1>2, Basics DEF Uniform

LEMMA SwapSound ==
    ASSUME Known, Good, mishaps = {}, Swap
    PROVE  Sound'
  <1> USE DEF At, Goto
  <1>1. /\ Declared /\ ~Staged /\ Consistent /\ manifest.type = "storage" /\ plan.type = "storage"
        /\ plan.to = manifest.to /\ plan.to \in Places /\ plan.to # config
    BY Moving DEF Swap
  <1>2. \A f \in Items : dir[plan.to][f] = Live[f]
    BY DEF Swap, Good, CopyInv
  <1>3. Live' = dir[plan.to] /\ Live'[Json] = Live[Json] /\ \A f \in Ids : Live'[f] = Live[f]
    BY <1>2 DEF Swap, Live, Items
  <1>4. Settled'
    BY <1>1, <1>3 DEF Swap, Good, Settled, Consistent
  <1>5. daemon = "off"
    BY NotNone DEF Known, NoDaemonInv, AtWork, Swap
  <1>6. Uniform(Live)
    BY <1>1, Basics, HereIsUniform
  <1>7. Spare'
    <2>1. PICK p \in Places : p = config
      BY Basics
    <2>2. SpareAt(p)'
      BY <1>1, <1>5, <1>6, <2>1 DEF Swap, SpareAt, Declared, server, Live, Uniform
    <2> QED
      BY <2>2 DEF SpareAt, Spare
  <1>8. CopyInv'
    BY <1>7 DEF Swap, CopyInv
  <1> QED
    BY <1>1, <1>4, <1>8 DEF Swap, Sound, CommitInv, Staged, Declared

(***************************************************************************)
(* A change of the key or of the embedder                                   *)
(***************************************************************************)

LEMMA Forms ==
    ASSUME Known, Good, Staged, NEW k \in Keys
    PROVE  /\ Target(k) \in Form /\ Target(k) # None /\ Here # None
           /\ manifest.type \in {"key", "embedder"} /\ manifest.phase \in {"staging", "committing"}
           /\ Target(k).key = keychain \/ Target(k).dim = Live[Json]
           /\ Target(k).key = Here.key /\ Target(k).dim = Here.dim => Target(k) = Here
  <1>1. manifest.type \in {"key", "embedder"} /\ manifest.phase \in {"staging", "committing"}
    BY Kinds DEF Staged, Declared, Phases
  <1> QED
    BY <1>1, Basics DEF Target, Here, Staged

LEMMA Together ==
    ASSUME Staged', Settled', NEW k \in Keys, StagedFor(k)', pc' # "copy",
           plan'.type = "storage" => pc' \notin {"declare", "unfence"}
    PROVE  Sound'
  BY Kinds DEF Sound, CopyInv, CommitInv, Staged, Declared

LEMMA PromptSound ==
    ASSUME Known, Good, Prompt
    PROVE  Sound'
  <1> USE DEF At, Goto
  <1>1. CASE Done
    BY <1>1, UndeclaredSound
  <1>2. CASE ~Done
    <2>1. manifest = Preflight /\ manifest' = manifest /\ UNCHANGED vault /\ pc' = "declare"
          /\ staging' = None /\ backup' = None
      BY <1>2 DEF Prompt, Known, PlanInv
    <2>2. ~Declared' /\ ~Declared /\ Consistent
      BY <2>1, Kinds DEF Declared, Staged, Good, Settled
    <2>3. plan'.type = "storage" => plan'.to # config /\ dir[plan'.to] = Empty
      BY <1>2 DEF Prompt, Targets
    <2>4. Settled'
      BY <2>1, <2>2 DEF Good, Settled, Consistent, vault, Live
    <2> QED
      BY <2>1, <2>2, <2>3, <2>4 DEF Sound, CopyInv, CommitInv, Staged, vault
  <1> QED
    BY <1>1, <1>2

LEMMA DeclareSound ==
    ASSUME Known, Good, Declare
    PROVE  Sound'
  <1> USE DEF At, Goto
  <1>1. /\ plan \in Aims /\ pc = "declare" /\ manifest' = Manifest(plan) /\ UNCHANGED vault
        /\ backup' = backup /\ plan' = plan /\ plan.phase = "staging"
    BY Basics DEF Declare, StageInv, Known, PlanInv
  <1>2. /\ Declared' /\ manifest'.type = plan.type /\ manifest'.phase = "staging"
        /\ manifest'.to = IF plan.type = "key" THEN None ELSE plan.to
    BY <1>1, ManifestOf DEF Declared
  <1>3. manifest = Preflight \/ (Staged /\ manifest.phase = "staging" /\ Same)
    BY <1>1 DEF Known, PlanInv
  <1>4. Consistent
    BY <1>3, Kinds DEF Good, Settled, Staged, Declared
  <1>5. Live' = Live /\ Consistent' /\ Settled' /\ Here' = Here
    BY <1>1, <1>4 DEF Good, Settled, Consistent, vault, Live, Here
  <1>6. CASE plan.type = "storage"
    <2>1. pc' = "copyStart" /\ plan.to # config /\ dir[plan.to] = Empty
      BY <1>1, <1>6 DEF Declare, Good, CopyInv
    <2>2. CopyInv'
      BY <1>1, <1>2, <1>6, <2>1 DEF CopyInv, Empty, vault
    <2> QED
      BY <1>2, <1>5, <1>6, <2>1, <2>2 DEF Sound, CommitInv, Staged
  <1>7. CASE plan.type # "storage"
    <2>1. pc' = "stage" /\ staging' = IF staging = None THEN Empty ELSE staging
      BY <1>7 DEF Declare
    <2>2. Staged'
      BY <1>2, <1>7 DEF Staged
    <2>3. CASE manifest = Preflight
      <3>1. staging = None /\ backup = None
        BY <1>1, <2>3 DEF Good, CommitInv
      <3>2. PICK k \in Keys : plan.type = "key" => plan.to = k
        BY <1>1, Basics, Kinds
      <3>3. StagedFor(k)'
        BY <1>1, <1>2, <2>1, <3>1, <3>2, Basics DEF StagedFor, Empty
      <3> QED
        BY <1>1, <1>5, <1>7, <2>1, <2>2, <3>3, Together
    <2>4. CASE Staged /\ manifest.phase = "staging" /\ Same
      <3>1. PICK k \in Keys : StagedFor(k)
        BY <2>4 DEF Good, CommitInv
      <3>2. Target(k)' = Target(k)
        BY <1>1, <1>2, <1>5, <2>4, Kinds, ManifestOf DEF Target, Same, vault
      <3>3. StagedFor(k)'
        BY <1>1, <1>2, <2>1, <2>4, <3>1, <3>2, Basics DEF StagedFor, Empty
      <3> QED
        BY <1>1, <1>5, <1>7, <2>1, <2>2, <3>3, Together
    <2> QED
      BY <1>3, <2>3, <2>4
  <1> QED
    BY <1>6, <1>7

(* What the running command stages is what the invariant names.             *)
LEMMA AimIs ==
    ASSUME Known, Good, Staged, pc \in {"stage", "backup", "apply"}, NEW k \in Keys, StagedFor(k)
    PROVE  /\ plan \in Aims /\ plan.type = manifest.type /\ plan.type # "storage"
           /\ plan.to = IF plan.type = "key" THEN k ELSE manifest.to
  <1>1. plan \in Aims /\ plan.type = manifest.type /\ manifest.to = Manifest(plan).to /\ plan.type # "storage"
    BY Basics DEF StageInv, Known, PlanInv, Same
  <1>2. plan.type # "key" => manifest.to = plan.to
    BY <1>1, ManifestOf
  <1> QED
    BY <1>1, <1>2 DEF StagedFor

LEMMA StageSound ==
    ASSUME Known, Good, NEW f \in Ids, Stage(f)
    PROVE  Sound'
  <1> USE DEF At
  <1>1. /\ pc = "stage" /\ Staged /\ manifest.phase = "staging" /\ staging \in Directory
        /\ manifest' = manifest /\ UNCHANGED vault /\ backup' = backup /\ pc' = pc /\ plan' = plan
        /\ todo' = todo /\ staging' = [staging EXCEPT ![f] = Transform(Live[f])]
    BY Basics DEF Stage, Known, PlanInv, StageInv, command
  <1>2. PICK k \in Keys : StagedFor(k)
    BY <1>1 DEF Good, CommitInv
  <1>3. Live[f] = Here
    BY <1>1, Basics DEF Good, Settled
  <1>4. Transform(Live[f]) = Target(k)
    BY <1>1, <1>2, <1>3, AimIs, Forms DEF Transform, Target, Here
  <1>5. Live' = Live /\ Staged' /\ Settled' /\ Target(k)' = Target(k)
    BY <1>1 DEF vault, Live, Staged, Declared, Good, Settled, Target, Consistent
  <1>6. staging'[Json] = staging[Json] /\ \A g \in Ids : staging'[g] = IF g = f THEN Target(k) ELSE staging[g]
    BY <1>1, <1>4, Basics DEF Directory
  <1>n. staging # None
    BY <1>1, NoneAssumption
  <1>7. StagedFor(k)'
    BY <1>1, <1>2, <1>5, <1>6, <1>n DEF StagedFor
  <1> QED
    BY <1>1, <1>2, <1>5, <1>7, AimIs, Together

LEMMA MarkCommittingSound ==
    ASSUME Known, Good, MarkCommitting
    PROVE  Sound'
  <1> USE DEF At, Goto
  <1> DEFINE q == [plan EXCEPT !.phase = "committing"]
  <1>1. /\ pc = "stage" /\ Staged /\ manifest.phase = "staging" /\ staging \in Directory
        /\ manifest' = Manifest(q) /\ UNCHANGED vault /\ UNCHANGED copies /\ pc' = "backup" /\ plan' = plan
        /\ Mems(Live) \subseteq Mems(staging)
    BY Basics DEF MarkCommitting, Known, PlanInv, StageInv
  <1>2. PICK k \in Keys : StagedFor(k)
    BY <1>1 DEF Good, CommitInv
  <1>3. /\ Manifest(q) \in Manifests /\ Manifest(q).type = manifest.type /\ Manifest(q).phase = "committing"
        /\ manifest.type # "key" => Manifest(q).to = manifest.to
    <2>1. plan \in Aims /\ plan.type # "storage" /\ plan.type = manifest.type
          /\ (plan.type # "key" => plan.to = manifest.to)
      BY <1>1, <1>2, AimIs
    <2>2. q \in Aims /\ q.type = plan.type /\ q.to = plan.to /\ q.phase = "committing"
      BY <2>1, CommitsTo
    <2> HIDE DEF q
    <2> QED
      BY <2>1, <2>2, ManifestOf
  <1> HIDE DEF q
  <1>4. Live' = Live /\ Here' = Here /\ Consistent
    BY <1>1 DEF vault, Live, Here, Good, Settled
  <1>5. Staged' /\ Target(k)' = Target(k) /\ Settled'
    BY <1>1, <1>3, <1>4 DEF Staged, Declared, Target, vault, Good, Settled
  <1>6. \A f \in Ids : Live[f] = Here /\ staging[f] = Target(k)
    <2>1. \A f \in Ids : Live[f] = Here /\ Live[f] # None
      BY <1>1, <1>4, Basics, Forms
    <2>2. \A f \in Ids : staging[f] # None
      BY <1>1, <2>1 DEF Mems
    <2>3. staging # None
      BY <1>1, NoneAssumption
    <2> QED
      BY <1>2, <2>1, <2>2, <2>3 DEF StagedFor
  <1>7. Halfway(k)'
    <2>1. staging' = staging /\ backup' = backup /\ staging # None /\ backup = None
      BY <1>1, <1>2, NoneAssumption DEF StagedFor, copies
    <2>2. Consistent'
      BY <1>1, <1>4 DEF Consistent, vault
    <2> QED
      BY <1>4, <1>5, <1>6, <2>1, <2>2 DEF Halfway
  <1>8. StagedFor(k)'
    BY <1>1, <1>2, <1>3, <1>5, <1>7 DEF StagedFor, copies
  <1> QED
    BY <1>1, <1>2, <1>5, <1>8, AimIs, Together

LEMMA BackUpSound ==
    ASSUME Known, Good, BackUp
    PROVE  Sound'
  <1> USE DEF At, Goto, Done
  <1>1. /\ pc = "backup" /\ Staged /\ manifest.phase = "committing"
        /\ manifest' = manifest /\ UNCHANGED vault /\ staging' = staging
    BY DEF BackUp, Known, PlanInv
  <1>2. PICK k \in Keys : StagedFor(k)
    BY <1>1 DEF Good, CommitInv
  <1>3. Live' = Live /\ Consistent' = Consistent /\ Here' = Here /\ Staged' /\ Target(k)' = Target(k)
    BY <1>1 DEF vault, Live, Consistent, Here, Staged, Declared, Target
  <1>4. backup' = (IF backup = None THEN Live ELSE backup) /\ Live # None /\ backup' # None
    BY Basics, NoneAssumption DEF BackUp
  <1>5. CASE staging = None
    <2>1. Consistent
      BY <1>1, <1>2, <1>5 DEF StagedFor, Halfway
    <2>2. pc' = "idle" /\ plan' = NoPlan
      BY <1>5 DEF BackUp
    <2>3. Settled'
      BY <1>3, <2>1 DEF Good, Settled
    <2>4. StagedFor(k)'
      BY <1>1, <1>2, <1>3, <1>5, <2>1, <2>2 DEF StagedFor
    <2> QED
      BY <1>3, <2>2, <2>3, <2>4, Together
  <1>6. CASE staging # None
    <2>1. pc' = "apply" /\ todo' = Held(staging) /\ plan' = plan
      BY <1>4, <1>6 DEF BackUp
    <2>2. Halfway(k)
      BY <1>1, <1>2, <1>6 DEF StagedFor
    <2>3. Settled'
      BY <1>1, <1>3, <2>1 DEF Good, Settled
    <2>4. todo' = Ids
      <3>1. staging[Json] = None /\ \A f \in Ids : staging[f] # None
        BY <1>1, <1>2, <1>6, <2>2, Forms DEF StagedFor, Halfway
      <3> QED
        BY <2>1, <3>1, Basics DEF Held
    <2>5. BackedUp' \/ \A f \in Ids : Live[f] = Here /\ Here = Target(k)
      <3>1. CASE backup = None
        BY <1>3, <1>4, <2>2, <3>1, Basics DEF BackedUp, Halfway
      <3>2. CASE backup # None
        BY <1>3, <1>4, <2>2, <3>2 DEF BackedUp, Halfway
      <3> QED
        BY <3>1, <3>2
    <2>6. Halfway(k)'
      BY <1>1, <1>3, <1>4, <2>2, <2>5 DEF Halfway
    <2>7. StagedFor(k)'
      BY <1>1, <1>2, <1>3, <1>4, <2>1, <2>4, <2>6 DEF StagedFor
    <2> QED
      BY <1>3, <2>1, <2>3, <2>7, Together
  <1> QED
    BY <1>5, <1>6

LEMMA Applying ==
    ASSUME Known, Good, pc = "apply"
    PROVE  /\ Staged /\ manifest.phase = "committing"
           /\ \E k \in Keys : StagedFor(k) /\ Halfway(k)
           /\ backup # None /\ todo \subseteq Ids
  BY DEF Known, PlanInv, Good, CommitInv, StagedFor

(* A file of the vault, not vault.json, is written.                         *)
LEMMA OneWritten ==
    ASSUME VaultOK, MigrationAssumption, NEW f \in Ids, NEW v, dir' = [dir EXCEPT ![config][f] = v],
           config' = config, keychain' = keychain, manifest' = manifest
    PROVE  /\ \A g \in Items : Live'[g] = IF g = f THEN v ELSE Live[g]
           /\ Live'[Json] = Live[Json] /\ Here' = Here /\ Staged' = Staged
           /\ \A k \in Keys : Target(k)' = Target(k)
  <1>1. \A g \in Items : Live'[g] = IF g = f THEN v ELSE Live[g]
    BY DEF VaultOK, Live, Directory, Items
  <1>2. Live'[Json] = Live[Json]
    BY <1>1, MigrationAssumption DEF Items
  <1> QED
    BY <1>1, <1>2 DEF Here, Target, Staged, Declared

LEMMA ApplySound ==
    ASSUME Known, Good, NEW f \in Items, Apply(f)
    PROVE  Sound'
  <1> USE DEF At
  <1>1. /\ pc = "apply" /\ pc' = pc /\ plan' = plan /\ manifest' = manifest /\ UNCHANGED copies
        /\ config' = config /\ keychain' = keychain /\ todo' = todo \ {f} /\ f \in todo
        /\ dir' = [dir EXCEPT ![config][f] = staging[f]]
    BY DEF Apply
  <1>2. Staged /\ manifest.phase = "committing" /\ backup # None /\ f \in Ids
    BY <1>1, Applying
  <1>3. PICK k \in Keys : StagedFor(k) /\ Halfway(k)
    BY <1>1, Applying
  <1>4. /\ \A g \in Items : Live'[g] = IF g = f THEN Target(k) ELSE Live[g]
        /\ Live'[Json] = Live[Json] /\ Here' = Here /\ Staged' /\ Target(k)' = Target(k)
    BY <1>1, <1>2, <1>3, OneWritten, Basics, MigrationAssumption DEF Halfway
  <1>5. Settled'
    BY <1>1, <1>2, <1>4 DEF Good, Settled
  <1>6. Halfway(k)'
    BY <1>1, <1>2, <1>3, <1>4 DEF Halfway, BackedUp, copies, Items
  <1>7. \A g \in Ids \ todo' : Live'[g] = Target(k)
    BY <1>1, <1>3, <1>4 DEF StagedFor, Items
  <1>8. StagedFor(k)'
    BY <1>1, <1>2, <1>3, <1>4, <1>6, <1>7 DEF StagedFor, copies
  <1> QED
    BY <1>1, <1>4, <1>5, <1>8, <1>2, AimIs, Together, <1>3

LEMMA FinaliseSound ==
    ASSUME Known, Good, Finalise
    PROVE  Sound'
  <1> USE DEF At, Goto
  <1>1. /\ pc = "apply" /\ pc' = "unfence" /\ plan' = plan /\ manifest' = manifest /\ UNCHANGED copies
        /\ config' = config /\ todo = {}
    BY DEF Finalise
  <1>2. Staged /\ manifest.phase = "committing" /\ backup # None
    BY <1>1, Applying
  <1>3. PICK k \in Keys : StagedFor(k) /\ Halfway(k)
    BY <1>1, Applying
  <1>4. /\ plan.type = manifest.type /\ plan.type # "storage" /\ plan \in Aims
        /\ plan.to = IF plan.type = "key" THEN k ELSE manifest.to
    BY <1>1, <1>2, <1>3, AimIs
  <1>5. \A f \in Ids : Live[f] = Target(k)
    BY <1>1, <1>3 DEF StagedFor
  <1>6. /\ Staged' /\ \A f \in Ids : Live'[f] = Live[f]
        /\ Live'[Json] = (IF plan.type = "key" THEN Live[Json] ELSE plan.to)
        /\ keychain' = (IF plan.type = "key" THEN plan.to ELSE keychain)
    BY <1>1, <1>2, Basics DEF Finalise, Live, VaultOK, Directory, Staged, Declared, Items
  <1>7. Here' = Target(k) /\ Target(k)' = Target(k) /\ Live'[Json] \in Dims
    BY <1>1, <1>2, <1>4, <1>6, Basics, Kinds DEF Here, Target
  <1>8. Consistent' /\ Settled'
    BY <1>5, <1>6, <1>7 DEF Consistent, Here, Settled
  <1>9. Halfway(k)'
    BY <1>1, <1>2, <1>3, <1>5, <1>6, <1>7 DEF Halfway, copies
  <1>10. StagedFor(k)'
    BY <1>1, <1>2, <1>3, <1>7, <1>9 DEF StagedFor, copies
  <1> QED
    BY <1>1, <1>4, <1>6, <1>8, <1>10, Together

LEMMA ResumeSound ==
    ASSUME Known, Good, Resume
    PROVE  Sound'
  <1> USE DEF At, Goto, Done
  <1>1. /\ pc = "resume" /\ manifest' = manifest /\ UNCHANGED vault /\ UNCHANGED copies
        /\ manifest \in Manifests
    BY Basics, Kinds DEF Resume, FenceInv
  <1>2. CASE pc' = "idle"
    BY <1>1, <1>2, MovesOn
  <1>3. CASE pc' # "idle"
    <2>1. PICK to \in (IF manifest.type = "key" THEN Keys ELSE {manifest.to}) :
             /\ ~(manifest.type = "key" /\ ~Matches(to))
             /\ plan' = [manifest EXCEPT !.to = to]
             /\ IF manifest.type = "storage" THEN pc' = "copyStart"
                ELSE IF manifest.phase = "staging" THEN pc' = "declare" ELSE pc' = "backup"
      BY <1>3 DEF Resume
    <2>2. /\ plan'.type = manifest.type /\ plan'.to = to
      BY <1>1, <2>1, Resumed
    <2>3. Settled'
      BY <1>1, <2>1, Frame DEF Good, Settled, vault, Live
    <2>4. CASE manifest.type = "storage"
      <3>1. pc' = "copyStart"
        BY <2>1, <2>4
      <3>2. CopyInv'
        BY <1>1, <3>1 DEF Good, CopyInv, Declared, vault, Live
      <3> QED
        BY <1>1, <2>3, <2>4, <3>1, <3>2 DEF Sound, CommitInv, Staged
    <2>5. CASE manifest.type # "storage"
      <3>1. Staged /\ pc' \in {"declare", "backup"}
        BY <1>1, <2>1, <2>5 DEF Staged, Declared
      <3>2. PICK k \in Keys : StagedFor(k)
        BY <3>1 DEF Good, CommitInv
      <3>3. manifest.phase = "committing" => Halfway(k) \/ (staging = None /\ Consistent)
        BY <1>1, <3>2 DEF StagedFor
      <3>4. CASE manifest.type = "key" /\ (staging = None \/ Mems(staging) = {})
        <4>1. to \in Keys
          BY <2>1, <3>4
        <4>2. staging # None => staging[Json] = None /\ \A f \in Ids : staging[f] = None
          BY <3>2, <3>4 DEF StagedFor, Mems
        <4>3. manifest.phase = "committing" => Halfway(to) \/ (staging = None /\ Consistent)
          <5>1. Halfway(k) => Ids = {} /\ staging # None
            BY <3>1, <4>2, Forms DEF Halfway
          <5>2. Ids = {} => Consistent
            BY DEF Consistent
          <5> QED
            BY <3>3, <5>1, <5>2 DEF Halfway
        <4>4. StagedFor(to)'
          BY <1>1, <2>2, <3>1, <3>2, <4>1, <4>2, <4>3, Frame DEF StagedFor, copies
        <4> QED
          BY <1>1, <2>2, <2>3, <2>5, <3>1, <4>1, <4>4, Frame, Together
      <3>5. CASE ~(manifest.type = "key" /\ (staging = None \/ Mems(staging) = {}))
        <4>1. manifest.type = "key" => to = k
          <5>1. SUFFICES ASSUME manifest.type = "key" PROVE to = k
            OBVIOUS
          <5>2. PICK f \in Mems(staging) : staging[f].key = to
            BY <2>1, <3>5, <5>1 DEF Matches
          <5>3. staging[f] = Target(k)
            BY <3>2, <3>5, <5>1, <5>2 DEF StagedFor, Mems
          <5> QED
            BY <5>1, <5>2, <5>3 DEF Target
        <4>2. StagedFor(k)'
          BY <1>1, <2>2, <3>1, <3>2, <3>3, <4>1, Frame DEF StagedFor, copies
        <4> QED
          BY <1>1, <2>2, <2>3, <2>5, <3>1, <4>2, Frame, Together
      <3> QED
        BY <3>4, <3>5
    <2> QED
      BY <2>4, <2>5
  <1> QED
    BY <1>2, <1>3

(***************************************************************************)
(* Abort                                                                    *)
(***************************************************************************)

(* The probes tell a readable vault from one in two forms.                  *)
LEMMA ProbesSee ==
    ASSUME Known, Good, Staged, pc = "abort",
           IF manifest.type = "key" THEN KeyFits ELSE DimFits
    PROVE  Consistent
  <1>1. CASE manifest.phase = "staging"
    BY <1>1 DEF Good, Settled
  <1>2. CASE manifest.phase # "staging"
    <2>1. PICK k \in Keys : StagedFor(k)
      BY DEF Good, CommitInv
    <2>2. Halfway(k) \/ Consistent
      BY <1>2, <2>1, Forms DEF StagedFor
    <2>3. ASSUME Halfway(k), NEW f \in Ids PROVE Live[f] = Here
      <3>1. Live[f] \in {Here, Target(k)} /\ Live[f] # None
        BY <2>1, <2>3, Forms DEF Halfway
      <3>2. f \in Mems(Live)
        BY <3>1 DEF Mems
      <3> QED
        BY <3>1, <3>2, Forms DEF KeyFits, DimFits, Target, Here
    <2> QED
      BY <2>2, <2>3, Basics
  <1> QED
    BY <1>1, <1>2

LEMMA AbortProbeSound ==
    ASSUME Known, Good, AbortProbe
    PROVE  Sound'
  <1> USE DEF At, Goto, Done
  <1>1. /\ pc = "abort" /\ manifest' = manifest /\ UNCHANGED vault /\ UNCHANGED copies
        /\ Staged /\ Staged'
    BY Basics, Kinds DEF AbortProbe, Staged, Declared, FenceInv
  <1>2. PICK k \in Keys : StagedFor(k)
    BY <1>1 DEF Good, CommitInv
  <1>3. CASE pc' = "idle"
    BY <1>1, <1>3, MovesOn
  <1>4. CASE pc' = "removeStaging"
    <2>1. plan' = manifest /\ IF manifest.type = "key" THEN KeyFits ELSE DimFits
      BY <1>4 DEF AbortProbe
    <2>2. Consistent
      BY <1>1, <2>1, ProbesSee
    <2>3. Settled'
      BY <1>1, <2>2, Frame DEF Good, Settled, vault, Live
    <2>4. StagedFor(k)'
      BY <1>1, <1>2, <1>4, Frame DEF StagedFor, copies
    <2> QED
      BY <1>1, <1>4, <2>3, <2>4, Frame, Together
  <1>5. CASE pc' = "restore"
    <2>1. /\ plan' = manifest /\ backup # None /\ todo' = Held(backup)
          /\ ~((IF manifest.type = "key" THEN KeyFits ELSE DimFits) /\ Covers)
      BY <1>5 DEF AbortProbe
    <2>2. ~Consistent
      <3>1. SUFFICES ASSUME Consistent PROVE FALSE
        OBVIOUS
      <3>2. \A f \in Ids : Live[f] = Here /\ Live[f] # None
        BY <1>1, <3>1, Basics, Forms
      <3>3. KeyFits /\ DimFits
        BY <3>2 DEF KeyFits, DimFits, Here, Mems
      <3>4. Covers
        BY <3>2 DEF Covers, Mems
      <3> QED
        BY <2>1, <3>3, <3>4
    <2>3. manifest.phase = "committing"
      BY <1>1, <1>2, <2>2, Forms DEF Good, Settled
    <2>4. Halfway(k)
      BY <1>1, <1>2, <2>2, <2>3 DEF StagedFor
    <2>5. BackedUp
      BY <2>1, <2>2, <2>4, Basics DEF Halfway
    <2>6. todo' = Items
      BY <1>1, <1>2, <2>1, <2>5, Basics, Forms DEF Held, BackedUp
    <2>7. Settled'
      BY <1>1, <1>5, <2>3, Frame DEF Good, Settled, vault, Live
    <2>8. StagedFor(k)'
      BY <1>1, <1>2, <1>5, <2>3, <2>4, <2>5, <2>6, Frame, Basics DEF StagedFor, copies
    <2> QED
      BY <1>1, <1>5, <2>7, <2>8, Frame, Together
  <1> QED
    BY <1>3, <1>4, <1>5 DEF AbortProbe

LEMMA RestoreSound ==
    ASSUME Known, Good, NEW f \in Items, Restore(f)
    PROVE  Sound'
  <1> USE DEF At
  <1>1. /\ pc = "restore" /\ pc' = pc /\ plan' = plan /\ manifest' = manifest /\ UNCHANGED copies
        /\ config' = config /\ keychain' = keychain /\ todo' = todo \ {f}
        /\ dir' = [dir EXCEPT ![config][f] = backup[f]] /\ Staged
    BY DEF Restore, Known, PlanInv
  <1>2. PICK k \in Keys : StagedFor(k)
    BY <1>1 DEF Good, CommitInv
  <1>3. Halfway(k) /\ BackedUp /\ manifest.phase = "committing"
    BY <1>1, <1>2 DEF StagedFor
  <1>4. /\ \A g \in Items : Live'[g] = IF g = f THEN backup[f] ELSE Live[g]
        /\ Live'[Json] = Live[Json]
    BY <1>1, <1>3, Basics DEF VaultOK, Live, Directory, BackedUp, Items
  <1>5. Here' = Here /\ Staged' /\ Target(k)' = Target(k)
    BY <1>1, <1>4 DEF Here, Staged, Declared, Target
  <1>6. \A g \in Ids : Live'[g] = IF g = f THEN Here ELSE Live[g]
    BY <1>3, <1>4, Basics DEF BackedUp
  <1>7. Settled'
    BY <1>1, <1>3, <1>4, <1>5 DEF Good, Settled
  <1>8. BackedUp' /\ Halfway(k)'
    BY <1>1, <1>3, <1>4, <1>5, <1>6 DEF Halfway, BackedUp, copies
  <1>9. \A g \in Ids \ todo' : Live'[g] = Here
    BY <1>1, <1>2, <1>6 DEF StagedFor
  <1>10. StagedFor(k)'
    BY <1>1, <1>2, <1>3, <1>5, <1>8, <1>9 DEF StagedFor, copies
  <1> QED
    BY <1>1, <1>5, <1>7, <1>10, Together

LEMMA RestoredSound ==
    ASSUME Known, Good, Restored
    PROVE  Sound'
  <1> USE DEF At, Goto
  <1>1. /\ pc = "restore" /\ pc' = "removeStaging" /\ todo = {} /\ manifest' = manifest
        /\ UNCHANGED vault /\ UNCHANGED copies /\ Staged /\ Staged'
    BY DEF Restored, Known, PlanInv, Staged, Declared
  <1>2. PICK k \in Keys : StagedFor(k)
    BY <1>1 DEF Good, CommitInv
  <1>3. Consistent
    BY <1>1, <1>2, Basics DEF StagedFor
  <1>4. Settled'
    BY <1>1, <1>3, Frame DEF Good, Settled, vault, Live
  <1>5. StagedFor(k)'
    BY <1>1, <1>2, Frame DEF StagedFor, copies
  <1> QED
    BY <1>1, <1>4, <1>5, Frame, Together

(* The copies of a vault that is readable are removed.                      *)
LEMMA RemovalSound ==
    ASSUME Known, Good,
           \/ RemoveStaging \/ RemoveBackup
           \/ \E f \in Items : RemoveStaged(f) \/ RemoveBackedUp(f)
    PROVE  Sound'
  <1> USE DEF At, Goto
  <1>1. /\ pc \in {"removeStaging", "removeBackup"} /\ Staged /\ Consistent
        /\ pc' \in {"removeStaging", "removeBackup", "aborted"}
        /\ manifest' = manifest /\ UNCHANGED vault
    BY DEF RemoveStaging, RemoveBackup, RemoveStaged, RemoveBackedUp, command, Known, PlanInv, Good, Settled
  <1>2. PICK k \in Keys : StagedFor(k)
    BY <1>1 DEF Good, CommitInv
  <1>3. Live' = Live /\ Staged' /\ Target(k)' = Target(k) /\ Settled'
    BY <1>1 DEF vault, Live, Staged, Declared, Target, Good, Settled, Consistent
  <1>4. /\ staging' # None => staging'[Json] = None /\ \A f \in Ids : staging'[f] \in {None, Target(k)}
        /\ backup = None => backup' = None
        /\ pc' \in {"removeBackup", "aborted"} => staging' = None
    <2>1. CASE RemoveStaging
      BY <2>1 DEF RemoveStaging
    <2>2. CASE RemoveBackup
      BY <1>2, <2>2 DEF RemoveBackup, StagedFor
    <2>3. ASSUME NEW f \in Items, RemoveStaged(f)
          PROVE  /\ staging'[Json] = None /\ \A g \in Ids : staging'[g] \in {None, Target(k)}
                 /\ backup' = backup /\ pc' = "removeStaging"
      BY <1>2, <2>3, Basics DEF RemoveStaged, StagedFor, CopiesOK, Directory, command
    <2>4. ASSUME NEW f \in Items, RemoveBackedUp(f)
          PROVE  staging' = staging /\ backup # None /\ pc' = pc /\ pc = "removeBackup"
      BY <2>4 DEF RemoveBackedUp, command
    <2> QED
      BY <1>2, <2>1, <2>2, <2>3, <2>4 DEF StagedFor
  <1>5. StagedFor(k)'
    BY <1>1, <1>2, <1>3, <1>4 DEF StagedFor
  <1> QED
    BY <1>1, <1>3, <1>5, Together

(***************************************************************************)
(* The daemon                                                               *)
(***************************************************************************)

LEMMA IdleSound ==
    ASSUME Known, Good, [Next]_vars,
           manifest' = manifest, UNCHANGED vault, UNCHANGED copies, UNCHANGED command
    PROVE  Sound'
  <1>1. pc' = pc /\ plan' = plan /\ todo' = todo
    BY DEF command
  <1>2. Settled'
    BY <1>1, Frame DEF Good, Settled, vault, Live
  <1>3. Spare => Spare'
    <2>1. SUFFICES ASSUME NEW p \in Places, SpareAt(p) PROVE SpareAt(p)'
      BY DEF Spare, SpareAt
    <2> QED
      BY <2>1, NextSpare DEF Known
  <1>4. CopyInv'
    BY <1>1, <1>3 DEF Good, CopyInv, Declared, vault, Live
  <1>5. CommitInv'
    <2>1. ASSUME NEW k \in Keys, StagedFor(k) PROVE StagedFor(k)'
      BY <1>1, <2>1, Frame DEF StagedFor, copies
    <2> QED
      BY <1>1, <2>1, Frame DEF Good, CommitInv, copies
  <1> QED
    BY <1>2, <1>4, <1>5 DEF Sound

LEMMA DaemonWritesSound ==
    ASSUME Known, Good, mishaps = {}, NEW f \in Ids, DaemonWrites(f)
    PROVE  Sound'
  <1>1. /\ manifest' = manifest /\ pc' = pc /\ config' = config /\ keychain' = keychain
        /\ dir' = [dir EXCEPT ![config][f] = Here]
    BY DEF DaemonWrites, command, Good, Serving, Here
  <1>2. ~AtWork
    BY DEF DaemonWrites, Known, NoDaemonInv
  <1>3. ~Declared /\ ~Declared' /\ pc' \in {"idle", "fence", "guard", "cleanup"}
    BY <1>1, <1>2, Kinds DEF AtWork, Declared
  <1>4. Live'[Json] = Live[Json] /\ Here' = Here /\ \A g \in Ids : Live'[g] = Here
    BY <1>1, <1>3, OneWritten, Basics, MigrationAssumption DEF Good, Settled, Staged
  <1>5. Settled'
    BY <1>4, Basics DEF Settled, Consistent, Here
  <1> QED
    BY <1>3, <1>5 DEF Sound, CopyInv, CommitInv, Staged

(***************************************************************************)
(* Every step                                                               *)
(***************************************************************************)

LEMMA NextGood ==
    ASSUME Known, Good, mishaps = {}, mishaps' = {}, [Next]_vars
    PROVE  Good'
  <1>1. Sound'
    <2>1. CASE \/ Migrate \/ WriteFence \/ Guard \/ DropPreflight \/ Unfence \/ CleanUp \/ Aborted
      BY <2>1, UndeclaredSound
    <2>2. CASE MigrateAgain \/ DeclineResume \/ AbortStorage \/ TargetRemoved
      BY <2>2, MovesOnSound
    <2>3. CASE Kill \/ Throw
      BY <2>3, FailSound, CopyFailSound
    <2>4. CASE CopyStart \/ Swap \/ \E f \in Items : Copy(f) \/ RemoveTarget(f)
      BY <2>4, CopyStartSound, SwapSound, TargetFileSound
    <2>5. CASE Prompt \/ Declare \/ MarkCommitting \/ \E f \in Ids : Stage(f)
      BY <2>5, PromptSound, DeclareSound, MarkCommittingSound, StageSound
    <2>6. CASE BackUp \/ Finalise \/ \E f \in Items : Apply(f)
      BY <2>6, BackUpSound, FinaliseSound, ApplySound
    <2>7. CASE Resume \/ AbortProbe \/ Restored \/ \E f \in Items : Restore(f)
      BY <2>7, ResumeSound, AbortProbeSound, RestoredSound, RestoreSound
    <2>8. CASE \/ RemoveStaging \/ RemoveBackup
               \/ \E f \in Items : RemoveStaged(f) \/ RemoveBackedUp(f)
      BY <2>8, RemovalSound
    <2>9. CASE DaemonBuilds \/ DaemonUp \/ DaemonStops \/ UNCHANGED vars
      <3>1. manifest' = manifest /\ UNCHANGED vault /\ UNCHANGED copies /\ UNCHANGED command
        BY <2>9 DEF DaemonBuilds, DaemonUp, DaemonStops, vars
      <3> QED
        BY <3>1, IdleSound
    <2>10. CASE \E f \in Ids : DaemonWrites(f)
      BY <2>10, DaemonWritesSound
    <2> QED
      BY <2>1, <2>2, <2>3, <2>4, <2>5, <2>6, <2>7, <2>8, <2>9, <2>10 DEF Next, Forward, Again, Server
  <1> QED
    BY <1>1, ServingStep DEF Good, Sound

(* What went wrong is not forgotten, and where a move was cut off the old   *)
(* place still has the vault.                                               *)
LEMMA MishapStep ==
    ASSUME TypeInv, [Next]_vars
    PROVE  /\ mishaps \subseteq mishaps'
           /\ "swapCut" \in mishaps' \ mishaps => pc = "unfence" /\ plan.type = "storage"
  <1>1. CASE Kill \/ Throw
    BY <1>1 DEF Kill, Throw, Windows
  <1>2. CASE Guard \/ MigrateAgain
    BY <1>2 DEF Guard, MigrateAgain, NoServer
  <1>3. CASE mishaps' = mishaps
    BY <1>3
  <1> QED
    BY <1>1, <1>2, <1>3
    DEF Next, Forward, Again, Server, vars, server, Migrate, WriteFence, Prompt, Declare,
        MarkCommitting, BackUp, Unfence, CleanUp, CopyStart, Stage, DropPreflight,
        Resume, DeclineResume, AbortProbe, Restored, RemoveStaging, RemoveBackup, RemoveStaged,
        RemoveBackedUp, AbortStorage, TargetRemoved, Aborted, DaemonBuilds, DaemonUp,
        DaemonStops, DaemonWrites, Apply, Finalise, Copy, Swap, Restore, RemoveTarget

LEMMA NextInv == IInv /\ [Next]_vars => IInv'
  <1> SUFFICES ASSUME IInv, [Next]_vars PROVE IInv'
    OBVIOUS
  <1>k. Known /\ TypeInv /\ PlanInv
    BY DEF IInv, Known
  <1>1. Known'
    BY <1>k, NextTyped, NextNoDaemon, NextPlan DEF Known, TypeInv, TypeOK
  <1>2. mishaps' = {} => Good'
    BY <1>k, MishapStep, NextGood DEF IInv
  <1>3. ASSUME mishaps' = {"swapCut"} PROVE Spare'
    <2>1. mishaps = {} \/ mishaps = {"swapCut"}
      BY <1>k, <1>3, MishapStep
    <2>2. mishaps = {} => pc = "unfence" /\ plan.type = "storage"
      BY <1>k, <1>3, MishapStep
    <2>3. Spare
      BY <2>1, <2>2 DEF IInv, Good, CopyInv
    <2>4. PICK p \in Places : SpareAt(p)
      BY <2>3 DEF Spare, SpareAt
    <2>5. SpareAt(p)'
      BY <1>k, <2>4, NextSpare
    <2> QED
      BY <2>5 DEF Spare, SpareAt
  <1> QED
    BY <1>1, <1>2, <1>3 DEF IInv

LEMMA InitInv == Init => IInv
  <1> SUFFICES ASSUME Init PROVE IInv
    OBVIOUS
  <1>1. TypeInv /\ Good
    BY InitTyped, InitGood
  <1>2. NoDaemonInv /\ PlanInv /\ mishaps = {}
    BY DEF Init, NoDaemonInv, PlanInv
  <1> QED
    BY <1>1, <1>2 DEF IInv, Known

(* A vault without a manifest is readable (migrate.ts: "manifest absent     *)
(* implies vault consistent"), however many migrations, resumes and aborts  *)
(* were killed or failed before, unless one of the three windows was hit.   *)
THEOREM UnfencedMeansReadableAlways == Spec => []UnfencedMeansReadable
  <1>1. IInv => UnfencedMeansReadable
    BY Kinds DEF IInv, Good, Settled, Staged, Declared, UnfencedMeansReadable
  <1> QED
    BY InitInv, NextInv, <1>1, PTL DEF Spec

(* At every moment the mementos exist whole, in one form: in the vault, in  *)
(* the backup of the migration, or, where a move was cut off, in the old    *)
(* place.                                                                   *)
THEOREM RecoverableAlways == Spec => []Recoverable
  <1>1. ASSUME Known, Good PROVE Uniform(Live) \/ (backup # None /\ Uniform(backup))
    <2>1. CASE Consistent
      BY <1>1, <2>1, Basics, HereIsUniform
    <2>2. CASE ~Consistent
      <3>1. /\ Staged /\ manifest.phase # "staging"
            /\ pc \notin {"removeStaging", "removeBackup", "aborted"}
        BY <1>1, <2>2 DEF Good, Settled
      <3>2. PICK k \in Keys : StagedFor(k)
        BY <1>1, <3>1 DEF Good, CommitInv
      <3>3. Halfway(k)
        BY <1>1, <2>2, <3>1, <3>2, Forms DEF StagedFor
      <3>4. backup # None /\ BackedUp
        BY <1>1, <2>2, <3>3, Basics DEF Halfway
      <3> QED
        BY <1>1, <3>4, Basics, HereIsUniform DEF CopiesOK, BackedUp
    <2> QED
      BY <2>1, <2>2
  <1>2. IInv => Recoverable
    <2> SUFFICES ASSUME IInv, mishaps \cap {"late", "abortCut"} = {}
                 PROVE  \/ Uniform(Live)
                        \/ backup # None /\ Uniform(backup)
                        \/ "swapCut" \in mishaps /\ \E p \in Places : Uniform(dir[p])
      BY DEF Recoverable
    <2>1. mishaps = {} \/ mishaps = {"swapCut"}
      BY DEF IInv, Known, TypeInv, TypeOK
    <2>2. CASE mishaps = {}
      BY <1>1, <2>2 DEF IInv
    <2>3. CASE mishaps = {"swapCut"}
      BY <2>3 DEF IInv, Spare
    <2> QED
      BY <2>1, <2>2, <2>3
  <1> QED
    BY InitInv, NextInv, <1>2, PTL DEF Spec

=============================================================================
