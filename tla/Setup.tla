------------------------------- MODULE Setup --------------------------------
(***************************************************************************)
(* Setting a machine up and taking it down: init (new, --reinit, join),     *)
(* destroy, backup and restore, doctor, the two key providers, and the      *)
(* daemon that a hook may start between any two steps of them               *)
(* (cli/commands/init.ts, destroy.ts, backup.ts, doctor.ts, keys/,          *)
(* core/config.ts, cli/_utils/vault.ts).                                    *)
(*                                                                          *)
(* Several machines share places where vaults are kept: directories, and    *)
(* git remotes each machine clones.  A memento is reduced to the key it is  *)
(* encrypted under and the embedder of its vectors.  On one machine one     *)
(* command runs at a time; machines run theirs at the same time.  What a    *)
(* migration of the key does is taken as one step, see Migration.           *)
(***************************************************************************)
EXTENDS Naturals, FiniteSets

CONSTANTS
    Machines, Embedders, None,
    Places,        \* where a vault can be kept
    Remotes,       \* those of them that are git remotes
    MaxKeys,       \* bound: keys drawn
    MaxCommands    \* bound: commands run on all machines together

ASSUME SetupAssumption ==
    /\ Remotes \subseteq Places /\ None \notin Places \cup Embedders
    /\ MaxKeys \in Nat /\ MaxCommands \in Nat

Keys      == 1..MaxKeys
NoKey     == 0
Providers == {"keychain", "env"}
Mementos  == [key : Keys, emb : Embedders]

VARIABLES
    json,      \* place: the embedder vault.json names
    mems,      \* place: its mementos
    clones,    \* machine: the remotes it has a clone of
    config,    \* machine: the place and key provider of config.json
    entry,     \* machine: the key in the OS keychain
    file,      \* machine: the key in the fallback file
    env,       \* machine: the key in the environment
    up,        \* machine: does its keychain work?
    fence,     \* machine: the preflight manifest is there
    daemon,    \* machine: what the running daemon holds
    cmd,       \* machine: the command at work
    backup,    \* the files of a backup somebody took
    latest,    \* history, machine: the key it stored or kept last
    drawn,     \* keys drawn so far
    mishaps,   \* history: windows that were hit, see Properties
    spent      \* commands so far

places  == <<json, mems, backup>>
keyring == <<entry, file, env, latest, drawn>>
vars    == <<places, clones, config, keyring, up, fence, daemon, cmd, mishaps, spent>>

Idle == [op |-> "none", at |-> "idle", had |-> None, place |-> None, provider |-> None,
         emb |-> None, key |-> NoKey, blind |-> FALSE]

To(m, stage)  == cmd' = [cmd EXCEPT ![m].at = stage]
Sets(m, r)    == cmd' = [cmd EXCEPT ![m] = r]
Hit(names)    == mishaps' = mishaps \cup names
Flagged(c, n) == IF c THEN {n} ELSE {}

(* A command ends by process.exit, which runs no finally, or by returning   *)
(* or throwing, which lowers the fence.                                     *)
Exits(m)   == Sets(m, Idle) /\ UNCHANGED <<fence, mishaps>>
Returns(m) == Sets(m, Idle) /\ fence' = [fence EXCEPT ![m] = FALSE] /\ UNCHANGED mishaps

(***************************************************************************)
(* The key providers.                                                       *)
(***************************************************************************)

(* getMnemonic: the keychain first, then the file.                          *)
Found(m)   == CASE up[m] /\ entry[m] # NoKey -> entry[m] [] OTHER -> file[m]
Broken(m)  == ~up[m] /\ file[m] = NoKey

Read(m, v)       == IF v = "env" THEN env[m] ELSE Found(m)
Unreachable(m, v) == v = "keychain" /\ Broken(m)

IsConfigured(m, v) == Read(m, v) # NoKey \/ Unreachable(m, v)

(* storeEntropy: keychain, or the file if the user allows; for env the user *)
(* is told to set the variable, and does.                                   *)
StoreEntropy(m, v, k) ==
    /\ latest' = [latest EXCEPT ![m] = k]
    /\ CASE v = "env"              -> env' = [env EXCEPT ![m] = k] /\ UNCHANGED <<entry, file>>
         [] v = "keychain" /\ up[m]  -> entry' = [entry EXCEPT ![m] = k] /\ UNCHANGED <<file, env>>
         [] v = "keychain" /\ ~up[m] -> file' = [file EXCEPT ![m] = k] /\ UNCHANGED <<entry, env>>

(* clearStoredKey: a keychain that is down keeps its entry.                 *)
ClearStoredKey(m, v) ==
    /\ IF v = "env"
         THEN env' \in {env, [env EXCEPT ![m] = NoKey]} /\ UNCHANGED <<entry, file>>
         ELSE /\ entry' = IF up[m] THEN [entry EXCEPT ![m] = NoKey] ELSE entry
              /\ file' = [file EXCEPT ![m] = NoKey] /\ UNCHANGED env
    /\ UNCHANGED <<latest, drawn>>

Opens(k, p) == \E x \in mems[p] : x.key = k

(***************************************************************************)
(* init                                                                     *)
(***************************************************************************)

Begin(m) ==
    /\ cmd[m].op = "none" /\ spent < MaxCommands
    /\ spent' = spent + 1

(* The guard, which sees a daemon that is up; then the configuration is     *)
(* read: without one the user chooses, with one only --reinit goes on.      *)
InitBegins(m) ==
    /\ Begin(m) /\ daemon[m] = None
    /\ IF config[m] = None
         THEN \E op \in {"new", "join"} : Sets(m, [Idle EXCEPT !.op = op, !.at = "wizard"])
         ELSE Sets(m, [Idle EXCEPT !.op = "reinit", !.at = "guarded", !.had = config[m]])
    /\ UNCHANGED <<places, clones, config, keyring, up, fence, daemon, mishaps>>

RaiseFence(m) ==
    /\ cmd[m].at = "guarded"
    /\ fence' = [fence EXCEPT ![m] = TRUE] /\ To(m, "wizard")
    /\ UNCHANGED <<places, clones, config, keyring, up, daemon, mishaps, spent>>

(* The vault.json under the path the machine uses for a place.              *)
LocalJson(m, p) == IF p \in Remotes \ clones[m] THEN None ELSE json[p]
NonEmpty(m, p)  == IF p \in Remotes THEN p \in clones[m] ELSE json[p] # None \/ mems[p] # {}

(* refuseFlagSwitches, the checks after the prompts, refuseIfNonEmpty.      *)
Refused(m, p, e, v) ==
    LET had == cmd[m].had
    IN  \/ had # None /\ (had.provider # v \/ LocalJson(m, had.place) \notin {None, e})
        \/ had = None /\ NonEmpty(m, p)

(* The prompts; whichever way the user goes back and forth, the answers     *)
(* count when all are given.  Interrupting them, or a setup that cannot be  *)
(* installed, throws.                                                       *)
Wizard(m, p, e, v) ==
    /\ cmd[m].at = "wizard" /\ cmd[m].op # "join"
    /\ IF Refused(m, p, e, v)
         THEN Exits(m)
         ELSE /\ Sets(m, [cmd[m] EXCEPT !.at = "key", !.place = p, !.emb = e, !.provider = v])
              /\ UNCHANGED <<fence, mishaps>>
    /\ UNCHANGED <<places, clones, config, keyring, up, daemon, spent>>

GiveUp(m) ==
    /\ cmd[m].at = "wizard" /\ Returns(m)
    /\ UNCHANGED <<places, clones, config, keyring, up, daemon, spent>>

Draw(m) == /\ drawn < MaxKeys /\ drawn' = drawn + 1
           /\ Sets(m, [cmd[m] EXCEPT !.at = "store", !.key = drawn + 1])

Keep(m, v) == latest' = [latest EXCEPT ![m] = Read(m, v)]

(* Fault: what is configured, as far as anybody can tell, is kept.           *)
SetupKey_Trusting(m) ==
    /\ cmd[m].at = "key"
    /\ IF IsConfigured(m, cmd[m].provider)
         THEN Keep(m, cmd[m].provider) /\ To(m, "storage") /\ UNCHANGED <<drawn, fence, mishaps>>
         ELSE Draw(m) /\ UNCHANGED <<fence, mishaps, latest>>
    /\ UNCHANGED <<places, clones, config, entry, file, env, up, daemon, spent>>

(* The provider's setupAtInit: an existing key is kept, a keychain that     *)
(* fails stops the command, and only the certain absence of a key draws one.*)
SetupKey(m) ==
    /\ cmd[m].at = "key"
    /\ LET v == cmd[m].provider IN
         CASE Read(m, v) # NoKey -> /\ Keep(m, v)
                                    /\ To(m, "storage") /\ UNCHANGED <<drawn, fence, mishaps>>
           [] Unreachable(m, v)  -> Returns(m) /\ UNCHANGED <<drawn, latest>>
           [] OTHER              -> Draw(m) /\ UNCHANGED <<fence, mishaps, latest>>
    /\ UNCHANGED <<places, clones, config, entry, file, env, up, daemon, spent>>

(* Nothing compares the key with a vault the new flow attaches to, nor a    *)
(* key that is drawn anew with the vault that is configured, and a vault    *)
(* that was empty when it was probed accepts any key.                       *)
Foreign(m, p, k) ==
    \/ \E x \in mems[p] : x.key # k
    \/ \E n \in Machines : daemon[n] # None /\ daemon[n].place = p /\ daemon[n].key # k
    \/ \E n \in Machines \ {m} : config[n] # None /\ config[n].place = p /\ latest[n] # k

(* Between the check and this step the secret was shown and confirmed.      *)
StoreKey(m) ==
    /\ cmd[m].at = "store"
    /\ \/ /\ StoreEntropy(m, cmd[m].provider, cmd[m].key)
          /\ IF cmd[m].op = "join" THEN To(m, "probe")
                                   ELSE Sets(m, [cmd[m] EXCEPT !.at = "storage", !.key = NoKey])
          /\ Hit(Flagged(config[m] # None /\ Foreign(m, config[m].place, cmd[m].key), "adopted"))
          /\ UNCHANGED fence
       \/ /\ cmd[m].provider = "keychain" /\ ~up[m]     \* the fallback is declined
          /\ Returns(m) /\ UNCHANGED <<entry, file, env, latest>>
    /\ UNCHANGED <<places, clones, config, drawn, up, daemon, spent>>

Attach(m, p) == clones' = [clones EXCEPT ![m] = @ \cup ({p} \cap Remotes)]

(* storage.init, then vault.json as it is by then.  One that cannot be read *)
(* counts as none; that of a clone, just pulled, is taken to be readable.   *)
OpenStorage(m) ==
    /\ cmd[m].at = "storage"
    /\ LET p == cmd[m].place IN
         \/ /\ p \notin Remotes /\ json[p] # None
            /\ To(m, "put") /\ UNCHANGED <<clones, fence, mishaps>>
         \/ /\ Attach(m, p)
            /\ CASE json[p] = None       -> To(m, "put") /\ UNCHANGED <<fence, mishaps>>
                 [] json[p] = cmd[m].emb -> To(m, "config") /\ UNCHANGED <<fence, mishaps>>
                 [] OTHER                -> Exits(m)
         \/ /\ p \in Remotes /\ Returns(m) /\ UNCHANGED clones   \* unreachable
    /\ UNCHANGED <<places, config, keyring, up, daemon, spent>>

(* Fault: the vault.json another machine pushed is overwritten.             *)
PutVault_Force(m) ==
    /\ cmd[m].at = "put"
    /\ json' = [json EXCEPT ![cmd[m].place] = cmd[m].emb]
    /\ To(m, "config")
    /\ Hit(Flagged(cmd[m].place \notin Remotes /\ json[cmd[m].place] \notin {None, cmd[m].emb}, "raced"))
    /\ UNCHANGED <<mems, backup, clones, config, keyring, up, fence, daemon, spent>>

(* A directory takes the file whatever is there by now; git rejects the     *)
(* push of another vault.json.                                              *)
PutVault(m) ==
    /\ cmd[m].at = "put"
    /\ LET p == cmd[m].place IN
         IF p \in Remotes /\ json[p] \notin {None, cmd[m].emb}
           THEN Returns(m) /\ UNCHANGED json
           ELSE /\ json' = [json EXCEPT ![p] = cmd[m].emb]
                /\ To(m, "config")
                /\ Hit(Flagged(json[p] \notin {None, cmd[m].emb}, "raced")) /\ UNCHANGED fence
    /\ UNCHANGED <<mems, backup, clones, config, keyring, up, daemon, spent>>

WriteConfig(m) ==
    /\ cmd[m].at = "config"
    /\ LET p == cmd[m].place IN
         /\ config' = [config EXCEPT ![m] = [place |-> p, provider |-> cmd[m].provider]]
         /\ Hit(Flagged(Foreign(m, p, latest[m]) /\ cmd[m].op = "join" /\ cmd[m].blind, "unprobed")
                \cup Flagged(Foreign(m, p, latest[m]) /\ cmd[m].op # "join", "adopted"))
    /\ Sets(m, [Idle EXCEPT !.op = cmd[m].op, !.at = "integrations"])
    /\ UNCHANGED <<places, clones, keyring, up, fence, daemon, spent>>

(* The rest: integrations, whose failures are printed.                      *)
Finish(m) ==
    /\ cmd[m].at = "integrations" /\ Returns(m)
    /\ UNCHANGED <<places, clones, config, keyring, up, daemon, spent>>

(* join: the vault is attached before anything else is asked.               *)
JoinStorage(m, p, v) ==
    /\ cmd[m].at = "wizard" /\ cmd[m].op = "join"
    /\ Attach(m, p)
    /\ \/ Exits(m)      \* no vault.json, or none that can be read
       \/ /\ json[p] # None
          /\ Sets(m, [cmd[m] EXCEPT !.at = "joinKey", !.place = p, !.provider = v, !.emb = json[p]])
          /\ UNCHANGED <<fence, mishaps>>
    /\ UNCHANGED <<places, config, keyring, up, daemon, spent>>

(* A key that is there is kept; otherwise the user provides one, which may  *)
(* be that of another vault.                                                *)
JoinKey(m) ==
    /\ cmd[m].at = "joinKey"
    /\ IF IsConfigured(m, cmd[m].provider)
         THEN To(m, "probe")
         ELSE \E k \in 1..drawn : Sets(m, [cmd[m] EXCEPT !.at = "store", !.key = k])
    /\ UNCHANGED <<places, clones, config, keyring, up, fence, daemon, mishaps, spent>>

(* Fault: nothing is opened with the key.                                   *)
Probe_Skipped(m) ==
    /\ cmd[m].at = "probe"
    /\ To(m, "config") /\ Keep(m, cmd[m].provider) /\ UNCHANGED <<fence, mishaps>>
    /\ UNCHANGED <<places, clones, config, entry, file, env, drawn, up, daemon, spent>>

(* getKey and probeKeyAgainstVault: one memento, if there is any.  A        *)
(* variable set on the user's side is not in this process's environment.    *)
Probe(m) ==
    /\ cmd[m].at = "probe"
    /\ LET k     == Read(m, cmd[m].provider)
           p     == cmd[m].place
           reads == k # NoKey /\ ~(cmd[m].provider = "env" /\ cmd[m].key # NoKey)
       IN  \/ /\ reads /\ (mems[p] = {} \/ Opens(k, p))
              /\ Sets(m, [cmd[m] EXCEPT !.at = "config", !.blind = (mems[p] = {})])
              /\ Keep(m, cmd[m].provider) /\ UNCHANGED <<fence, mishaps>>
           \/ /\ ~reads \/ \E x \in mems[p] : x.key # k
              /\ Returns(m) /\ UNCHANGED latest
    /\ UNCHANGED <<places, clones, config, entry, file, env, drawn, up, daemon, spent>>

(***************************************************************************)
(* destroy                                                                  *)
(***************************************************************************)

DestroyBegins(m) ==
    /\ Begin(m) /\ config[m] # None /\ daemon[m] = None
    /\ Sets(m, [Idle EXCEPT !.op = "destroy", !.at = "choose", !.had = config[m],
                            !.provider = config[m].provider])
    /\ UNCHANGED <<places, clones, config, keyring, up, fence, daemon, mishaps>>

(* Config first, then the key, whatever the order of the ticks.             *)
Choose(m) ==
    /\ cmd[m].at = "choose"
    /\ \/ \E both \in BOOLEAN : Sets(m, [cmd[m] EXCEPT !.at = "rmConfig", !.op = IF both THEN "destroy" ELSE "unset"])
       \/ To(m, "rmKey")
       \/ Sets(m, Idle)
    /\ UNCHANGED <<places, clones, config, keyring, up, fence, daemon, mishaps, spent>>

(* The directory ~/.config/mementos: the configuration, the manifest and    *)
(* the daemon's state and token files.                                      *)
RemoveConfig(m) ==
    /\ cmd[m].at = "rmConfig"
    /\ config' = [config EXCEPT ![m] = None]
    /\ fence'  = [fence EXCEPT ![m] = FALSE]
    /\ daemon' = IF daemon[m] = None THEN daemon ELSE [daemon EXCEPT ![m].files = FALSE]
    /\ IF cmd[m].op = "destroy" THEN To(m, "rmKey") ELSE Sets(m, Idle)
    /\ UNCHANGED <<places, clones, keyring, up, mishaps, spent>>

RemoveKey(m) ==
    /\ cmd[m].at = "rmKey"
    /\ ClearStoredKey(m, cmd[m].provider) /\ Sets(m, Idle)
    /\ UNCHANGED <<places, clones, config, up, fence, daemon, mishaps, spent>>

(***************************************************************************)
(* backup, restore, and a migration to another key                          *)
(***************************************************************************)

Backup(m) ==
    /\ Begin(m) /\ config[m] # None /\ ~fence[m] /\ json[config[m].place] # None
    /\ backup' = [json |-> json[config[m].place], mems |-> mems[config[m].place]]
    /\ UNCHANGED <<json, mems, clones, config, keyring, up, fence, daemon, cmd, mishaps>>

(* The files of the backup over those of the vault; what is not in the      *)
(* backup stays.  A key that does not open them is a warning.  A server     *)
(* that runs is looked for behind the fence, and the exit leaves it up.     *)
Restore(m) ==
    /\ Begin(m) /\ config[m] # None /\ backup # None /\ ~fence[m]
    /\ LET p == config[m].place IN
         IF daemon[m] # None
           THEN fence' = [fence EXCEPT ![m] = TRUE] /\ UNCHANGED <<json, mems, clones, mishaps>>
           ELSE /\ json' = [json EXCEPT ![p] = backup.json]
                /\ mems' = [mems EXCEPT ![p] = @ \cup backup.mems]
                /\ Attach(m, p) /\ UNCHANGED fence
                /\ Hit(Flagged(json'[p] # json[p] \/ \E x \in backup.mems : x.key # latest[m], "restored"))
    /\ UNCHANGED <<backup, config, keyring, up, daemon, cmd>>

Attached(n, p) == \/ config[n] # None /\ config[n].place = p
                  \/ daemon[n] # None /\ daemon[n].place = p
                  \/ cmd[n].place = p

MigrateKey(m) ==
    /\ Begin(m) /\ config[m] # None /\ ~fence[m] /\ daemon[m] = None /\ drawn < MaxKeys
    /\ LET p == config[m].place
           v == config[m].provider
       IN  /\ Read(m, v) # NoKey /\ \A x \in mems[p] : x.key = Read(m, v)
           /\ drawn' = drawn + 1
           /\ mems' = [mems EXCEPT ![p] = {[x EXCEPT !.key = drawn + 1] : x \in @}]
           /\ StoreEntropy(m, v, drawn + 1)
           /\ Hit(Flagged(\E n \in Machines \ {m} : Attached(n, p), "switched")
                  \cup Flagged(v = "keychain" /\ up[m] /\ file[m] # NoKey, "shadowed"))
    /\ UNCHANGED <<json, backup, clones, config, up, fence, daemon, cmd>>

(* migrate --abort, on a manifest a refused or killed command left.         *)
AbortFence(m) ==
    /\ Begin(m) /\ fence[m] /\ daemon[m] = None
    /\ fence' = [fence EXCEPT ![m] = FALSE]
    /\ UNCHANGED <<places, clones, config, keyring, up, daemon, cmd, mishaps>>

(***************************************************************************)
(* The daemon, and what may happen at any time.                             *)
(***************************************************************************)

(* buildVault and the key: what stops a daemon from starting.               *)
Starts(m) ==
    /\ ~fence[m] /\ config[m] # None
    /\ LocalJson(m, config[m].place) # None
    /\ Read(m, config[m].provider) # NoKey

(* Fault: a daemon starts behind the fence.                                 *)
StartDaemon_Unfenced(m) ==
    /\ daemon[m] = None /\ config[m] # None /\ LocalJson(m, config[m].place) # None
    /\ Read(m, config[m].provider) # NoKey
    /\ daemon' = [daemon EXCEPT ![m] = [place |-> config[m].place, emb |-> json[config[m].place],
                                        key |-> Read(m, config[m].provider), files |-> TRUE]]
    /\ Hit(Flagged(cmd[m].at \in {"guarded", "choose", "rmConfig"}, "slipped"))
    /\ UNCHANGED <<places, clones, config, keyring, up, fence, cmd, spent>>

(* The daemon keeps for its life what it is built from.                     *)
StartDaemon(m) ==
    /\ daemon[m] = None /\ Starts(m)
    /\ daemon' = [daemon EXCEPT ![m] = [place |-> config[m].place, emb |-> json[config[m].place],
                                        key |-> Read(m, config[m].provider), files |-> TRUE]]
    /\ Hit(Flagged(cmd[m].at \in {"guarded", "choose", "rmConfig"}, "slipped"))
    /\ UNCHANGED <<places, clones, config, keyring, up, fence, cmd, spent>>

DaemonWrites(m) ==
    /\ daemon[m] # None
    /\ mems' = [mems EXCEPT ![daemon[m].place] = @ \cup {[key |-> daemon[m].key, emb |-> daemon[m].emb]}]
    /\ UNCHANGED <<json, backup, clones, config, keyring, up, fence, daemon, cmd, mishaps, spent>>

DaemonEnds(m) ==
    /\ daemon[m] # None
    /\ daemon' = [daemon EXCEPT ![m] = None]
    /\ UNCHANGED <<places, clones, config, keyring, up, fence, cmd, mishaps, spent>>

Kill(m) ==
    /\ cmd[m].op # "none"
    /\ Sets(m, Idle)
    /\ UNCHANGED <<places, clones, config, keyring, up, fence, daemon, mishaps, spent>>

(* When somebody is about to ask it: a daemon, doctor or a migration, which *)
(* all stop at the fence, or the next step of a command.  At other times    *)
(* nobody would notice.                                                     *)
Asked(m) == \/ ~fence[m] /\ config[m] # None /\ config[m].provider = "keychain"
            \/ cmd[m].at \in {"key", "store", "joinKey", "probe", "rmKey"} /\ cmd[m].provider = "keychain"

KeychainChanges(m) ==
    /\ Asked(m)
    /\ up' = [up EXCEPT ![m] = ~@]
    /\ UNCHANGED <<places, clones, config, keyring, fence, daemon, cmd, mishaps, spent>>

(* A config that is there names a key provider and a place; nothing else.   *)
Init ==
    /\ json = [p \in Places |-> None] /\ mems = [p \in Places |-> {}]
    /\ clones = [m \in Machines |-> {}] /\ config = [m \in Machines |-> None]
    /\ entry = [m \in Machines |-> NoKey] /\ file = entry /\ env = entry /\ latest = entry
    /\ up = [m \in Machines |-> TRUE] /\ fence = [m \in Machines |-> FALSE]
    /\ daemon = [m \in Machines |-> None] /\ cmd = [m \in Machines |-> Idle]
    /\ backup = None /\ drawn = 0 /\ mishaps = {}
    /\ spent = 0

InitStep(m) ==
    \/ RaiseFence(m) \/ GiveUp(m) \/ SetupKey(m) \/ StoreKey(m) \/ OpenStorage(m)
    \/ PutVault(m) \/ WriteConfig(m) \/ Finish(m) \/ JoinKey(m) \/ Probe(m)
    \/ \E p \in Places, v \in Providers :
          JoinStorage(m, p, v) \/ \E e \in Embedders : Wizard(m, p, e, v)

Next == \E m \in Machines :
    \/ InitBegins(m) \/ InitStep(m)
    \/ DestroyBegins(m) \/ Choose(m) \/ RemoveConfig(m) \/ RemoveKey(m)
    \/ Backup(m) \/ Restore(m) \/ MigrateKey(m) \/ AbortFence(m)
    \/ StartDaemon(m) \/ DaemonWrites(m) \/ DaemonEnds(m)
    \/ Kill(m) \/ KeychainChanges(m)

Spec == Init /\ [][Next]_vars

(***************************************************************************)
(* doctor, as far as it looks at what is modelled.                          *)
(***************************************************************************)

ConfigPasses(m)    == config[m] # None
MigrationPasses(m) == ~fence[m]
KeyPasses(m)       == Read(m, config[m].provider) # NoKey
StoragePasses(m)   == config[m].place \in Remotes => config[m].place \in clones[m]
VaultPasses(m)     == LocalJson(m, config[m].place) # None
DaemonPasses(m)    == daemon[m] # None => daemon[m].files

(* Some memento that storage lists first.                                   *)
ProbePasses(m) ==
    LET p == config[m].place IN mems[p] = {} \/ Opens(Read(m, config[m].provider), p)

(* Fault: no memento is opened.                                             *)
MayPass_NoProbe(m) ==
    /\ ConfigPasses(m) /\ MigrationPasses(m) /\ KeyPasses(m)
    /\ StoragePasses(m) /\ VaultPasses(m) /\ DaemonPasses(m)

MayPass(m) ==
    /\ ConfigPasses(m) /\ MigrationPasses(m) /\ KeyPasses(m)
    /\ StoragePasses(m) /\ VaultPasses(m) /\ ProbePasses(m) /\ DaemonPasses(m)

-----------------------------------------------------------------------------
(* Properties.  The windows the code leaves open, each named where it is    *)
(* hit, and each shown reachable by the runs' coverage:                     *)
(*   adopted, unprobed: a machine attached to a vault that others use with  *)
(*     another key; restored: a backup under another key or embedder was    *)
(*     put back; switched: the key was changed under other machines;        *)
(*   shadowed: the new key went to the keychain and the old one is still in *)
(*     the fallback file;                                                   *)
(*   raced: vault.json was written over one with another embedder, because  *)
(*     two machines created a vault in one directory at once, or because    *)
(*     the old one could not be read;                                       *)
(*   slipped: a daemon started after the guard had looked and before the    *)
(*     fence (init --reinit), or where there is none (destroy).             *)

DataOK ==
    /\ json \in [Places -> Embedders \cup {None}]
    /\ mems \in [Places -> SUBSET Mementos]
    /\ clones \in [Machines -> SUBSET Remotes]
    /\ config \in [Machines -> [place : Places, provider : Providers] \cup {None}]
    /\ \A f \in {entry, file, env, latest} : f \in [Machines -> Keys \cup {NoKey}]
    /\ up \in [Machines -> BOOLEAN] /\ fence \in [Machines -> BOOLEAN]
    /\ daemon \in [Machines -> [place : Places, emb : Embedders, key : Keys, files : BOOLEAN] \cup {None}]
    /\ backup \in [json : Embedders, mems : SUBSET Mementos] \cup {None}
    /\ drawn \in 0..MaxKeys
    /\ mishaps \subseteq {"adopted", "unprobed", "restored", "switched", "shadowed", "raced",
                          "slipped"}

TypeOK ==
    /\ DataOK
    /\ \A m \in Machines :
         /\ cmd[m].op \in {"none", "new", "reinit", "join", "destroy", "unset"}
         /\ cmd[m].at \in {"idle", "guarded", "wizard", "key", "store", "storage", "put", "config",
                            "integrations", "joinKey", "probe", "choose", "rmConfig", "rmKey"}
         /\ (cmd[m].op = "none") = (cmd[m].at = "idle")
         /\ cmd[m].at \in {"put", "config"} => latest[m] # NoKey

(* All mementos of a vault are under one key, on however many machines it   *)
(* is set up, joined, left and written to.                                  *)
OneKey == mishaps \cap {"adopted", "unprobed", "restored", "switched", "shadowed"} = {} =>
            \A p \in Places : \A x, y \in mems[p] : x.key = y.key

(* The vectors of a vault come from the embedder its vault.json names.      *)
OneSpace == mishaps \cap {"raced", "restored"} = {} =>
              \A p \in Places : \A x \in mems[p] : x.emb = json[p]

(* A running daemon serves the vault that is configured, and its files are  *)
(* there: nothing is reconfigured or removed under it.                      *)
NoGhost == "slipped" \notin mishaps =>
             \A m \in Machines : daemon[m] # None =>
               daemon[m].files /\ config[m] # None /\ config[m].place = daemon[m].place

(* When doctor passes, a running daemon can be called and its key opens     *)
(* something of the vault, and without one a daemon would start.            *)
DoctorIsRight ==
    \A m \in Machines : MayPass(m) =>
        IF daemon[m] = None THEN Starts(m)
        ELSE \/ "slipped" \in mishaps
             \/ mems[daemon[m].place] = {} \/ Opens(daemon[m].key, daemon[m].place)
             \/ "shadowed" \in mishaps
=============================================================================
