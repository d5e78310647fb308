---------------------------- MODULE SetupProofs -----------------------------
(***************************************************************************)
(* The properties of Setup, for any number of machines, places, embedders,  *)
(* keys and commands.                                                       *)
(*                                                                          *)
(* CmdInv says what a command has at hand at each stage, GhostInv which     *)
(* stages no daemon runs through, KeyringInv that a machine has one key per *)
(* provider and that it is the one it stored or kept last, SpaceInv and     *)
(* KeyInv that everything that writes to a place agrees on the embedder and *)
(* the key.  Each holds outside the windows its property excuses.           *)
(***************************************************************************)
EXTENDS Setup, TLAPS

Configs == [place : Places, provider : Providers]

Chosen  == {"key", "store", "storage", "put", "config", "joinKey", "probe"}
Early   == {"guarded", "wizard"} \cup Chosen
Leaving == {"choose", "rmConfig", "rmKey"}

Commands ==
    [op : {"none", "new", "reinit", "join", "destroy", "unset"},
     at : {"idle", "integrations"} \cup Early \cup Leaving,
     had : Configs \cup {None}, place : Places \cup {None}, provider : Providers \cup {None},
     emb : Embedders \cup {None}, key : Keys \cup {NoKey}, blind : BOOLEAN]

(* What a command has at hand, and what it has left alone so far.           *)
CmdInv(m) ==
    LET c == cmd[m] IN
      /\ (c.op = "none") = (c.at = "idle")
      /\ c.at \in Early \cup {"integrations"} => c.op \in {"new", "join", "reinit"}
      /\ c.at = "guarded" => c.op = "reinit"
      /\ c.at \in Leaving => c.op \in {"destroy", "unset"} /\ c.provider \in Providers
      /\ c.at \in Chosen => c.place \in Places /\ c.provider \in Providers /\ c.emb \in Embedders
      /\ c.at = "store" => c.key \in Keys
      /\ c.at \in {"key", "storage", "put"} => c.op # "join"
      /\ c.at \in {"joinKey", "probe"} => c.op = "join"
      /\ c.at \in {"storage", "put", "config"} => latest[m] # NoKey
      /\ c.at \in Early /\ c.op \in {"new", "join"} => config[m] = None
      /\ c.at \in Early /\ c.op = "reinit" => config[m] # None /\ c.had = config[m]
      /\ c.at \in Chosen /\ c.op = "reinit" => c.provider = config[m].provider

Typed ==
    /\ DataOK
    /\ cmd \in [Machines -> Commands]
    /\ \A m \in Machines : CmdInv(m)
    /\ \A m \in Machines : config[m] # None => latest[m] # NoKey

(* No daemon runs while init rewrites what it was built from, or destroy    *)
(* removes it.                                                              *)
Guarded(m) ==
    /\ daemon[m] # None => /\ daemon[m].files /\ config[m] # None
                           /\ config[m].place = daemon[m].place
    /\ cmd[m].at \in {"guarded", "choose", "rmConfig"} => daemon[m] = None
    /\ cmd[m].at \in Early \ {"guarded"} /\ cmd[m].op = "reinit" => fence[m] /\ daemon[m] = None

GhostInv == "slipped" \notin mishaps => \A m \in Machines : Guarded(m)

(* The key a provider has, when keychain and file do not both have one.     *)
Sole(m, v) == IF v = "env" THEN env[m] ELSE IF entry[m] # NoKey THEN entry[m] ELSE file[m]

Ring(m) ==
    /\ entry[m] = NoKey \/ file[m] = NoKey
    /\ config[m] # None => Sole(m, config[m].provider) \in {NoKey, latest[m]}
    /\ cmd[m].at = "store" => Sole(m, cmd[m].provider) = NoKey
    /\ cmd[m].at \in {"storage", "put", "config"} =>
         Sole(m, cmd[m].provider) \in {NoKey, latest[m]}
    /\ (daemon[m] # None /\ "slipped" \notin mishaps) =>
         Sole(m, config[m].provider) \in {NoKey, daemon[m].key}

KeyringInv == "shadowed" \notin mishaps => \A m \in Machines : Ring(m)

(* What is written to a place, and what a backup of it holds, is of the     *)
(* embedder the place names.                                                *)
SpaceInv ==
    mishaps \cap {"raced", "restored"} = {} =>
      /\ \A p \in Places : \A x \in mems[p] : x.emb = json[p]
      /\ \A m \in Machines : daemon[m] # None => daemon[m].emb = json[daemon[m].place]
      /\ backup # None => \A x \in backup.mems : x.emb = backup.json

(* At a place nobody uses another key than k: no memento, no daemon, no     *)
(* machine that is configured for it.                                       *)
OnlyKey(p, k) ==
    /\ \A x \in mems[p] : x.key = k
    /\ \A n \in Machines : (daemon[n] # None /\ daemon[n].place = p) => daemon[n].key = k
    /\ \A n \in Machines : (config[n] # None /\ config[n].place = p) => latest[n] = k

(* A machine that joined a vault with mementos has opened one of them.      *)
Opened(m) ==
    (cmd[m].at = "config" /\ cmd[m].op = "join" /\ ~cmd[m].blind) => Opens(latest[m], cmd[m].place)

KeyInv ==
    mishaps \cap {"adopted", "unprobed", "restored", "switched", "shadowed"} = {} =>
      /\ \A p \in Places : \E k \in Keys \cup {NoKey} : OnlyKey(p, k)
      /\ \A m \in Machines : Opened(m)

IInv == Typed /\ GhostInv /\ KeyringInv /\ SpaceInv /\ KeyInv

-----------------------------------------------------------------------------
(* A step is a step of one machine.                                         *)

StepOf(m) ==
    \/ InitBegins(m) \/ InitStep(m)
    \/ DestroyBegins(m) \/ Choose(m) \/ RemoveConfig(m) \/ RemoveKey(m)
    \/ Backup(m) \/ Restore(m) \/ MigrateKey(m) \/ AbortFence(m)
    \/ StartDaemon(m) \/ DaemonWrites(m) \/ DaemonEnds(m)
    \/ Kill(m) \/ KeychainChanges(m)

(* What belongs to machine n alone.                                         *)
Same(n) ==
    /\ cmd'[n] = cmd[n] /\ config'[n] = config[n] /\ latest'[n] = latest[n]
    /\ entry'[n] = entry[n] /\ file'[n] = file[n] /\ env'[n] = env[n]
    /\ fence'[n] = fence[n] /\ daemon'[n] = daemon[n]

(* How a command goes on.                                                   *)
LEMMA Goes ==
  ASSUME Typed, NEW m \in Machines, NEW r \in Commands, Sets(m, r)
  PROVE  cmd' \in [Machines -> Commands] /\ cmd'[m] = r
  BY DEF Typed, Sets

LEMMA GoesTo ==
  ASSUME Typed, NEW m \in Machines, 
         NEW stage \in {"idle", "integrations"} \cup Early \cup Leaving, To(m, stage)
  PROVE  cmd' \in [Machines -> Commands] /\ cmd'[m] = [cmd[m] EXCEPT !.at = stage]
  BY DEF Typed, To, Commands

LEMMA Ends ==
  ASSUME Typed, NEW m \in Machines, Sets(m, Idle)
  PROVE  cmd' \in [Machines -> Commands] /\ CmdInv(m)'
<1>1. Idle \in Commands
  BY DEF Idle, Commands, Early, Leaving, Chosen
<1>2. cmd' \in [Machines -> Commands] /\ cmd'[m] = Idle
  BY <1>1, Goes
<1>3. QED
  BY <1>2 DEF CmdInv, Idle, Early, Leaving, Chosen

(* A key is stored in one place of one machine.                             *)
LEMMA StoreEffect ==
  ASSUME Typed, NEW m \in Machines, NEW v \in Providers, NEW k \in Keys, StoreEntropy(m, v, k)
  PROVE  /\ latest' = [latest EXCEPT ![m] = k]
         /\ v = "env" => env' = [env EXCEPT ![m] = k] /\ entry' = entry /\ file' = file
         /\ v = "keychain" /\ up[m] => entry' = [entry EXCEPT ![m] = k] /\ file' = file /\ env' = env
         /\ v = "keychain" /\ ~up[m] => file' = [file EXCEPT ![m] = k] /\ entry' = entry /\ env' = env
<1>1. CASE v = "env"
  BY <1>1 DEF StoreEntropy
<1>2. CASE v = "keychain" /\ up[m]
  BY <1>2 DEF StoreEntropy
<1>3. CASE v = "keychain" /\ ~up[m]
  BY <1>3 DEF StoreEntropy
<1>4. QED
  BY <1>1, <1>2, <1>3 DEF Providers

LEMMA OthersSame ==
  ASSUME Typed, NEW m \in Machines, StepOf(m), NEW n \in Machines \ {m}
  PROVE  Same(n)
<1> USE DEF Typed, DataOK, Same, keyring, places, Sets, To, Exits, Returns
<1>1. CASE InitBegins(m) \/ RaiseFence(m) \/ GiveUp(m)
  BY <1>1 DEF InitBegins, RaiseFence, GiveUp
<1>13. CASE DestroyBegins(m)
  BY <1>13 DEF DestroyBegins
<1>14. CASE Choose(m)
  BY <1>14 DEF Choose
<1>2. CASE SetupKey(m)
  BY <1>2 DEF SetupKey, Keep, Draw
<1>3. CASE StoreKey(m)
  <2>1. cmd[m].provider \in Providers /\ cmd[m].key \in Keys
    BY <1>3 DEF StoreKey, CmdInv, Chosen
  <2>2. CASE StoreEntropy(m, cmd[m].provider, cmd[m].key)
    <3>1. entry'[n] = entry[n] /\ file'[n] = file[n] /\ env'[n] = env[n] /\ latest'[n] = latest[n]
      BY <2>1, <2>2, StoreEffect DEF Providers
    <3>2. cmd'[n] = cmd[n] /\ config' = config /\ daemon' = daemon /\ fence'[n] = fence[n]
      BY <1>3, <2>2 DEF StoreKey
    <3>3. QED
      BY <3>1, <3>2
  <2>3. CASE ~StoreEntropy(m, cmd[m].provider, cmd[m].key)
    BY <1>3, <2>3 DEF StoreKey
  <2>4. QED
    BY <2>2, <2>3
<1>4. CASE OpenStorage(m) \/ PutVault(m) \/ WriteConfig(m) \/ Finish(m)
  BY <1>4 DEF OpenStorage, PutVault, WriteConfig, Finish
<1>5. CASE JoinKey(m)
  BY <1>5 DEF JoinKey
<1>6. CASE Probe(m)
  <2>1. UNCHANGED <<config, entry, file, env, daemon>>
    BY <1>6 DEF Probe
  <2>2. \E r : cmd' = [cmd EXCEPT ![m] = r]
    BY <1>6 DEF Probe
  <2>3. latest'[n] = latest[n] /\ fence'[n] = fence[n]
    BY <1>6 DEF Probe, Keep
  <2>4. QED
    BY <2>1, <2>2, <2>3
<1>7. CASE \E p \in Places, v \in Providers :
             JoinStorage(m, p, v) \/ \E e \in Embedders : Wizard(m, p, e, v)
  BY <1>7 DEF JoinStorage, Wizard
<1>8. CASE RemoveConfig(m)
  BY <1>8 DEF RemoveConfig
<1>9. CASE RemoveKey(m)
  BY <1>9 DEF RemoveKey, ClearStoredKey
<1>10. CASE MigrateKey(m)
  <2>1. config[m].provider \in Providers /\ drawn + 1 \in Keys
    BY <1>10, SetupAssumption DEF MigrateKey, Keys
  <2>2. StoreEntropy(m, config[m].provider, drawn + 1)
    BY <1>10 DEF MigrateKey
  <2>3. entry'[n] = entry[n] /\ file'[n] = file[n] /\ env'[n] = env[n] /\ latest'[n] = latest[n]
    BY <2>1, <2>2, StoreEffect DEF Providers
  <2>4. QED
    BY <1>10, <2>3 DEF MigrateKey
<1>11. CASE Backup(m) \/ Restore(m) \/ AbortFence(m) \/ StartDaemon(m) \/ DaemonWrites(m)
              \/ DaemonEnds(m) \/ Kill(m) \/ KeychainChanges(m)
  BY <1>11 DEF Backup, Restore, AbortFence, StartDaemon, DaemonWrites, DaemonEnds, Kill,
               KeychainChanges
<1>12. QED
  BY <1>1, <1>2, <1>3, <1>4, <1>5, <1>6, <1>7, <1>8, <1>9, <1>10, <1>11,
     <1>13, <1>14 DEF StepOf, InitStep

(* What m's command has at hand, when the other machines are left alone.    *)
LEMMA TypedIf ==
  ASSUME Typed, NEW m \in Machines, StepOf(m), DataOK', cmd' \in [Machines -> Commands],
         CmdInv(m)', config'[m] # None => latest'[m] # NoKey
  PROVE  Typed'
<1>1. \A n \in Machines \ {m} : CmdInv(n)' /\ (config'[n] # None => latest'[n] # NoKey)
  BY OthersSame DEF Typed, CmdInv, Same
<1>2. QED
  BY <1>1 DEF Typed

LEMMA TypedInit == Init => Typed
  BY SetupAssumption DEF Init, Typed, DataOK, CmdInv, Idle, Commands, NoKey, Keys, Early, Leaving, Chosen

(* A command that is over, or of which only the stage changes.              *)
LEMMA TypedEnds ==
  ASSUME Typed, NEW m \in Machines, StepOf(m), DataOK', Sets(m, Idle),
         config'[m] # None => latest'[m] # NoKey
  PROVE  Typed'
  BY Ends, TypedIf

LEMMA TypedBegins ==
  ASSUME Typed, NEW m \in Machines, StepOf(m), InitBegins(m) \/ RaiseFence(m) \/ GiveUp(m)
  PROVE  Typed'
<1> USE DEF Early, Leaving, Chosen
<1>1. CASE InitBegins(m)
  <2>1. DataOK' /\ config'[m] = config[m] /\ latest'[m] = latest[m]
    BY <1>1 DEF InitBegins, Typed, DataOK, keyring, places
  <2>2. PICK r \in Commands :
          /\ cmd' = [cmd EXCEPT ![m] = r]
          /\ \/ config[m] = None /\ r.op \in {"new", "join"} /\ r.at = "wizard"
             \/ config[m] # None /\ r.op = "reinit" /\ r.at = "guarded" /\ r.had = config[m]
    <3>1. CASE config[m] = None
      <4>1. PICK op \in {"new", "join"} : cmd' = [cmd EXCEPT ![m] = [Idle EXCEPT !.op = op, !.at = "wizard"]]
        BY <1>1, <3>1 DEF InitBegins, Sets
      <4>2. [Idle EXCEPT !.op = op, !.at = "wizard"] \in Commands
        BY <4>1 DEF Idle, Commands, NoKey
      <4>3. QED
        BY <3>1, <4>1, <4>2 DEF Idle
    <3>2. CASE config[m] # None
      <4>1. cmd' = [cmd EXCEPT ![m] = [Idle EXCEPT !.op = "reinit", !.at = "guarded", !.had = config[m]]]
        BY <1>1, <3>2 DEF InitBegins, Sets
      <4>2. [Idle EXCEPT !.op = "reinit", !.at = "guarded", !.had = config[m]] \in Commands
        BY <3>2 DEF Idle, Commands, NoKey, Configs, Typed, DataOK
      <4>3. QED
        BY <3>2, <4>1, <4>2 DEF Idle
    <3>3. QED
      BY <3>1, <3>2
  <2>3. cmd' \in [Machines -> Commands] /\ cmd'[m] = r
    BY <2>2, Goes DEF Sets
  <2>4. CmdInv(m)'
    BY <2>1, <2>2, <2>3 DEF CmdInv
  <2>5. QED
    BY <2>1, <2>3, <2>4, TypedIf DEF Typed
<1>2. CASE RaiseFence(m)
  <2>1. DataOK' /\ config'[m] = config[m] /\ latest'[m] = latest[m]
    BY <1>2 DEF RaiseFence, Typed, DataOK, keyring, places
  <2>2. cmd' \in [Machines -> Commands] /\ cmd'[m] = [cmd[m] EXCEPT !.at = "wizard"]
    BY <1>2, GoesTo DEF RaiseFence
  <2>3. CmdInv(m)'
    BY <1>2, <2>1, <2>2 DEF CmdInv, RaiseFence, Typed, Commands
  <2>4. QED
    BY <2>1, <2>2, <2>3, TypedIf DEF Typed
<1>3. CASE GiveUp(m)
  <2>1. DataOK' /\ config'[m] = config[m] /\ latest'[m] = latest[m] /\ Sets(m, Idle)
    BY <1>3 DEF GiveUp, Returns, Typed, DataOK, keyring, places
  <2>2. QED
    BY <2>1, TypedEnds DEF Typed
<1>4. QED
  BY <1>1, <1>2, <1>3

LEMMA TypedWizard ==
  ASSUME Typed, NEW m \in Machines, StepOf(m), NEW p \in Places, NEW v \in Providers,
         NEW e \in Embedders, Wizard(m, p, e, v)
  PROVE  Typed'
<1>1. DataOK' /\ config' = config /\ latest' = latest
  BY DEF Wizard, Exits, Typed, DataOK, keyring, places
<1>2. CASE Refused(m, p, e, v)
  BY <1>1, <1>2, TypedEnds DEF Wizard, Exits, Typed
<1>3. CASE ~Refused(m, p, e, v)
  <2> DEFINE r == [cmd[m] EXCEPT !.at = "key", !.place = p, !.emb = e, !.provider = v]
  <2>1. r \in Commands /\ r.at = "key" /\ r.op = cmd[m].op /\ r.had = cmd[m].had
        /\ r.place = p /\ r.emb = e /\ r.provider = v
    BY DEF Typed, Commands, Early, Chosen
  <2>2. Sets(m, r) /\ cmd[m].at = "wizard" /\ cmd[m].op # "join"
    BY <1>3 DEF Wizard
  <2>3. cmd' \in [Machines -> Commands] /\ cmd'[m] = r
    BY <2>1, <2>2, Goes
  <2>4. r.op = "reinit" => r.provider = config[m].provider
    BY <1>3, <2>1, <2>2 DEF Refused, Typed, CmdInv, Early
  <2>5. CmdInv(m)'
    BY <1>1, <2>1, <2>2, <2>3, <2>4 DEF CmdInv, Early, Chosen, Leaving, Typed
  <2>6. QED
    BY <1>1, <2>3, <2>5, TypedIf DEF Typed
<1>4. QED
  BY <1>2, <1>3

LEMMA TypedJoinStorage ==
  ASSUME Typed, NEW m \in Machines, StepOf(m), NEW p \in Places, NEW v \in Providers,
         JoinStorage(m, p, v)
  PROVE  Typed'
<1>1. DataOK' /\ config' = config /\ latest' = latest
  BY DEF JoinStorage, Attach, Exits, Typed, DataOK, keyring, places
<1>2. CASE Exits(m)
  BY <1>1, <1>2, TypedEnds DEF JoinStorage, Exits, Typed
<1>3. CASE ~Exits(m)
  <2> DEFINE r == [cmd[m] EXCEPT !.at = "joinKey", !.place = p, !.provider = v, !.emb = json[p]]
  <2> json[p] \in Embedders
    BY <1>3 DEF JoinStorage, Typed, DataOK
  <2>1. r \in Commands /\ r.at = "joinKey" /\ r.op = cmd[m].op /\ r.had = cmd[m].had
        /\ r.place = p /\ r.emb = json[p] /\ r.provider = v
    BY DEF Typed, Commands, Early, Chosen
  <2>2. Sets(m, r) /\ cmd[m].at = "wizard" /\ cmd[m].op = "join"
    BY <1>3 DEF JoinStorage
  <2>3. cmd' \in [Machines -> Commands] /\ cmd'[m] = r
    BY <2>1, <2>2, Goes
  <2>4. CmdInv(m)'
    BY <1>1, <2>1, <2>2, <2>3 DEF CmdInv, Early, Chosen, Leaving, Typed
  <2>5. QED
    BY <1>1, <2>3, <2>4, TypedIf DEF Typed
<1>4. QED
  BY <1>2, <1>3

(* What a provider answers is a key or none.                                *)
LEMMA ReadType ==
  ASSUME Typed, NEW m \in Machines, NEW v \in Providers
  PROVE  Read(m, v) \in Keys \cup {NoKey}
  BY DEF Typed, DataOK, Read, Found

LEMMA NoAnswer ==
  ASSUME Typed, NEW m \in Machines, NEW v \in Providers, Unreachable(m, v)
  PROVE  Read(m, v) = NoKey
  BY DEF Typed, DataOK, Unreachable, Broken, Read, Found

LEMMA TypedSetupKey ==
  ASSUME Typed, NEW m \in Machines, StepOf(m), SetupKey(m)
  PROVE  Typed'
<1> DEFINE v == cmd[m].provider
<1>1. v \in Providers /\ cmd[m].at = "key"
  BY DEF SetupKey, Typed, CmdInv, Chosen
<1>2. CASE Read(m, v) # NoKey
  <2>1. Keep(m, v) /\ To(m, "storage") /\ UNCHANGED <<drawn, fence, mishaps>>
        /\ UNCHANGED <<places, clones, config, entry, file, env, up, daemon, spent>>
    BY <1>1, <1>2, NoAnswer DEF SetupKey
  <2>2. DataOK' /\ config' = config /\ latest'[m] = Read(m, v)
    BY <1>1, <2>1, ReadType DEF Keep, Typed, DataOK, places
  <2>3. cmd' \in [Machines -> Commands] /\ cmd'[m] = [cmd[m] EXCEPT !.at = "storage"]
    BY <2>1, GoesTo DEF Early, Chosen
  <2>4. CmdInv(m)'
    BY <1>1, <1>2, <2>2, <2>3 DEF CmdInv, Early, Chosen, Leaving, Typed, Commands
  <2>5. QED
    BY <1>2, <2>2, <2>3, <2>4, TypedIf
<1>3. CASE Read(m, v) = NoKey /\ Unreachable(m, v)
  <2>1. Returns(m) /\ UNCHANGED <<drawn, latest>>
        /\ UNCHANGED <<places, clones, config, entry, file, env, up, daemon, spent>>
    BY <1>3 DEF SetupKey
  <2>2. Sets(m, Idle) /\ fence' \in [Machines -> BOOLEAN] /\ UNCHANGED mishaps
    BY <2>1 DEF Returns, Typed, DataOK
  <2>3. DataOK' /\ config' = config /\ latest' = latest
    BY <2>1, <2>2 DEF Typed, DataOK, places
  <2>4. QED
    BY <2>2, <2>3, TypedEnds DEF Typed
<1>4. CASE Read(m, v) = NoKey /\ ~Unreachable(m, v)
  <2> DEFINE r == [cmd[m] EXCEPT !.at = "store", !.key = drawn + 1]
  <2>1. Draw(m) /\ UNCHANGED <<fence, mishaps, latest>>
        /\ UNCHANGED <<places, clones, config, entry, file, env, up, daemon, spent>>
    BY <1>4 DEF SetupKey
  <2>2. DataOK' /\ config' = config /\ latest' = latest /\ drawn + 1 \in Keys
    BY <2>1, SetupAssumption DEF Draw, Typed, DataOK, places, Keys
  <2>3. r \in Commands
    BY <2>2 DEF Typed, Commands, Early, Chosen
  <2>4. cmd' \in [Machines -> Commands] /\ cmd'[m] = r
    BY <2>1, <2>3, Goes DEF Draw
  <2>5. CmdInv(m)'
    BY <1>1, <2>2, <2>4 DEF CmdInv, Early, Chosen, Leaving, Typed, Commands
  <2>6. QED
    BY <2>2, <2>4, <2>5, TypedIf DEF Typed
<1>5. QED
  BY <1>2, <1>3, <1>4

LEMMA TypedStoreKey ==
  ASSUME Typed, NEW m \in Machines, StepOf(m), StoreKey(m)
  PROVE  Typed'
<1>1. cmd[m].provider \in Providers /\ cmd[m].key \in Keys /\ cmd[m].at = "store" /\ cmd[m] \in Commands
      /\ cmd[m].op \in {"new", "join", "reinit"}
  BY DEF StoreKey, Typed, CmdInv, Early, Chosen
<1>2. UNCHANGED <<places, clones, config, drawn, up, daemon, spent>>
  BY DEF StoreKey
<1> DEFINE r == IF cmd[m].op = "join" THEN [cmd[m] EXCEPT !.at = "probe"]
                ELSE [cmd[m] EXCEPT !.at = "storage", !.key = NoKey]
           Stored == /\ StoreEntropy(m, cmd[m].provider, cmd[m].key)
                     /\ \E l \in BOOLEAN : Hit(Flagged(l, "adopted"))
                     /\ fence' = fence /\ Sets(m, r)
           Declined == Returns(m) /\ UNCHANGED <<entry, file, env, latest>>
<1>3. Stored \/ Declined
  <2>1. To(m, "probe") => Sets(m, [cmd[m] EXCEPT !.at = "probe"])
    BY DEF To, Sets
  <2>2. CASE cmd[m].op = "join"
    BY <2>1, <2>2 DEF StoreKey
  <2>3. CASE cmd[m].op # "join"
    BY <2>3 DEF StoreKey
  <2>4. QED
    BY <2>2, <2>3
<1>4. CASE Stored
  <2>1. mishaps' \subseteq mishaps \cup {"adopted"}
    BY <1>4 DEF Hit, Flagged
  <2>2. \A f \in {entry', file', env', latest'} : f \in [Machines -> Keys \cup {NoKey}]
    BY <1>1, <1>4, StoreEffect DEF Typed, DataOK, Providers
  <2>3. DataOK'
    BY <1>2, <1>4, <2>1, <2>2 DEF Typed, DataOK, places
  <2>4. config' = config /\ latest'[m] = cmd[m].key
    BY <1>1, <1>2, <1>4, StoreEffect DEF Typed, DataOK
  <2>5. r \in Commands
    BY <1>1 DEF Commands, Early, Chosen
  <2>6. cmd' \in [Machines -> Commands] /\ cmd'[m] = r
    BY <1>4, <2>5, Goes
  <2>7. cmd[m].key # NoKey
    BY <1>1 DEF Keys, NoKey
  <2>8. CmdInv(m)'
    BY <1>1, <2>4, <2>6, <2>7 DEF CmdInv, Early, Chosen, Leaving, Typed, Commands
  <2>9. QED
    BY <2>3, <2>4, <2>6, <2>7, <2>8, TypedIf
<1>5. CASE Declined
  <2>1. DataOK' /\ config' = config /\ latest' = latest /\ Sets(m, Idle)
    BY <1>2, <1>5 DEF Returns, Typed, DataOK, places
  <2>2. QED
    BY <2>1, TypedEnds DEF Typed
<1>6. QED
  BY <1>3, <1>4, <1>5

LEMMA TypedTo ==
  ASSUME Typed, NEW m \in Machines, StepOf(m), DataOK', config' = config, latest'[m] = latest[m],
         NEW stage \in Chosen, To(m, stage), cmd[m].at \in Chosen, stage # "store",
         stage \in {"storage", "put", "config"} => latest[m] # NoKey,
         stage \in {"key", "storage", "put"} => cmd[m].op # "join",
         stage \in {"joinKey", "probe"} => cmd[m].op = "join"
  PROVE  Typed'
<1>1. cmd' \in [Machines -> Commands] /\ cmd'[m] = [cmd[m] EXCEPT !.at = stage]
  BY GoesTo DEF Early
<1>2. CmdInv(m)'
  BY <1>1 DEF CmdInv, Early, Chosen, Leaving, Typed, Commands
<1>3. QED
  BY <1>1, <1>2, TypedIf DEF Typed

LEMMA TypedOpenStorage ==
  ASSUME Typed, NEW m \in Machines, StepOf(m), OpenStorage(m)
  PROVE  Typed'
<1>1. cmd[m].at = "storage" /\ latest[m] # NoKey /\ cmd[m].op # "join"
  BY DEF OpenStorage, Typed, CmdInv
<1>2. UNCHANGED <<places, config, keyring, up, daemon, spent>>
  BY DEF OpenStorage
<1>3. \/ Sets(m, Idle) /\ fence'[m] \in BOOLEAN
      \/ (To(m, "put") \/ To(m, "config")) /\ fence' = fence
  BY DEF OpenStorage, Exits, Returns, Typed, DataOK
<1>4. clones' \in [Machines -> SUBSET Remotes] /\ fence' \in [Machines -> BOOLEAN]
      /\ mishaps' = mishaps
  <2>1. Attach(m, cmd[m].place) \/ UNCHANGED clones
    BY DEF OpenStorage
  <2>2. UNCHANGED <<fence, mishaps>> \/ Returns(m)
    BY DEF OpenStorage, Exits
  <2>3. QED
    BY <2>1, <2>2 DEF Attach, Returns, Typed, DataOK
<1>5. DataOK' /\ config' = config /\ latest' = latest
  BY <1>2, <1>4 DEF Typed, DataOK, places, keyring
<1>6. QED
  BY <1>1, <1>3, <1>5, TypedTo, TypedEnds DEF Typed, Chosen

LEMMA TypedPutVault ==
  ASSUME Typed, NEW m \in Machines, StepOf(m), PutVault(m)
  PROVE  Typed'
<1>1. cmd[m].at = "put" /\ latest[m] # NoKey /\ cmd[m].emb \in Embedders
  BY DEF PutVault, Typed, CmdInv, Chosen
<1>2. UNCHANGED <<mems, backup, clones, config, keyring, up, daemon, spent>>
  BY DEF PutVault
<1>3. Sets(m, Idle) \/ To(m, "config")
  BY DEF PutVault, Returns
<1>4. json' \in [Places -> Embedders \cup {None}] /\ fence' \in [Machines -> BOOLEAN]
      /\ mishaps' \subseteq mishaps \cup {"raced"}
  BY <1>1 DEF PutVault, Returns, Hit, Flagged, Typed, DataOK
<1>5. DataOK' /\ config' = config /\ latest' = latest
  BY <1>2, <1>4 DEF Typed, DataOK, keyring
<1>6. QED
  BY <1>1, <1>3, <1>5, TypedTo, TypedEnds DEF Typed, Chosen

LEMMA TypedWriteConfig ==
  ASSUME Typed, NEW m \in Machines, StepOf(m), WriteConfig(m)
  PROVE  Typed'
<1> DEFINE r == [Idle EXCEPT !.op = cmd[m].op, !.at = "integrations"]
<1>1. cmd[m].at = "config" /\ latest[m] # NoKey /\ cmd[m].place \in Places
      /\ cmd[m].provider \in Providers /\ cmd[m].op \in {"new", "join", "reinit"}
  BY DEF WriteConfig, Typed, CmdInv, Chosen, Early
<1>2. config' \in [Machines -> [place : Places, provider : Providers] \cup {None}]
      /\ mishaps' \subseteq mishaps \cup {"unprobed", "adopted"}
  BY <1>1 DEF WriteConfig, Hit, Flagged, Typed, DataOK
<1>3. DataOK' /\ latest' = latest
  BY <1>2 DEF WriteConfig, Typed, DataOK, places, keyring
<1>4. r \in Commands /\ r.op = cmd[m].op /\ r.at = "integrations"
  BY <1>1 DEF Idle, Commands, NoKey
<1>5. cmd' \in [Machines -> Commands] /\ cmd'[m] = r
  BY <1>4, Goes DEF WriteConfig
<1>6. CmdInv(m)'
  BY <1>1, <1>4, <1>5 DEF CmdInv, Early, Chosen, Leaving
<1>7. QED
  BY <1>1, <1>3, <1>5, <1>6, TypedIf

LEMMA TypedJoinKey ==
  ASSUME Typed, NEW m \in Machines, StepOf(m), JoinKey(m)
  PROVE  Typed'
<1>1. DataOK' /\ config' = config /\ latest' = latest /\ cmd[m].at = "joinKey" /\ cmd[m].op = "join"
  BY DEF JoinKey, Typed, DataOK, CmdInv, places, keyring
<1>2. CASE IsConfigured(m, cmd[m].provider)
  BY <1>1, <1>2, TypedTo DEF JoinKey, Chosen
<1>3. CASE ~IsConfigured(m, cmd[m].provider)
  <2>1. PICK k \in 1..drawn : Sets(m, [cmd[m] EXCEPT !.at = "store", !.key = k])
    BY <1>3 DEF JoinKey
  <2>2. k \in Keys
    BY SetupAssumption DEF Typed, DataOK, Keys
  <2>3. [cmd[m] EXCEPT !.at = "store", !.key = k] \in Commands
    BY <2>2 DEF Typed, Commands, Early, Chosen
  <2>4. cmd' \in [Machines -> Commands] /\ cmd'[m] = [cmd[m] EXCEPT !.at = "store", !.key = k]
    BY <2>1, <2>3, Goes
  <2>5. CmdInv(m)'
    BY <1>1, <2>2, <2>4 DEF CmdInv, Early, Chosen, Leaving, Typed, Commands
  <2>6. QED
    BY <1>1, <2>4, <2>5, TypedIf DEF Typed
<1>4. QED
  BY <1>2, <1>3

(* A probe that goes on has a key; the command is a join, without a config. *)
LEMMA TypedProbe ==
  ASSUME Typed, NEW m \in Machines, StepOf(m), Probe(m)
  PROVE  Typed'
<1> DEFINE k == Read(m, cmd[m].provider)
           r == [cmd[m] EXCEPT !.at = "config", !.blind = (mems[cmd[m].place] = {})]
<1>1. cmd[m].at = "probe" /\ cmd[m].provider \in Providers
      /\ UNCHANGED <<places, clones, config, entry, file, env, drawn, up, daemon, spent>>
  BY DEF Probe, Typed, CmdInv, Chosen
<1>2. CASE k # NoKey /\ Sets(m, r) /\ Keep(m, cmd[m].provider) /\ UNCHANGED <<fence, mishaps>>
  <2>1. DataOK' /\ config' = config /\ latest'[m] = k
    BY <1>1, <1>2, ReadType DEF Keep, Typed, DataOK, places
  <2>2. r \in Commands
    BY DEF Typed, Commands, Early, Chosen
  <2>3. cmd' \in [Machines -> Commands] /\ cmd'[m] = r
    BY <1>2, <2>2, Goes
  <2>4. CmdInv(m)'
    BY <1>1, <1>2, <2>1, <2>3 DEF CmdInv, Early, Chosen, Leaving, Typed, Commands
  <2>5. QED
    BY <1>2, <2>1, <2>3, <2>4, TypedIf
<1>3. CASE Returns(m) /\ UNCHANGED latest
  <2>1. DataOK' /\ config' = config /\ latest' = latest /\ Sets(m, Idle)
    BY <1>1, <1>3 DEF Returns, Typed, DataOK, places
  <2>2. QED
    BY <2>1, TypedEnds DEF Typed
<1>4. QED
  BY <1>2, <1>3 DEF Probe

LEMMA TypedFinish ==
  ASSUME Typed, NEW m \in Machines, StepOf(m), Finish(m)
  PROVE  Typed'
<1>1. DataOK' /\ config' = config /\ latest' = latest /\ Sets(m, Idle)
  BY DEF Finish, Returns, Typed, DataOK, places, keyring
<1>2. QED
  BY <1>1, TypedEnds DEF Typed

LEMMA TypedDestroy ==
  ASSUME Typed, NEW m \in Machines, StepOf(m),
         DestroyBegins(m) \/ Choose(m) \/ RemoveConfig(m) \/ RemoveKey(m)
  PROVE  Typed'
<1>1. CASE DestroyBegins(m)
  <2> DEFINE r == [Idle EXCEPT !.op = "destroy", !.at = "choose", !.had = config[m],
                               !.provider = config[m].provider]
  <2>1. DataOK' /\ config' = config /\ latest' = latest /\ config[m] \in Configs
    BY <1>1 DEF DestroyBegins, Begin, Typed, DataOK, places, keyring, Configs
  <2>2. r \in Commands /\ r.op = "destroy" /\ r.at = "choose" /\ r.provider \in Providers
    BY <2>1 DEF Idle, Commands, NoKey, Leaving, Configs
  <2>3. cmd' \in [Machines -> Commands] /\ cmd'[m] = r
    BY <1>1, <2>2, Goes DEF DestroyBegins
  <2>4. CmdInv(m)'
    BY <2>2, <2>3 DEF CmdInv, Early, Leaving, Chosen
  <2>5. QED
    BY <2>1, <2>3, <2>4, TypedIf DEF Typed
<1>2. CASE Choose(m)
  <2>1. DataOK' /\ config' = config /\ latest' = latest /\ cmd[m].at = "choose"
    BY <1>2 DEF Choose, Typed, DataOK, places, keyring
  <2>2. CASE \E op \in {"destroy", "unset"} : Sets(m, [cmd[m] EXCEPT !.at = "rmConfig", !.op = op])
    <3>1. PICK op \in {"destroy", "unset"} : Sets(m, [cmd[m] EXCEPT !.at = "rmConfig", !.op = op])
      BY <2>2
    <3>2. [cmd[m] EXCEPT !.at = "rmConfig", !.op = op] \in Commands
      BY DEF Typed, Commands, Leaving
    <3>3. cmd' \in [Machines -> Commands] /\ cmd'[m] = [cmd[m] EXCEPT !.at = "rmConfig", !.op = op]
      BY <3>1, <3>2, Goes
    <3>4. CmdInv(m)'
      BY <2>1, <3>3 DEF CmdInv, Early, Chosen, Leaving, Typed, Commands
    <3>5. QED
      BY <2>1, <3>3, <3>4, TypedIf DEF Typed
  <2>3. CASE To(m, "rmKey")
    <3>1. cmd' \in [Machines -> Commands] /\ cmd'[m] = [cmd[m] EXCEPT !.at = "rmKey"]
      BY <2>3, GoesTo DEF Leaving
    <3>2. CmdInv(m)'
      BY <2>1, <3>1 DEF CmdInv, Early, Chosen, Leaving, Typed, Commands
    <3>3. QED
      BY <2>1, <3>1, <3>2, TypedIf DEF Typed
  <2>4. CASE Sets(m, Idle)
    BY <2>1, <2>4, TypedEnds DEF Typed
  <2>5. QED
    BY <1>2, <2>2, <2>3, <2>4 DEF Choose
<1>3. CASE RemoveConfig(m)
  <2>1. config' = [config EXCEPT ![m] = None] /\ fence' = [fence EXCEPT ![m] = FALSE]
    BY <1>3 DEF RemoveConfig
  <2>2. daemon' \in [Machines -> [place : Places, emb : Embedders, key : Keys, files : BOOLEAN] \cup {None}]
    <3>1. CASE daemon[m] = None
      BY <1>3, <3>1 DEF RemoveConfig, Typed, DataOK
    <3>2. CASE daemon[m] # None
      <4>1. daemon' = [daemon EXCEPT ![m] = [daemon[m] EXCEPT !.files = FALSE]]
        BY <1>3, <3>2 DEF RemoveConfig
      <4>2. daemon[m] \in [place : Places, emb : Embedders, key : Keys, files : BOOLEAN]
        BY <3>2 DEF Typed, DataOK
      <4>3. QED
        BY <4>1, <4>2 DEF Typed, DataOK
    <3>3. QED
      BY <3>1, <3>2
  <2>3. DataOK' /\ config'[m] = None
    BY <1>3, <2>1, <2>2 DEF RemoveConfig, Typed, DataOK, places, keyring
  <2>4. CASE To(m, "rmKey")
    <3>1. cmd' \in [Machines -> Commands] /\ cmd'[m] = [cmd[m] EXCEPT !.at = "rmKey"]
      BY <2>4, GoesTo DEF Leaving
    <3>2. CmdInv(m)'
      BY <1>3, <3>1 DEF RemoveConfig, CmdInv, Early, Chosen, Leaving, Typed, Commands
    <3>3. QED
      BY <2>3, <3>1, <3>2, TypedIf
  <2>5. CASE Sets(m, Idle)
    BY <2>3, <2>5, TypedEnds
  <2>6. QED
    BY <1>3, <2>4, <2>5 DEF RemoveConfig
<1>4. CASE RemoveKey(m)
  <2>1. entry' \in [Machines -> Keys \cup {NoKey}] /\ file' \in [Machines -> Keys \cup {NoKey}]
        /\ env' \in [Machines -> Keys \cup {NoKey}] /\ latest' = latest /\ drawn' = drawn
    BY <1>4 DEF RemoveKey, ClearStoredKey, Typed, DataOK
  <2>2. DataOK' /\ config' = config /\ Sets(m, Idle)
    BY <1>4, <2>1 DEF RemoveKey, Typed, DataOK, places
  <2>3. QED
    BY <2>1, <2>2, TypedEnds DEF Typed
<1>5. QED
  BY <1>1, <1>2, <1>3, <1>4

(* What leaves the commands alone.                                          *)
LEMMA TypedBesides ==
  ASSUME Typed, NEW m \in Machines, StepOf(m), DataOK', cmd' = cmd, config' = config, latest' = latest
  PROVE  Typed'
  BY DEF Typed, CmdInv

LEMMA TypedRest ==
  ASSUME Typed, NEW m \in Machines, StepOf(m),
         \/ Backup(m) \/ Restore(m) \/ MigrateKey(m) \/ AbortFence(m) \/ StartDaemon(m)
         \/ DaemonWrites(m) \/ DaemonEnds(m) \/ Kill(m) \/ KeychainChanges(m)
  PROVE  Typed'
<1>1. CASE Backup(m)
  <2>1. json[config[m].place] \in Embedders /\ mems[config[m].place] \in SUBSET Mementos
    BY <1>1 DEF Backup, Typed, DataOK
  <2>2. DataOK'
    BY <1>1, <2>1 DEF Backup, Typed, DataOK, keyring
  <2>3. QED
    BY <1>1, <2>2, TypedBesides DEF Backup, keyring
<1>2. CASE Restore(m)
  <2>1. backup \in [json : Embedders, mems : SUBSET Mementos] /\ config[m].place \in Places
    BY <1>2 DEF Restore, Typed, DataOK
  <2>2. json' \in [Places -> Embedders \cup {None}] /\ mems' \in [Places -> SUBSET Mementos]
    BY <1>2, <2>1 DEF Restore, Typed, DataOK
  <2>3. clones' \in [Machines -> SUBSET Remotes] /\ mishaps' \subseteq mishaps \cup {"restored"}
    BY <1>2 DEF Restore, Attach, Hit, Flagged, Typed, DataOK
  <2>4. DataOK'
    BY <1>2, <2>2, <2>3 DEF Restore, Typed, DataOK, keyring
  <2>5. QED
    BY <1>2, <2>4, TypedBesides DEF Restore, keyring
<1>3. CASE MigrateKey(m)
  <2>1. config[m] \in Configs /\ drawn + 1 \in Keys /\ drawn + 1 \in 0..MaxKeys /\ drawn + 1 # NoKey
    BY <1>3, SetupAssumption DEF MigrateKey, Typed, DataOK, Configs, Keys, NoKey
  <2>2. StoreEntropy(m, config[m].provider, drawn + 1)
    BY <1>3 DEF MigrateKey
  <2>3. \A f \in {entry', file', env', latest'} : f \in [Machines -> Keys \cup {NoKey}]
    BY <2>1, <2>2, StoreEffect DEF Typed, DataOK, Providers, Configs
  <2>4. mems' \in [Places -> SUBSET Mementos]
    <3>1. mems' = [mems EXCEPT ![config[m].place] = {[x EXCEPT !.key = drawn + 1] : x \in @}]
      BY <1>3 DEF MigrateKey
    <3>2. \A x \in mems[config[m].place] : [x EXCEPT !.key = drawn + 1] \in Mementos
      BY <2>1 DEF Typed, DataOK, Mementos, Configs
    <3>3. {[x EXCEPT !.key = drawn + 1] : x \in mems[config[m].place]} \in SUBSET Mementos
      BY <3>2
    <3>4. QED
      BY <3>1, <3>3 DEF Typed, DataOK
  <2>5. mishaps' \subseteq mishaps \cup {"switched", "shadowed"}
    BY <1>3 DEF MigrateKey, Hit, Flagged
  <2>6. DataOK' /\ cmd' = cmd /\ config' = config /\ cmd[m].op = "none"
    BY <1>3, <2>1, <2>3, <2>4, <2>5 DEF MigrateKey, Begin, Typed, DataOK
  <2>7. CmdInv(m)'
    BY <2>6 DEF CmdInv, Typed, Early, Chosen, Leaving
  <2>8. latest'[m] # NoKey
    BY <2>1, <2>2, StoreEffect DEF Configs, Typed, DataOK
  <2>9. QED
    BY <2>6, <2>7, <2>8, TypedIf DEF Typed
<1>4. CASE AbortFence(m)
  BY <1>4, TypedBesides DEF AbortFence, Typed, DataOK, places, keyring
<1>5. CASE StartDaemon(m)
  <2> DEFINE d == [place |-> config[m].place, emb |-> json[config[m].place],
                   key |-> Read(m, config[m].provider), files |-> TRUE]
  <2>1. config[m] \in Configs /\ Read(m, config[m].provider) # NoKey
    BY <1>5 DEF StartDaemon, Starts, Typed, DataOK, Configs
  <2>2. json[config[m].place] \in Embedders
    BY <1>5, <2>1 DEF StartDaemon, Starts, LocalJson, Typed, DataOK, Configs
  <2>3. d \in [place : Places, emb : Embedders, key : Keys, files : BOOLEAN]
    BY <2>1, <2>2, ReadType DEF Configs
  <2>4. daemon' = [daemon EXCEPT ![m] = d] /\ mishaps' \subseteq mishaps \cup {"slipped"}
    BY <1>5 DEF StartDaemon, Hit, Flagged
  <2>5. DataOK'
    BY <1>5, <2>3, <2>4 DEF StartDaemon, Typed, DataOK, places, keyring
  <2>6. QED
    BY <1>5, <2>5, TypedBesides DEF StartDaemon, keyring
<1>6. CASE DaemonWrites(m)
  <2>1. daemon[m] \in [place : Places, emb : Embedders, key : Keys, files : BOOLEAN]
    BY <1>6 DEF DaemonWrites, Typed, DataOK
  <2>2. [key |-> daemon[m].key, emb |-> daemon[m].emb] \in Mementos
    BY <2>1 DEF Mementos
  <2>3. mems' \in [Places -> SUBSET Mementos]
    BY <1>6, <2>1, <2>2 DEF DaemonWrites, Typed, DataOK
  <2>4. DataOK'
    BY <1>6, <2>3 DEF DaemonWrites, Typed, DataOK, keyring
  <2>5. QED
    BY <1>6, <2>4, TypedBesides DEF DaemonWrites, keyring
<1>7. CASE DaemonEnds(m)
  BY <1>7, TypedBesides DEF DaemonEnds, Typed, DataOK, places, keyring
<1>8. CASE Kill(m)
  <2>1. DataOK' /\ config' = config /\ latest' = latest /\ Sets(m, Idle)
    BY <1>8 DEF Kill, Typed, DataOK, places, keyring
  <2>2. QED
    BY <2>1, TypedEnds DEF Typed
<1>9. CASE KeychainChanges(m)
  BY <1>9, TypedBesides DEF KeychainChanges, Typed, DataOK, places, keyring
<1>10. QED
  BY <1>1, <1>2, <1>3, <1>4, <1>5, <1>6, <1>7, <1>8, <1>9

LEMMA TypedKeeps ==
  ASSUME Typed, NEW m \in Machines, StepOf(m)
  PROVE  Typed'
<1>1. CASE InitBegins(m) \/ InitStep(m)
  BY <1>1, TypedBegins, TypedWizard, TypedJoinStorage, TypedSetupKey, TypedStoreKey, TypedOpenStorage,
     TypedPutVault, TypedWriteConfig, TypedFinish, TypedJoinKey, TypedProbe DEF InitStep
<1>2. CASE DestroyBegins(m) \/ Choose(m) \/ RemoveConfig(m) \/ RemoveKey(m)
  BY <1>2, TypedDestroy
<1>3. QED
  BY <1>1, <1>2, TypedRest DEF StepOf

-----------------------------------------------------------------------------
(* The middle of an init: it ends, or goes on in front of its goal.         *)

Middle(m) ==
    \/ GiveUp(m) \/ SetupKey(m) \/ StoreKey(m) \/ OpenStorage(m) \/ PutVault(m)
    \/ Finish(m) \/ JoinKey(m) \/ Probe(m)
    \/ \E p \in Places, v \in Providers :
          JoinStorage(m, p, v) \/ \E e \in Embedders : Wizard(m, p, e, v)

LEMMA MiddleGoesOn ==
  ASSUME Typed, NEW m \in Machines, Middle(m)
  PROVE  /\ config' = config /\ daemon' = daemon
         /\ \/ cmd'[m].at = "idle"
            \/ /\ cmd[m].at \in Early \ {"guarded"} /\ cmd'[m].at \in Chosen
               /\ cmd'[m].op = cmd[m].op /\ fence' = fence
<1> DEFINE Over   == cmd'[m].at = "idle"
           On == cmd'[m].at \in Chosen /\ cmd'[m].op = cmd[m].op
<1>1. Sets(m, Idle) => Over
  BY DEF Typed, Sets, Idle
<1>2. \A s \in Chosen : To(m, s) => On
  <2>1. SUFFICES ASSUME NEW s \in Chosen, To(m, s) PROVE On
    OBVIOUS
  <2>2. cmd'[m] = [cmd[m] EXCEPT !.at = s]
    BY <2>1, GoesTo DEF Early
  <2>3. QED
    BY <2>2 DEF Typed, Commands
<1>3. cmd[m] \in Commands /\ DOMAIN cmd = Machines
  BY DEF Typed
<1> HIDE DEF Over, On
<1>4. CASE GiveUp(m) \/ Finish(m)
  BY <1>1, <1>4 DEF GiveUp, Finish, Returns, Over
<1>5. CASE SetupKey(m)
  <2>1. Draw(m) => On
    BY <1>3 DEF Draw, Sets, On, Commands, Chosen
  <2>2. cmd[m].provider \in Providers
    BY <1>5 DEF SetupKey, Typed, CmdInv, Chosen
  <2>3. QED
    BY <1>1, <1>2, <1>5, <2>1, <2>2, NoAnswer DEF SetupKey, Returns, Early, Chosen, On, Over
<1>6. CASE StoreKey(m)
  <2>1. Sets(m, [cmd[m] EXCEPT !.at = "storage", !.key = NoKey]) => On
    BY <1>3 DEF Sets, On, Commands, Chosen
  <2>2. QED
    BY <1>1, <1>2, <1>6, <2>1 DEF StoreKey, Returns, Early, Chosen, On, Over
<1>7. CASE OpenStorage(m)
  BY <1>1, <1>2, <1>7 DEF OpenStorage, Returns, Exits, Early, Chosen, On, Over
<1>8. CASE PutVault(m)
  BY <1>1, <1>2, <1>8 DEF PutVault, Returns, Early, Chosen, On, Over
<1>9. CASE JoinKey(m)
  <2>1. \A k \in 1..drawn : Sets(m, [cmd[m] EXCEPT !.at = "store", !.key = k]) => On
    BY <1>3 DEF Sets, On, Commands, Chosen
  <2>2. QED
    BY <1>2, <1>9, <2>1 DEF JoinKey, Early, Chosen, On, Over
<1>10. CASE Probe(m)
  <2>1. \A b \in BOOLEAN : Sets(m, [cmd[m] EXCEPT !.at = "config", !.blind = b]) => On
    BY <1>3 DEF Sets, On, Commands, Chosen
  <2>2. QED
    BY <1>1, <1>10, <2>1 DEF Probe, Returns, Early, Chosen, On, Over
<1>11. ASSUME NEW p \in Places, NEW v \in Providers, JoinStorage(m, p, v)
       PROVE  /\ config' = config /\ daemon' = daemon /\ cmd[m].at = "wizard"
              /\ Over \/ (On /\ fence' = fence)
  <2>1. Sets(m, [cmd[m] EXCEPT !.at = "joinKey", !.place = p, !.provider = v, !.emb = json[p]]) => On
    BY <1>3 DEF Sets, On, Commands, Chosen
  <2>2. QED
    BY <1>1, <1>11, <2>1 DEF JoinStorage, Exits
<1>12. ASSUME NEW p \in Places, NEW v \in Providers, NEW e \in Embedders, Wizard(m, p, e, v)
       PROVE  /\ config' = config /\ daemon' = daemon /\ cmd[m].at = "wizard"
              /\ Over \/ (On /\ fence' = fence)
  <2>1. Sets(m, [cmd[m] EXCEPT !.at = "key", !.place = p, !.emb = e, !.provider = v]) => On
    BY <1>3 DEF Sets, On, Commands, Chosen
  <2>2. QED
    BY <1>1, <1>12, <2>1 DEF Wizard, Exits
<1>13. QED
  BY <1>4, <1>5, <1>6, <1>7, <1>8, <1>9, <1>10, <1>11, <1>12 DEF Middle, On, Over, Early

(* A window that was hit stays hit.                                         *)
LEMMA Grows ==
  ASSUME Typed, NEW m \in Machines, StepOf(m)
  PROVE  mishaps \subseteq mishaps'
<1> USE DEF Hit, Exits, Returns, keyring, places
<1>1. CASE InitBegins(m) \/ RaiseFence(m) \/ GiveUp(m) \/ StoreKey(m) \/ PutVault(m)
            \/ WriteConfig(m) \/ Finish(m) \/ JoinKey(m) \/ Probe(m)
  BY <1>1 DEF InitBegins, RaiseFence, GiveUp, StoreKey, PutVault, WriteConfig, Finish, JoinKey, Probe
<1>2. CASE SetupKey(m)
  BY <1>2, NoAnswer DEF SetupKey, Typed, CmdInv, Chosen
<1>3. CASE OpenStorage(m)
  BY <1>3 DEF OpenStorage
<1>4. CASE \E p \in Places, v \in Providers :
             JoinStorage(m, p, v) \/ \E e \in Embedders : Wizard(m, p, e, v)
  BY <1>4 DEF JoinStorage, Wizard
<1>5. CASE DestroyBegins(m) \/ Choose(m) \/ RemoveConfig(m) \/ RemoveKey(m)
  BY <1>5 DEF DestroyBegins, Choose, RemoveConfig, RemoveKey
<1>6. CASE \/ Backup(m) \/ Restore(m) \/ MigrateKey(m) \/ AbortFence(m) \/ StartDaemon(m)
           \/ DaemonWrites(m) \/ DaemonEnds(m) \/ Kill(m) \/ KeychainChanges(m)
  BY <1>6 DEF Backup, Restore, MigrateKey, AbortFence, StartDaemon, DaemonWrites, DaemonEnds,
              Kill, KeychainChanges
<1>7. QED
  BY <1>1, <1>2, <1>3, <1>4, <1>5, <1>6 DEF StepOf, InitStep

-----------------------------------------------------------------------------
(* Nothing runs that its configuration does not describe.                   *)

LEMMA GuardedSame ==
  ASSUME NEW n \in Machines, Guarded(n), config'[n] = config[n], daemon'[n] = daemon[n],
         cmd'[n].at \in {"idle", "rmKey"} \/ (cmd'[n] = cmd[n] /\ fence'[n] = fence[n])
  PROVE  Guarded(n)'
  BY DEF Guarded, Early, Chosen

LEMMA GhostKeeps ==
  ASSUME Typed, Typed', GhostInv, NEW m \in Machines, StepOf(m)
  PROVE  GhostInv'
<1>1. SUFFICES ASSUME "slipped" \notin mishaps' PROVE Guarded(m)'
  <2>1. SUFFICES ASSUME "slipped" \notin mishaps', NEW n \in Machines \ {m} PROVE Guarded(n)'
    BY DEF GhostInv
  <2>2. Guarded(n)
    BY <2>1, Grows DEF GhostInv
  <2>3. QED
    BY <2>2, OthersSame DEF Same, Guarded
<1>2. Guarded(m) /\ CmdInv(m)
  BY <1>1, Grows DEF GhostInv, Typed
<1>3. CASE InitBegins(m)
  <2>1. daemon[m] = None /\ daemon' = daemon
    BY <1>3 DEF InitBegins
  <2>2. cmd'[m].at \notin Early \ {"guarded"} \/ cmd'[m].op # "reinit"
    <3>1. CASE config[m] = None
      <4>1. PICK op \in {"new", "join"} : cmd' = [cmd EXCEPT ![m] = [Idle EXCEPT !.op = op, !.at = "wizard"]]
        BY <1>3, <3>1 DEF InitBegins, Sets
      <4>2. QED
        BY <4>1 DEF Idle, Typed
    <3>2. CASE config[m] # None
      BY <1>3, <3>2 DEF InitBegins, Sets, Idle, Typed
    <3>3. QED
      BY <3>1, <3>2
  <2>3. QED
    BY <2>1, <2>2 DEF Guarded
<1>4. CASE RaiseFence(m)
  <2>1. cmd'[m].at = "wizard"
    BY <1>4 DEF RaiseFence, To, Typed, Commands
  <2>2. daemon[m] = None /\ daemon' = daemon /\ fence'[m] = TRUE
    BY <1>2, <1>4 DEF RaiseFence, Guarded, Typed, DataOK
  <2>3. QED
    BY <2>1, <2>2 DEF Guarded
<1>5. CASE Middle(m)
  <2>1. CASE cmd'[m].at = "idle"
    BY <1>2, <1>5, <2>1, MiddleGoesOn, GuardedSame
  <2>2. CASE cmd'[m].at # "idle"
    BY <1>2, <1>5, <2>2, MiddleGoesOn DEF Guarded, Early, Chosen
  <2>3. QED
    BY <2>1, <2>2
<1>6. CASE WriteConfig(m)
  <2>1. cmd[m].at = "config" /\ cmd[m].op \in {"new", "join", "reinit"}
    BY <1>2, <1>6 DEF WriteConfig, CmdInv, Early, Chosen
  <2>2. daemon[m] = None
    BY <1>2, <2>1 DEF Guarded, CmdInv, Early, Chosen
  <2>3. daemon' = daemon /\ cmd'[m].at = "integrations"
    BY <1>6 DEF WriteConfig, Sets, Idle, Typed
  <2>4. QED
    BY <2>2, <2>3 DEF Guarded, Early, Chosen
<1>7. CASE DestroyBegins(m)
  <2>1. daemon[m] = None /\ daemon' = daemon /\ cmd'[m].at = "choose"
    BY <1>7 DEF DestroyBegins, Sets, Idle, Typed
  <2>2. QED
    BY <2>1 DEF Guarded, Early, Chosen
<1>8. CASE Choose(m)
  <2>1. daemon[m] = None /\ daemon' = daemon
    BY <1>2, <1>8 DEF Choose, Guarded
  <2>2. cmd'[m].at \in {"rmConfig", "rmKey", "idle"}
    <3>1. CASE To(m, "rmKey") \/ Sets(m, Idle)
      BY <3>1 DEF Sets, To, Idle, Typed, Commands
    <3>2. ASSUME NEW op, Sets(m, [cmd[m] EXCEPT !.at = "rmConfig", !.op = op])
          PROVE  cmd'[m].at = "rmConfig"
      BY <3>2 DEF Sets, Typed, Commands
    <3>3. QED
      BY <1>8, <3>1, <3>2 DEF Choose
  <2>3. QED
    BY <2>1, <2>2 DEF Guarded, Early, Chosen
<1>9. CASE RemoveConfig(m)
  <2>1. daemon[m] = None /\ daemon' = daemon
    BY <1>2, <1>9 DEF RemoveConfig, Guarded
  <2>2. cmd'[m].at \in {"rmKey", "idle"}
    BY <1>9 DEF RemoveConfig, Sets, To, Idle, Typed, Commands
  <2>3. QED
    BY <2>1, <2>2 DEF Guarded, Early, Chosen
<1>10. CASE RemoveKey(m) \/ Kill(m)
  <2>1. config' = config /\ daemon' = daemon /\ cmd'[m].at = "idle"
    BY <1>10 DEF RemoveKey, Kill, Sets, Idle, Typed
  <2>2. QED
    BY <1>2, <2>1, GuardedSame
<1>11. CASE AbortFence(m)
  <2>1. cmd[m].at = "idle" /\ cmd' = cmd /\ config' = config /\ daemon' = daemon
    BY <1>2, <1>11 DEF AbortFence, Begin, CmdInv
  <2>2. QED
    BY <1>2, <2>1, GuardedSame
<1>12. CASE StartDaemon(m)
  <2>1. cmd[m].at \notin {"guarded", "choose", "rmConfig"}
    BY <1>1, <1>12 DEF StartDaemon, Hit, Flagged
  <2>2. ~fence[m] /\ config[m] # None /\ config' = config /\ cmd' = cmd
    BY <1>12 DEF StartDaemon, Starts
  <2>3. daemon'[m].files /\ daemon'[m].place = config[m].place
    BY <1>12 DEF StartDaemon, Typed, DataOK
  <2>4. QED
    BY <1>2, <2>1, <2>2, <2>3 DEF Guarded
<1>13. CASE DaemonEnds(m)
  <2>1. daemon'[m] = None /\ cmd' = cmd /\ fence' = fence
    BY <1>13 DEF DaemonEnds, Typed, DataOK
  <2>2. QED
    BY <1>2, <2>1 DEF Guarded
<1>14. CASE Backup(m) \/ MigrateKey(m) \/ DaemonWrites(m) \/ KeychainChanges(m)
  BY <1>2, <1>14, GuardedSame DEF Backup, MigrateKey, DaemonWrites, KeychainChanges
<1>16. CASE Restore(m)
  <2>1. cmd[m].at = "idle" /\ cmd' = cmd /\ config' = config /\ daemon' = daemon
    BY <1>2, <1>16 DEF Restore, Begin, CmdInv
  <2>2. QED
    BY <1>2, <2>1, GuardedSame
<1>15. QED
  BY <1>3, <1>4, <1>5, <1>6, <1>7, <1>8, <1>9, <1>10, <1>11, <1>12, <1>13, <1>14, <1>16
     DEF StepOf, InitStep, Middle

-----------------------------------------------------------------------------
(* A provider has one key, the last that the machine stored or kept.        *)

LEMMA ReadIsSole ==
  ASSUME Typed, NEW m \in Machines, entry[m] = NoKey \/ file[m] = NoKey, NEW v \in Providers
  PROVE  /\ Read(m, v) \in {NoKey, Sole(m, v)}
         /\ (Read(m, v) = NoKey /\ ~Unreachable(m, v)) => Sole(m, v) = NoKey
<1>1. CASE v = "env"
  BY <1>1 DEF Read, Sole
<1>2. CASE v = "keychain" /\ up[m]
  BY <1>2 DEF Read, Sole, Found
<1>3. CASE v = "keychain" /\ ~up[m]
  BY <1>3 DEF Read, Sole, Found, Unreachable, Broken
<1>4. QED
  BY <1>1, <1>2, <1>3 DEF Providers

LEMMA RingSame ==
  ASSUME NEW n \in Machines, Ring(n), mishaps \subseteq mishaps', config'[n] = config[n],
         entry'[n] = entry[n], file'[n] = file[n], env'[n] = env[n], latest'[n] = latest[n],
         daemon'[n] \in {daemon[n], None},
         \/ cmd'[n].at \notin {"store", "storage", "put", "config"}
         \/ cmd'[n] = cmd[n]
         \/ /\ cmd[n].at \in {"storage", "put"} /\ cmd'[n].at \in {"put", "config"}
            /\ cmd'[n].provider = cmd[n].provider
  PROVE  Ring(n)'
  BY DEF Ring, Sole

LEMMA RingStoreKey ==
  ASSUME Typed, Typed', GhostInv, NEW m \in Machines, Ring(m), StepOf(m), StoreKey(m)
  PROVE  Ring(m)'
<1>1. cmd[m].provider \in Providers /\ cmd[m].key \in Keys /\ cmd[m].at = "store" /\ cmd[m] \in Commands
      /\ cmd[m].op \in {"new", "join", "reinit"} /\ CmdInv(m) /\ cmd[m].at \in Early \ {"guarded"}
  BY DEF StoreKey, Typed, CmdInv, Early, Chosen
<1>2. UNCHANGED <<config, up, daemon>>
  BY DEF StoreKey
<1>3. CASE StoreEntropy(m, cmd[m].provider, cmd[m].key) /\ cmd'[m].at \in {"probe", "storage"}
           /\ cmd'[m].provider = cmd[m].provider
  <2>1. Sole(m, cmd[m].provider)' = cmd[m].key /\ latest'[m] = cmd[m].key
        /\ (entry'[m] = NoKey \/ file'[m] = NoKey)
    BY <1>1, <1>3, StoreEffect DEF Sole, Ring, Providers, Typed, DataOK
  <2>2. config[m] # None => config[m].provider = cmd[m].provider
    BY <1>1 DEF CmdInv, Early, Chosen
  <2>3. "slipped" \notin mishaps => daemon[m] = None
    BY <1>1 DEF GhostInv, Guarded, CmdInv
  <2>4. QED
    BY <1>2, <1>3, <2>1, <2>2, <2>3, Grows DEF Ring
<1>4. CASE Returns(m) /\ UNCHANGED <<entry, file, env, latest>>
  <2>1. cmd'[m].at = "idle"
    BY <1>4 DEF Returns, Sets, Idle, Typed
  <2>2. QED
    BY <1>2, <1>4, <2>1, RingSame, Grows
<1>5. QED
  <2>1. To(m, "probe") => cmd'[m].at = "probe" /\ cmd'[m].provider = cmd[m].provider
    BY DEF To, Typed, Commands
  <2>2. Sets(m, [cmd[m] EXCEPT !.at = "storage", !.key = NoKey]) =>
          cmd'[m].at = "storage" /\ cmd'[m].provider = cmd[m].provider
    BY DEF Sets, Typed, Commands
  <2>3. QED
    BY <1>3, <1>4, <2>1, <2>2 DEF StoreKey

LEMMA RingSetupKey ==
  ASSUME Typed, Typed', NEW m \in Machines, Ring(m), StepOf(m), SetupKey(m)
  PROVE  Ring(m)'
<1> DEFINE v == cmd[m].provider
<1>1. v \in Providers /\ cmd[m].at = "key" /\ CmdInv(m) /\ cmd[m].at \in Early /\ cmd[m].at \in Chosen
      /\ cmd[m].op \in {"new", "join", "reinit"}
  BY DEF SetupKey, Typed, CmdInv, Early, Chosen
<1>2. UNCHANGED <<config, entry, file, env, daemon>> /\ mishaps \subseteq mishaps'
  BY Grows DEF SetupKey
<1>3. config[m] # None => config[m].provider = v
  BY <1>1 DEF CmdInv
<1>4. Read(m, v) \in {NoKey, Sole(m, v)}
      /\ ((Read(m, v) = NoKey /\ ~Unreachable(m, v)) => Sole(m, v) = NoKey)
  BY <1>1, ReadIsSole DEF Ring
<1>5. CASE Read(m, v) # NoKey
  <2>1. latest'[m] = Read(m, v) /\ To(m, "storage")
    BY <1>1, <1>5, NoAnswer DEF SetupKey, Keep, Typed, DataOK
  <2>2. cmd'[m].at = "storage" /\ cmd'[m].provider = v
    BY <2>1 DEF To, Typed, Commands
  <2>3. QED
    BY <1>2, <1>3, <1>4, <1>5, <2>1, <2>2 DEF Ring, Sole
<1>6. CASE Read(m, v) = NoKey /\ Unreachable(m, v)
  <2>1. cmd'[m].at = "idle" /\ latest' = latest
    BY <1>6 DEF SetupKey, Returns, Sets, Idle, Typed
  <2>2. QED
    BY <1>2, <2>1, RingSame
<1>7. CASE Read(m, v) = NoKey /\ ~Unreachable(m, v)
  <2>1. cmd'[m].at = "store" /\ cmd'[m].provider = v /\ latest' = latest
    <3>1. Sets(m, [cmd[m] EXCEPT !.at = "store", !.key = drawn + 1]) /\ latest' = latest
      BY <1>7 DEF SetupKey, Draw
    <3>2. QED
      BY <3>1 DEF Sets, Typed, Commands
  <2>2. QED
    BY <1>2, <1>4, <1>7, <2>1 DEF Ring, Sole
<1>8. QED
  BY <1>5, <1>6, <1>7

LEMMA RingJoin ==
  ASSUME Typed, Typed', GhostInv, NEW m \in Machines, Ring(m), StepOf(m), JoinKey(m) \/ Probe(m)
  PROVE  Ring(m)'
<1> DEFINE v == cmd[m].provider
<1>1. v \in Providers /\ CmdInv(m) /\ cmd[m].at \in Early /\ cmd[m].at \in Chosen
  BY DEF JoinKey, Probe, Typed, CmdInv, Early, Chosen
<1>2. UNCHANGED <<config, entry, file, env, daemon>> /\ mishaps \subseteq mishaps'
  BY Grows DEF JoinKey, Probe, keyring
<1>3. Read(m, v) \in {NoKey, Sole(m, v)}
      /\ ((Read(m, v) = NoKey /\ ~Unreachable(m, v)) => Sole(m, v) = NoKey)
  BY <1>1, ReadIsSole DEF Ring
<1>4. CASE JoinKey(m) /\ IsConfigured(m, v)
  <2>1. cmd'[m].at = "probe" /\ latest' = latest
    BY <1>4 DEF JoinKey, To, Typed, Commands, keyring
  <2>2. QED
    BY <1>2, <2>1, RingSame
<1>5. CASE JoinKey(m) /\ ~IsConfigured(m, v)
  <2>1. PICK k \in 1..drawn : Sets(m, [cmd[m] EXCEPT !.at = "store", !.key = k])
    BY <1>5 DEF JoinKey
  <2>2. cmd'[m].at = "store" /\ cmd'[m].provider = v /\ latest' = latest
    BY <1>5, <2>1 DEF JoinKey, Sets, Typed, Commands, keyring
  <2>3. Sole(m, v) = NoKey
    BY <1>3, <1>5 DEF IsConfigured
  <2>4. QED
    BY <1>2, <2>2, <2>3 DEF Ring, Sole
<1>6. CASE Probe(m)
  <2>1. CASE Returns(m) /\ UNCHANGED latest
    <3>1. cmd'[m].at = "idle"
      BY <2>1 DEF Returns, Sets, Idle, Typed
    <3>2. QED
      BY <1>2, <2>1, <3>1, RingSame
  <2>2. CASE ~(Returns(m) /\ UNCHANGED latest)
    <3>1. Read(m, v) # NoKey /\ latest'[m] = Read(m, v)
      BY <1>6, <2>2 DEF Probe, Keep, Typed, DataOK
    <3>2. cmd'[m].at = "config" /\ cmd'[m].provider = v
      <4>1. PICK b \in BOOLEAN : Sets(m, [cmd[m] EXCEPT !.at = "config", !.blind = b])
        BY <1>6, <2>2 DEF Probe
      <4>2. QED
        BY <4>1 DEF Sets, Typed, Commands
    <3>3. config[m] # None => config[m].provider = v
      BY <1>1 DEF CmdInv, Typed
    <3>4. QED
      BY <1>2, <1>3, <3>1, <3>2, <3>3 DEF Ring, Sole
  <2>3. QED
    BY <2>1, <2>2
<1>7. QED
  BY <1>4, <1>5, <1>6

LEMMA RingRemoveKey ==
  ASSUME Typed, Typed', NEW m \in Machines, Ring(m), StepOf(m), RemoveKey(m)
  PROVE  Ring(m)'
<1>1. UNCHANGED <<config, daemon, latest>> /\ cmd'[m].at = "idle"
  BY DEF RemoveKey, ClearStoredKey, Sets, Idle, Typed
<1>2. entry'[m] \in {NoKey, entry[m]} /\ file'[m] \in {NoKey, file[m]} /\ env'[m] \in {NoKey, env[m]}
  BY DEF RemoveKey, ClearStoredKey, Typed, DataOK
<1>3. entry' = entry \/ (entry'[m] = NoKey /\ file'[m] = NoKey)
  <2>1. CASE cmd[m].provider = "env" \/ ~up[m]
    BY <2>1 DEF RemoveKey, ClearStoredKey
  <2>2. CASE cmd[m].provider # "env" /\ up[m]
    BY <2>2 DEF RemoveKey, ClearStoredKey, Typed, DataOK
  <2>3. QED
    BY <2>1, <2>2
<1>4. \A v : Sole(m, v)' \in {NoKey, Sole(m, v)}
  BY <1>2, <1>3 DEF Sole, Ring
<1>5. QED
  BY <1>1, <1>2, <1>4, Grows DEF Ring

LEMMA RingMigrateKey ==
  ASSUME Typed, Typed', NEW m \in Machines, Ring(m), StepOf(m), MigrateKey(m),
         "shadowed" \notin mishaps'
  PROVE  Ring(m)'
<1> DEFINE v == config[m].provider
<1>1. v \in Providers /\ drawn + 1 \in Keys
  BY SetupAssumption DEF MigrateKey, Typed, DataOK, Keys
<1>2. StoreEntropy(m, v, drawn + 1) /\ Read(m, v) # NoKey /\ daemon[m] = None /\ cmd[m].op = "none"
      /\ UNCHANGED <<config, daemon, cmd>>
  BY DEF MigrateKey, Begin
<1>3. v = "keychain" /\ up[m] => file[m] = NoKey
  BY DEF MigrateKey, Hit, Flagged
<1>4. v = "keychain" /\ ~up[m] => entry[m] = NoKey
  BY <1>1, <1>2 DEF Read, Found, Ring
<1>5. latest'[m] = drawn + 1 /\ Sole(m, v)' = drawn + 1 /\ (entry'[m] = NoKey \/ file'[m] = NoKey)
  BY <1>1, <1>2, <1>3, <1>4, StoreEffect DEF Sole, Ring, Providers, Typed, DataOK, Keys, NoKey
<1>6. cmd'[m].at = "idle"
  BY <1>2 DEF Typed, CmdInv
<1>7. QED
  BY <1>2, <1>5, <1>6 DEF Ring

(* These steps do not come near storing a key or writing the configuration. *)
LEMMA FarFromConfig ==
  ASSUME Typed, NEW m \in Machines,
         \/ InitBegins(m) \/ RaiseFence(m) \/ DestroyBegins(m) \/ Choose(m)
         \/ \E p \in Places, v \in Providers :
               JoinStorage(m, p, v) \/ \E e \in Embedders : Wizard(m, p, e, v)
  PROVE  cmd'[m].at \notin {"store", "storage", "put", "config"}
<1> DEFINE Away == cmd'[m].at \notin {"store", "storage", "put", "config"}
<1>1. Sets(m, Idle) => Away
  BY DEF Sets, Idle, Typed
<1>2. CASE InitBegins(m)
  <2>1. \A op : Sets(m, [Idle EXCEPT !.op = op, !.at = "wizard"]) => Away
    BY DEF Sets, Idle, Typed
  <2>2. Sets(m, [Idle EXCEPT !.op = "reinit", !.at = "guarded", !.had = config[m]]) => Away
    BY DEF Sets, Idle, Typed
  <2>3. QED
    BY <1>2, <2>1, <2>2 DEF InitBegins
<1>3. CASE RaiseFence(m)
  BY <1>3 DEF RaiseFence, To, Typed, Commands
<1>4. CASE DestroyBegins(m)
  BY <1>4 DEF DestroyBegins, Sets, Idle, Typed
<1>5. CASE Choose(m)
  <2>1. \A op : Sets(m, [cmd[m] EXCEPT !.at = "rmConfig", !.op = op]) => Away
    BY DEF Sets, Typed, Commands
  <2>2. To(m, "rmKey") => Away
    BY DEF To, Typed, Commands
  <2>3. QED
    BY <1>1, <1>5, <2>1, <2>2 DEF Choose
<1>6. ASSUME NEW p, NEW v, JoinStorage(m, p, v) PROVE Away
  <2>1. Sets(m, [cmd[m] EXCEPT !.at = "joinKey", !.place = p, !.provider = v, !.emb = json[p]]) => Away
    BY DEF Sets, Typed, Commands
  <2>2. QED
    BY <1>1, <1>6, <2>1 DEF JoinStorage, Exits
<1>7. ASSUME NEW p, NEW v, NEW e, Wizard(m, p, e, v) PROVE Away
  <2>1. Sets(m, [cmd[m] EXCEPT !.at = "key", !.place = p, !.emb = e, !.provider = v]) => Away
    BY DEF Sets, Typed, Commands
  <2>2. QED
    BY <1>1, <1>7, <2>1 DEF Wizard, Exits
<1>8. QED
  BY <1>2, <1>3, <1>4, <1>5, <1>6, <1>7

LEMMA KeyringKeeps ==
  ASSUME Typed, Typed', GhostInv, GhostInv', KeyringInv, NEW m \in Machines, StepOf(m)
  PROVE  KeyringInv'
<1>1. SUFFICES ASSUME "shadowed" \notin mishaps' PROVE Ring(m)'
  <2>1. SUFFICES ASSUME "shadowed" \notin mishaps', NEW n \in Machines \ {m} PROVE Ring(n)'
    BY DEF KeyringInv
  <2>2. Ring(n)
    BY <2>1, Grows DEF KeyringInv
  <2>3. QED
    BY <2>2, OthersSame, RingSame, Grows DEF Same
<1>2. Ring(m) /\ CmdInv(m) /\ mishaps \subseteq mishaps'
  BY <1>1, Grows DEF KeyringInv, Typed
<1>3. CASE StoreKey(m) \/ SetupKey(m) \/ JoinKey(m) \/ Probe(m)
  BY <1>2, <1>3, RingStoreKey, RingSetupKey, RingJoin
<1>4. CASE RemoveKey(m) \/ MigrateKey(m)
  BY <1>1, <1>2, <1>4, RingRemoveKey, RingMigrateKey
<1>5. CASE GiveUp(m) \/ Finish(m) \/ Kill(m)
  <2>1. UNCHANGED <<config, keyring, daemon>> /\ cmd'[m].at = "idle"
    BY <1>5 DEF GiveUp, Finish, Kill, Returns, Sets, Idle, Typed
  <2>2. QED
    BY <1>2, <2>1, RingSame DEF keyring
<1>6. CASE OpenStorage(m) \/ PutVault(m)
  <2>1. UNCHANGED <<config, keyring, daemon>> /\ cmd[m].at \in {"storage", "put"}
    BY <1>6 DEF OpenStorage, PutVault
  <2>2. Sets(m, Idle) \/ To(m, "put") \/ To(m, "config")
    BY <1>6 DEF OpenStorage, PutVault, Exits, Returns
  <2>3. cmd'[m].at = "idle" \/ (cmd'[m].at \in {"put", "config"} /\ cmd'[m].provider = cmd[m].provider)
    BY <2>2 DEF Sets, To, Idle, Typed, Commands
  <2>4. QED
    BY <1>2, <2>1, <2>3, RingSame DEF keyring
<1>7. CASE \/ InitBegins(m) \/ RaiseFence(m) \/ DestroyBegins(m) \/ Choose(m)
           \/ \E p \in Places, v \in Providers :
                 JoinStorage(m, p, v) \/ \E e \in Embedders : Wizard(m, p, e, v)
  <2>1. UNCHANGED <<config, keyring, daemon>>
    BY <1>7 DEF InitBegins, RaiseFence, DestroyBegins, Choose, JoinStorage, Wizard
  <2>2. cmd'[m].at \notin {"store", "storage", "put", "config"}
    BY <1>7, FarFromConfig
  <2>3. QED
    BY <1>2, <2>1, <2>2, RingSame DEF keyring
<1>8. CASE WriteConfig(m)
  <2>1. cmd[m].at = "config" /\ UNCHANGED <<entry, file, env, latest, daemon>>
    BY <1>8 DEF WriteConfig, keyring
  <2>2. config'[m].provider = cmd[m].provider /\ cmd'[m].at = "integrations"
    BY <1>8 DEF WriteConfig, Sets, Idle, Typed, DataOK
  <2>3. "slipped" \notin mishaps => daemon[m] = None
    BY <1>2, <2>1 DEF GhostInv, Guarded, CmdInv, Early, Chosen
  <2>4. QED
    BY <1>2, <2>1, <2>2, <2>3 DEF Ring, Sole
<1>9. CASE RemoveConfig(m)
  <2>1. UNCHANGED <<entry, file, env, latest>> /\ config'[m] = None
    BY <1>9 DEF RemoveConfig, keyring, Typed, DataOK
  <2>2. cmd'[m].at \in {"rmKey", "idle"}
    BY <1>9 DEF RemoveConfig, Sets, To, Idle, Typed, Commands
  <2>3. "slipped" \notin mishaps => daemon'[m] = None
    BY <1>9 DEF RemoveConfig, GhostInv, Guarded
  <2>4. QED
    BY <1>2, <2>1, <2>2, <2>3 DEF Ring
<1>10. CASE StartDaemon(m)
  <2>1. UNCHANGED <<config, entry, file, env, latest, cmd>>
    BY <1>10 DEF StartDaemon, keyring
  <2>2. config[m].provider \in Providers
    BY <1>10 DEF StartDaemon, Starts, Typed, DataOK
  <2>3. daemon'[m].key = Read(m, config[m].provider) /\ Read(m, config[m].provider) # NoKey
    BY <1>10 DEF StartDaemon, Starts, Typed, DataOK
  <2>4. QED
    BY <1>2, <2>1, <2>2, <2>3, ReadIsSole DEF Ring, Sole
<1>11. CASE DaemonEnds(m)
  BY <1>2, <1>11, RingSame DEF DaemonEnds, keyring, Typed, DataOK
<1>12. CASE Backup(m) \/ Restore(m) \/ AbortFence(m) \/ DaemonWrites(m) \/ KeychainChanges(m)
  BY <1>2, <1>12, RingSame DEF Backup, Restore, AbortFence, DaemonWrites, KeychainChanges, keyring
<1>13. QED
  BY <1>3, <1>4, <1>5, <1>6, <1>7, <1>8, <1>9, <1>10, <1>11, <1>12 DEF StepOf, InitStep

-----------------------------------------------------------------------------
(* Everything that writes to a place is of the embedder it names.           *)

LEMMA SpaceSame ==
  ASSUME Typed, SpaceInv, mishaps \subseteq mishaps', json' = json, mems' = mems, backup' = backup,
         \A n \in Machines : daemon'[n] # None =>
            daemon[n] # None /\ daemon'[n].emb = daemon[n].emb /\ daemon'[n].place = daemon[n].place
  PROVE  SpaceInv'
  BY DEF SpaceInv

LEMMA SpaceKeeps ==
  ASSUME Typed, Typed', SpaceInv, NEW m \in Machines, StepOf(m)
  PROVE  SpaceInv'
<1>1. CASE PutVault(m)
  <2>1. SUFFICES ASSUME mishaps' \cap {"raced", "restored"} = {} PROVE SpaceInv'
    BY DEF SpaceInv
  <2>2. mishaps \cap {"raced", "restored"} = {}
    BY <2>1, Grows
  <2>3. UNCHANGED <<mems, backup, daemon>>
    BY <1>1 DEF PutVault
  <2>4. CASE json' = json
    BY <2>3, <2>4, SpaceSame, Grows
  <2>5. CASE json' # json
    <3>1. json[cmd[m].place] = None /\ json' = [json EXCEPT ![cmd[m].place] = cmd[m].emb]
      <4>1. json' = [json EXCEPT ![cmd[m].place] = cmd[m].emb]
            /\ json[cmd[m].place] \in {None, cmd[m].emb}
        BY <1>1, <2>1, <2>5 DEF PutVault, Hit, Flagged
      <4>2. json[cmd[m].place] # cmd[m].emb
        BY <2>5, <4>1 DEF Typed, DataOK
      <4>3. QED
        BY <4>1, <4>2
    <3>2. mems[cmd[m].place] = {} \/ cmd[m].place \notin Places
      BY <2>2, <3>1, SetupAssumption DEF SpaceInv, Typed, DataOK, Mementos
    <3>3. \A n \in Machines : daemon[n] # None => daemon[n].place # cmd[m].place
      BY <2>2, <3>1, SetupAssumption DEF SpaceInv, Typed, DataOK
    <3>4. \A p \in Places : \A x \in mems'[p] : x.emb = json'[p]
      BY <2>2, <2>3, <3>1, <3>2 DEF SpaceInv, Typed, DataOK
    <3>5. \A n \in Machines : daemon'[n] # None => daemon'[n].emb = json'[daemon'[n].place]
      BY <2>2, <2>3, <3>1, <3>3 DEF SpaceInv, Typed, DataOK
    <3>6. QED
      BY <2>2, <2>3, <3>4, <3>5 DEF SpaceInv
  <2>6. QED
    BY <2>4, <2>5
<1>2. CASE Backup(m)
  <2>1. UNCHANGED <<json, mems, daemon, mishaps>> /\ config[m].place \in Places
    BY <1>2 DEF Backup, Typed, DataOK
  <2>2. backup' = [json |-> json[config[m].place], mems |-> mems[config[m].place]]
    BY <1>2 DEF Backup
  <2>3. QED
    BY <2>1, <2>2 DEF SpaceInv
<1>11. CASE Restore(m) /\ daemon[m] # None
  <2>1. UNCHANGED <<json, mems, backup, daemon, mishaps>>
    BY <1>11 DEF Restore
  <2>2. QED
    BY <2>1 DEF SpaceInv
<1>3. CASE Restore(m) /\ daemon[m] = None
  <2>1. SUFFICES ASSUME mishaps' \cap {"raced", "restored"} = {} PROVE SpaceInv'
    BY DEF SpaceInv
  <2>2. mishaps \cap {"raced", "restored"} = {}
    BY <2>1, Grows
  <2>3. UNCHANGED <<backup, daemon>> /\ config[m].place \in Places /\ backup # None
        /\ json' = [json EXCEPT ![config[m].place] = backup.json]
        /\ mems' = [mems EXCEPT ![config[m].place] = @ \cup backup.mems]
    BY <1>3 DEF Restore, Typed, DataOK
  <2>4. json'[config[m].place] = json[config[m].place]
    BY <1>3, <2>1 DEF Restore, Hit, Flagged
  <2>5. json' = json /\ backup.json = json[config[m].place]
    BY <2>3, <2>4 DEF Typed, DataOK
  <2>6. \A p \in Places : \A x \in mems'[p] : x.emb = json'[p]
    BY <2>2, <2>3, <2>5 DEF SpaceInv, Typed, DataOK
  <2>7. QED
    BY <2>2, <2>3, <2>5, <2>6 DEF SpaceInv
<1>4. CASE MigrateKey(m)
  <2>1. UNCHANGED <<json, backup, daemon>> /\ config[m].place \in Places /\ mishaps \subseteq mishaps'
        /\ mems' = [mems EXCEPT ![config[m].place] = {[x EXCEPT !.key = drawn + 1] : x \in @}]
    BY <1>4, Grows DEF MigrateKey, Typed, DataOK
  <2>2. \A x \in mems[config[m].place] : [x EXCEPT !.key = drawn + 1].emb = x.emb
    BY <2>1 DEF Typed, DataOK, Mementos
  <2>3. ASSUME NEW p \in Places, NEW y \in mems'[p] PROVE \E x \in mems[p] : y.emb = x.emb
    <3>1. CASE p = config[m].place
      <4>1. mems'[p] = {[x EXCEPT !.key = drawn + 1] : x \in mems[p]}
        BY <2>1, <3>1 DEF Typed, DataOK
      <4>2. PICK x \in mems[p] : y = [x EXCEPT !.key = drawn + 1]
        BY <2>3, <4>1
      <4>3. QED
        BY <2>2, <3>1, <4>2
    <3>2. CASE p # config[m].place
      BY <2>1, <2>3, <3>2 DEF Typed, DataOK
    <3>3. QED
      BY <3>1, <3>2
  <2>4. QED
    BY <2>1, <2>3 DEF SpaceInv
<1>5. CASE StartDaemon(m)
  <2>1. UNCHANGED <<json, mems, backup>> /\ mishaps \subseteq mishaps'
    BY <1>5, Grows DEF StartDaemon, places
  <2>2. daemon' = [daemon EXCEPT ![m] = [place |-> config[m].place, emb |-> json[config[m].place],
                                         key |-> Read(m, config[m].provider), files |-> TRUE]]
    BY <1>5 DEF StartDaemon
  <2>3. \A n \in Machines : daemon'[n] = daemon[n] \/ daemon'[n].emb = json[daemon'[n].place]
    BY <2>2 DEF Typed, DataOK
  <2>4. QED
    BY <2>1, <2>3 DEF SpaceInv
<1>6. CASE DaemonWrites(m)
  <2>1. UNCHANGED <<json, backup, daemon, mishaps>> /\ daemon[m] # None /\ daemon[m].place \in Places
        /\ mems' = [mems EXCEPT ![daemon[m].place] = @ \cup {[key |-> daemon[m].key, emb |-> daemon[m].emb]}]
    BY <1>6 DEF DaemonWrites, Typed, DataOK
  <2>2. \A p \in Places : \A x \in mems'[p] :
           x \in mems[p] \/ (p = daemon[m].place /\ x.emb = daemon[m].emb)
    BY <2>1 DEF Typed, DataOK
  <2>3. QED
    BY <2>1, <2>2 DEF SpaceInv
<1>7. CASE RemoveConfig(m)
  <2>1. UNCHANGED places /\ mishaps' = mishaps
        /\ daemon' = IF daemon[m] = None THEN daemon ELSE [daemon EXCEPT ![m].files = FALSE]
    BY <1>7 DEF RemoveConfig
  <2>2. \A n \in Machines : daemon'[n] # None =>
           daemon[n] # None /\ daemon'[n].emb = daemon[n].emb /\ daemon'[n].place = daemon[n].place
    BY <2>1 DEF Typed, DataOK
  <2>3. QED
    BY <2>1, <2>2, SpaceSame DEF places
<1>8. CASE DaemonEnds(m)
  <2>1. UNCHANGED places /\ mishaps' = mishaps /\ daemon' = [daemon EXCEPT ![m] = None]
    BY <1>8 DEF DaemonEnds
  <2>2. QED
    BY <2>1, SpaceSame DEF places, Typed, DataOK
<1>9. CASE UNCHANGED places /\ daemon' = daemon
  BY <1>9, SpaceSame, Grows DEF places
<1>10. QED
  <2>1. CASE Middle(m) /\ ~PutVault(m)
    <3>1. daemon' = daemon
      BY <2>1, MiddleGoesOn
    <3>2. UNCHANGED places
      BY <2>1 DEF Middle, GiveUp, SetupKey, StoreKey, OpenStorage, Finish, JoinKey, Probe,
                  JoinStorage, Wizard
    <3>3. QED
      BY <1>9, <3>1, <3>2
  <2>2. CASE InitBegins(m) \/ RaiseFence(m) \/ WriteConfig(m) \/ DestroyBegins(m) \/ Choose(m)
             \/ RemoveKey(m) \/ AbortFence(m) \/ Kill(m) \/ KeychainChanges(m)
    BY <1>9, <2>2 DEF InitBegins, RaiseFence, WriteConfig, DestroyBegins, Choose, RemoveKey,
                      AbortFence, Kill, KeychainChanges
  <2>3. QED
    BY <1>1, <1>2, <1>3, <1>4, <1>5, <1>6, <1>7, <1>8, <1>11, <2>1, <2>2 DEF StepOf, InitStep, Middle

-----------------------------------------------------------------------------
(* Everything that writes to a place uses one key.                          *)

Mixed == {"adopted", "unprobed", "restored", "switched", "shadowed"}

LEMMA OnlySame ==
  ASSUME NEW p, NEW k, OnlyKey(p, k),
         \A x \in mems'[p] : x \in mems[p] \/ x.key = k,
         \A n \in Machines : daemon'[n] # None =>
            \/ daemon[n] # None /\ daemon'[n].place = daemon[n].place /\ daemon'[n].key = daemon[n].key
            \/ daemon'[n].place = p => daemon'[n].key = k,
         \A n \in Machines : config'[n] # None =>
            \/ config'[n] = config[n] /\ latest'[n] = latest[n]
            \/ config'[n].place = p => latest'[n] = k
  PROVE  OnlyKey(p, k)'
  BY DEF OnlyKey

(* What leaves mementos, daemons and machines' keys alone.                  *)
LEMMA KeySame ==
  ASSUME Typed, KeyInv, mishaps' \cap Mixed = {}, NEW m \in Machines, StepOf(m), mems' = mems,
         \A n \in Machines : daemon'[n] # None =>
            daemon[n] # None /\ daemon'[n].place = daemon[n].place /\ daemon'[n].key = daemon[n].key,
         \A n \in Machines : config'[n] # None => config'[n] = config[n] /\ latest'[n] = latest[n],
         Opened(m)'
  PROVE  KeyInv'
<1>1. mishaps \cap Mixed = {}
  BY Grows
<1>2. ASSUME NEW p \in Places PROVE \E k \in Keys \cup {NoKey} : OnlyKey(p, k)'
  <2>1. PICK k \in Keys \cup {NoKey} : OnlyKey(p, k)
    BY <1>1 DEF KeyInv, Mixed
  <2>2. QED
    BY <2>1, OnlySame
<1>3. ASSUME NEW n \in Machines \ {m} PROVE Opened(n)'
  BY <1>1, OthersSame DEF KeyInv, Mixed, Opened, Same, Opens
<1>4. QED
  BY <1>2, <1>3 DEF KeyInv

(* A machine that takes part in one place with key k.                       *)
LEMMA NotForeign ==
  ASSUME Typed, NEW m \in Machines, NEW p, NEW k, ~Foreign(m, p, k)
  PROVE  /\ \A x \in mems[p] : x.key = k
         /\ \A n \in Machines : (daemon[n] # None /\ daemon[n].place = p) => daemon[n].key = k
         /\ \A n \in Machines \ {m} : (config[n] # None /\ config[n].place = p) => latest[n] = k
  BY DEF Foreign

LEMMA KeyStoreKey ==
  ASSUME Typed, Typed', KeyInv, mishaps' \cap Mixed = {}, NEW m \in Machines, StepOf(m), StoreKey(m)
  PROVE  KeyInv'
<1>1. UNCHANGED <<mems, config, daemon>> /\ cmd[m].provider \in Providers /\ cmd[m].key \in Keys
  BY DEF StoreKey, places, Typed, CmdInv, Chosen
<1>2. mishaps \cap Mixed = {}
  BY Grows
<1>3. cmd'[m].at # "config"
  <2>1. To(m, "probe") \/ Sets(m, [cmd[m] EXCEPT !.at = "storage", !.key = NoKey]) \/ Sets(m, Idle)
    BY DEF StoreKey, Returns
  <2>2. QED
    <3>1. CASE To(m, "probe")
      BY <3>1 DEF To, Typed, Commands
    <3>2. CASE Sets(m, [cmd[m] EXCEPT !.at = "storage", !.key = NoKey])
      BY <3>2 DEF Sets, Typed, Commands
    <3>3. CASE Sets(m, Idle)
      BY <3>3 DEF Sets, Idle, Typed
    <3>4. QED
      BY <2>1, <3>1, <3>2, <3>3
<1>4. CASE config[m] = None \/ latest' = latest
  <2>1. \A n \in Machines : config'[n] # None => config'[n] = config[n] /\ latest'[n] = latest[n]
    BY <1>1, <1>4, OthersSame DEF Same
  <2>2. QED
    BY <1>1, <1>3, <2>1, KeySame DEF Opened
<1>5. CASE config[m] # None /\ latest' # latest
  <2>1. StoreEntropy(m, cmd[m].provider, cmd[m].key)
        /\ Hit(Flagged(config[m] # None /\ Foreign(m, config[m].place, cmd[m].key), "adopted"))
    BY <1>5 DEF StoreKey
  <2>2. ~Foreign(m, config[m].place, cmd[m].key)
    BY <1>5, <2>1 DEF Hit, Flagged, Mixed
  <2>3. latest' = [latest EXCEPT ![m] = cmd[m].key]
    BY <1>1, <2>1, StoreEffect
  <2>4. ASSUME NEW p \in Places PROVE \E k \in Keys \cup {NoKey} : OnlyKey(p, k)'
    <3>1. CASE p = config[m].place
      <4>1. PICK k \in Keys : k = cmd[m].key
        BY <1>1
      <4>2. OnlyKey(p, k)'
        BY <1>1, <2>2, <2>3, <3>1, <4>1, NotForeign DEF OnlyKey, Typed, DataOK
      <4>3. QED
        BY <4>2
    <3>2. CASE p # config[m].place
      <4>1. PICK k \in Keys \cup {NoKey} : OnlyKey(p, k)
        BY <1>2 DEF KeyInv, Mixed
      <4>2. OnlyKey(p, k)'
        BY <1>1, <2>3, <3>2, <4>1 DEF OnlyKey, Typed, DataOK
      <4>3. QED
        BY <4>2
    <3>3. QED
      BY <3>1, <3>2
  <2>5. ASSUME NEW n \in Machines PROVE Opened(n)'
    BY <1>1, <1>2, <1>3, OthersSame DEF KeyInv, Mixed, Opened, Same, Opens
  <2>6. QED
    BY <2>4, <2>5 DEF KeyInv
<1>6. QED
  BY <1>4, <1>5

LEMMA KeyWriteConfig ==
  ASSUME Typed, Typed', KeyInv, mishaps' \cap Mixed = {}, NEW m \in Machines, StepOf(m), WriteConfig(m)
  PROVE  KeyInv'
<1>1. PICK q \in Places, l \in Keys \cup {NoKey} : q = cmd[m].place /\ l = latest[m]
  BY DEF WriteConfig, Typed, DataOK, CmdInv, Chosen
<1>2. UNCHANGED <<mems, latest, daemon>> /\ cmd[m].at = "config"
      /\ config' = [config EXCEPT ![m] = [place |-> q, provider |-> cmd[m].provider]]
  BY <1>1 DEF WriteConfig, places, keyring
<1>3. mishaps \cap Mixed = {}
  BY Grows
<1>4. Opened(m)
  BY <1>3 DEF KeyInv, Mixed
<1>5. OnlyKey(q, l)'
  <2>1. CASE ~Foreign(m, q, l)
    BY <1>1, <1>2, <2>1, NotForeign DEF OnlyKey, Typed, DataOK
  <2>2. CASE Foreign(m, q, l)
    <3>1. cmd[m].op = "join" /\ ~cmd[m].blind
      BY <1>1, <2>2 DEF WriteConfig, Hit, Flagged, Mixed, Typed, Commands
    <3>2. PICK k \in Keys \cup {NoKey} : OnlyKey(q, k)
      BY <1>2, <1>3 DEF KeyInv, Mixed
    <3>3. k = l
      BY <1>1, <1>2, <1>4, <3>1, <3>2 DEF Opened, Opens, OnlyKey
    <3>4. QED
      BY <1>1, <1>2, <3>2, <3>3 DEF OnlyKey, Typed, DataOK
  <2>3. QED
    BY <2>1, <2>2
<1>6. ASSUME NEW p \in Places PROVE \E k \in Keys \cup {NoKey} : OnlyKey(p, k)'
  <2>1. CASE p = q
    BY <1>5, <2>1
  <2>2. CASE p # q
    <3>1. PICK k \in Keys \cup {NoKey} : OnlyKey(p, k)
      BY <1>3 DEF KeyInv, Mixed
    <3>2. OnlyKey(p, k)'
      BY <1>2, <2>2, <3>1 DEF OnlyKey, Typed, DataOK
    <3>3. QED
      BY <3>2
  <2>3. QED
    BY <2>1, <2>2
<1>7. cmd'[m].at = "integrations"
  BY DEF WriteConfig, Sets, Idle, Typed
<1>8. ASSUME NEW n \in Machines PROVE Opened(n)'
  BY <1>2, <1>3, <1>7, OthersSame DEF KeyInv, Mixed, Opened, Same, Opens
<1>9. QED
  BY <1>6, <1>8 DEF KeyInv

(* A key that is kept is the one that was used.                             *)
LEMMA KeySetupKey ==
  ASSUME Typed, Typed', KeyringInv, KeyInv, mishaps' \cap Mixed = {}, NEW m \in Machines, StepOf(m),
         SetupKey(m)
  PROVE  KeyInv'
<1> DEFINE v == cmd[m].provider
<1>1. UNCHANGED <<mems, config, daemon>> /\ v \in Providers /\ Ring(m) /\ CmdInv(m) /\ cmd[m].at = "key"
  BY Grows DEF SetupKey, places, Typed, CmdInv, Chosen, KeyringInv, Mixed
<1>2. latest' = latest \/ (latest'[m] = Read(m, v) /\ Read(m, v) # NoKey)
  <2>1. CASE Read(m, v) # NoKey
    BY <1>1, <2>1, NoAnswer DEF SetupKey, Keep, Typed, DataOK
  <2>2. CASE Read(m, v) = NoKey
    BY <2>2 DEF SetupKey
  <2>3. QED
    BY <2>1, <2>2
<1>3. config[m] # None => latest'[m] = latest[m]
  <2>1. config[m] # None => config[m].provider = v
    BY <1>1 DEF CmdInv, Early, Chosen
  <2>2. Read(m, v) \in {NoKey, Sole(m, v)}
    BY <1>1, ReadIsSole DEF Ring
  <2>3. QED
    BY <1>1, <1>2, <2>1, <2>2 DEF Ring
<1>4. cmd'[m].at # "config"
  <2>1. CASE Read(m, v) # NoKey
    <3>1. To(m, "storage")
      BY <1>1, <2>1, NoAnswer DEF SetupKey
    <3>2. QED
      BY <3>1 DEF To, Typed, Commands
  <2>2. CASE Read(m, v) = NoKey
    <3>1. Sets(m, Idle) \/ Sets(m, [cmd[m] EXCEPT !.at = "store", !.key = drawn + 1])
      BY <2>2 DEF SetupKey, Returns, Draw
    <3>2. CASE Sets(m, Idle)
      BY <3>2 DEF Sets, Idle, Typed
    <3>3. CASE Sets(m, [cmd[m] EXCEPT !.at = "store", !.key = drawn + 1])
      BY <3>3 DEF Sets, Typed, Commands
    <3>4. QED
      BY <3>1, <3>2, <3>3
  <2>3. QED
    BY <2>1, <2>2
<1>5. \A n \in Machines : config'[n] # None => config'[n] = config[n] /\ latest'[n] = latest[n]
  BY <1>1, <1>3, OthersSame DEF Same
<1>6. QED
  BY <1>1, <1>4, <1>5, KeySame DEF Opened

LEMMA KeyProbe ==
  ASSUME Typed, Typed', KeyInv, mishaps' \cap Mixed = {}, NEW m \in Machines, StepOf(m), Probe(m)
  PROVE  KeyInv'
<1>1. UNCHANGED <<mems, config, daemon>> /\ cmd[m].at = "probe" /\ CmdInv(m) /\ cmd[m].place \in Places
  BY DEF Probe, places, Typed, CmdInv, Chosen
<1>2. CASE Returns(m) /\ UNCHANGED latest
  <2>1. cmd'[m].at # "config"
    BY <1>2 DEF Returns, Sets, Idle, Typed
  <2>2. QED
    BY <1>1, <1>2, <2>1, KeySame DEF Opened
<1>3. CASE ~(Returns(m) /\ UNCHANGED latest)
  <2> DEFINE k == Read(m, cmd[m].provider)
             b == mems[cmd[m].place] = {}
  <2>1. Sets(m, [cmd[m] EXCEPT !.at = "config", !.blind = b]) /\ Keep(m, cmd[m].provider)
        /\ (b \/ Opens(k, cmd[m].place))
    BY <1>3 DEF Probe
  <2>2. cmd'[m].blind = b /\ cmd'[m].place = cmd[m].place /\ cmd'[m].op = cmd[m].op
        /\ cmd'[m].at = "config" /\ latest'[m] = k
    BY <2>1 DEF Sets, Keep, Typed, DataOK, Commands
  <2>3. Opened(m)'
    BY <1>1, <2>1, <2>2 DEF Opened, Opens
  <2>4. CASE config[m] = None
    <3>1. \A n \in Machines : config'[n] # None => config'[n] = config[n] /\ latest'[n] = latest[n]
      BY <1>1, <2>4, OthersSame DEF Same
    <3>2. QED
      BY <1>1, <2>3, <3>1, KeySame
  <2>5. QED
    BY <1>1, <2>4 DEF CmdInv, Early, Chosen
<1>4. QED
  BY <1>2, <1>3

(* A key is changed where nobody else takes part.                           *)
LEMMA KeyMigrateKey ==
  ASSUME Typed, Typed', KeyInv, mishaps' \cap Mixed = {}, NEW m \in Machines, StepOf(m), MigrateKey(m)
  PROVE  KeyInv'
<1>1. PICK q \in Places, d \in Keys : q = config[m].place /\ d = drawn + 1
  BY SetupAssumption DEF MigrateKey, Typed, DataOK, Keys
<1>2. UNCHANGED <<config, daemon, cmd>> /\ mishaps \cap Mixed = {} /\ config[m] # None
      /\ daemon[m] = None /\ cmd[m].op = "none" /\ config[m].provider \in Providers
  BY Grows DEF MigrateKey, Begin, Typed, DataOK
<1>3. mems' = [mems EXCEPT ![q] = {[x EXCEPT !.key = d] : x \in @}] /\ StoreEntropy(m, config[m].provider, d)
  BY <1>1 DEF MigrateKey
<1>4. \A n \in Machines \ {m} : ~Attached(n, q)
  BY <1>1 DEF MigrateKey, Hit, Flagged, Mixed
<1>5. latest' = [latest EXCEPT ![m] = d]
  BY <1>2, <1>3, StoreEffect
<1>6. OnlyKey(q, d)'
  <2>1. \A x \in mems[q] : [x EXCEPT !.key = d].key = d
    BY DEF Typed, DataOK, Mementos
  <2>2. mems'[q] = {[x EXCEPT !.key = d] : x \in mems[q]}
    BY <1>3 DEF Typed, DataOK
  <2>3. \A x \in mems'[q] : x.key = d
    BY <2>1, <2>2
  <2>4. \A n \in Machines : (daemon'[n] # None /\ daemon'[n].place = q) => daemon'[n].key = d
    BY <1>2, <1>4 DEF Attached
  <2>5. \A n \in Machines : (config'[n] # None /\ config'[n].place = q) => latest'[n] = d
    BY <1>2, <1>4, <1>5 DEF Attached, Typed, DataOK
  <2>6. QED
    BY <2>3, <2>4, <2>5 DEF OnlyKey
<1>7. ASSUME NEW p \in Places PROVE \E k \in Keys \cup {NoKey} : OnlyKey(p, k)'
  <2>1. CASE p = q
    BY <1>6, <2>1
  <2>2. CASE p # q
    <3>1. PICK k \in Keys \cup {NoKey} : OnlyKey(p, k)
      BY <1>2 DEF KeyInv, Mixed
    <3>2. mems'[p] = mems[p]
      BY <1>3, <2>2 DEF Typed, DataOK
    <3>3. \A n \in Machines : (config[n] # None /\ config[n].place = p) => latest'[n] = latest[n]
      BY <1>1, <1>5, <2>2 DEF Typed, DataOK
    <3>4. OnlyKey(p, k)'
      BY <1>2, <3>1, <3>2, <3>3 DEF OnlyKey
    <3>5. QED
      BY <3>4
  <2>3. QED
    BY <2>1, <2>2
<1>8. ASSUME NEW n \in Machines PROVE Opened(n)'
  <2>1. CASE n = m
    BY <1>2, <2>1 DEF Typed, CmdInv, Opened
  <2>2. CASE n # m /\ cmd[n].at = "config"
    <3>1. cmd[n].place # q /\ cmd[n].place \in Places
      BY <1>4, <2>2 DEF Attached, Typed, CmdInv, Chosen
    <3>2. mems'[cmd[n].place] = mems[cmd[n].place] /\ latest'[n] = latest[n]
      BY <1>3, <1>5, <2>2, <3>1 DEF Typed, DataOK
    <3>3. Opened(n)
      BY <1>2 DEF KeyInv, Mixed
    <3>4. QED
      BY <1>2, <3>2, <3>3 DEF Opened, Opens
  <2>3. CASE cmd[n].at # "config"
    BY <1>2, <2>3 DEF Opened
  <2>4. QED
    BY <2>1, <2>2, <2>3
<1>9. QED
  BY <1>7, <1>8 DEF KeyInv

(* Mementos are added, daemons come and go.                                 *)
LEMMA KeyDaemon ==
  ASSUME Typed, Typed', KeyringInv, KeyInv, mishaps' \cap Mixed = {}, NEW m \in Machines, StepOf(m),
         Restore(m) \/ StartDaemon(m) \/ DaemonWrites(m)
  PROVE  KeyInv'
<1>1. UNCHANGED <<config, cmd, latest>> /\ mishaps \cap Mixed = {}
  BY Grows DEF Restore, StartDaemon, DaemonWrites, keyring
<1>2. \A p \in Places : mems[p] \subseteq mems'[p]
  <2>1. CASE Restore(m)
    BY <2>1 DEF Restore, Typed, DataOK
  <2>2. CASE StartDaemon(m)
    BY <2>2 DEF StartDaemon, places
  <2>3. CASE DaemonWrites(m)
    BY <2>3 DEF DaemonWrites, Typed, DataOK
  <2>4. QED
    BY <2>1, <2>2, <2>3
<1>3. ASSUME NEW p \in Places PROVE \E k \in Keys \cup {NoKey} : OnlyKey(p, k)'
  <2>1. PICK k \in Keys \cup {NoKey} : OnlyKey(p, k)
    BY <1>1 DEF KeyInv, Mixed
  <2>6. CASE Restore(m) /\ daemon[m] # None
    <3>1. mems' = mems /\ daemon' = daemon
      BY <2>6 DEF Restore
    <3>2. OnlyKey(p, k)'
      BY <1>1, <2>1, <3>1 DEF OnlyKey
    <3>3. QED
      BY <3>2
  <2>2. CASE Restore(m) /\ daemon[m] = None
    <3>1. \A x \in backup.mems : x.key = latest[m]
      BY <2>2 DEF Restore, Hit, Flagged, Mixed
    <3>2. mems' = [mems EXCEPT ![config[m].place] = @ \cup backup.mems] /\ daemon' = daemon
          /\ config[m] # None
      BY <2>2 DEF Restore
    <3>3. \A x \in mems'[p] : x.key = k
      BY <2>1, <3>1, <3>2 DEF OnlyKey, Typed, DataOK
    <3>4. OnlyKey(p, k)'
      BY <1>1, <2>1, <3>2, <3>3 DEF OnlyKey
    <3>5. QED
      BY <3>4
  <2>3. CASE StartDaemon(m)
    <3>1. mems' = mems /\ config[m] # None /\ Read(m, config[m].provider) # NoKey
          /\ config[m].provider \in Providers
      BY <2>3 DEF StartDaemon, Starts, places, Typed, DataOK
    <3>2. Read(m, config[m].provider) = latest[m]
      BY <1>1, <3>1, ReadIsSole DEF KeyringInv, Ring, Mixed
    <3>3. daemon' = [daemon EXCEPT ![m] = [place |-> config[m].place, emb |-> json[config[m].place],
                                           key |-> Read(m, config[m].provider), files |-> TRUE]]
      BY <2>3 DEF StartDaemon
    <3>4. \A n \in Machines : (daemon'[n] # None /\ daemon'[n].place = p) => daemon'[n].key = k
      BY <2>1, <3>1, <3>2, <3>3 DEF OnlyKey, Typed, DataOK
    <3>5. OnlyKey(p, k)'
      BY <1>1, <2>1, <3>1, <3>4 DEF OnlyKey
    <3>6. QED
      BY <3>5
  <2>4. CASE DaemonWrites(m)
    <3>1. daemon' = daemon /\ daemon[m] # None
          /\ mems' = [mems EXCEPT ![daemon[m].place] = @ \cup {[key |-> daemon[m].key, emb |-> daemon[m].emb]}]
      BY <2>4 DEF DaemonWrites
    <3>2. \A x \in mems'[p] : x.key = k
      BY <2>1, <3>1 DEF OnlyKey, Typed, DataOK
    <3>3. OnlyKey(p, k)'
      BY <1>1, <2>1, <3>1, <3>2 DEF OnlyKey
    <3>4. QED
      BY <3>3
  <2>5. QED
    BY <2>2, <2>3, <2>4, <2>6
<1>4. ASSUME NEW n \in Machines PROVE Opened(n)'
  <2>1. Opened(n) /\ (cmd[n].at = "config" => cmd[n].place \in Places)
    BY <1>1 DEF KeyInv, Mixed, Typed, CmdInv, Chosen
  <2>2. QED
    BY <1>1, <1>2, <2>1 DEF Opened, Opens
<1>5. QED
  BY <1>3, <1>4 DEF KeyInv

LEMMA KeyKeeps ==
  ASSUME Typed, Typed', KeyringInv, KeyInv, NEW m \in Machines, StepOf(m)
  PROVE  KeyInv'
<1>1. SUFFICES ASSUME mishaps' \cap Mixed = {} PROVE KeyInv'
  BY DEF KeyInv, Mixed
<1>2. mishaps \cap Mixed = {} /\ Opened(m) /\ CmdInv(m)
  BY <1>1, Grows DEF KeyInv, Mixed, Typed
<1>3. CASE StoreKey(m) \/ WriteConfig(m) \/ SetupKey(m) \/ Probe(m) \/ MigrateKey(m) \/ Restore(m)
           \/ StartDaemon(m) \/ DaemonWrites(m)
  BY <1>1, <1>3, KeyStoreKey, KeyWriteConfig, KeySetupKey, KeyProbe, KeyMigrateKey, KeyDaemon
<1>4. CASE OpenStorage(m) \/ PutVault(m)
  <2>1. UNCHANGED <<mems, config, latest, daemon>> /\ cmd[m].at \in {"storage", "put"}
    BY <1>4 DEF OpenStorage, PutVault, places, keyring
  <2>2. Sets(m, Idle) \/ To(m, "put") \/ To(m, "config")
    BY <1>4 DEF OpenStorage, PutVault, Exits, Returns
  <2>3. cmd'[m].at = "idle" \/ cmd'[m].op = cmd[m].op
    BY <2>2 DEF Sets, To, Idle, Typed, Commands
  <2>4. Opened(m)'
    BY <1>2, <2>1, <2>3 DEF CmdInv, Opened
  <2>5. QED
    BY <1>1, <2>1, <2>4, KeySame
<1>5. CASE \/ InitBegins(m) \/ RaiseFence(m) \/ DestroyBegins(m) \/ Choose(m)
           \/ GiveUp(m) \/ Finish(m) \/ Kill(m) \/ RemoveKey(m) \/ JoinKey(m)
           \/ \E p \in Places, v \in Providers :
                 JoinStorage(m, p, v) \/ \E e \in Embedders : Wizard(m, p, e, v)
  <2>1. UNCHANGED <<mems, config, latest, daemon>>
    BY <1>5 DEF InitBegins, RaiseFence, DestroyBegins, Choose, GiveUp, Finish, Kill, RemoveKey,
                ClearStoredKey, JoinKey, JoinStorage, Wizard, places, keyring
  <2>2. cmd'[m].at # "config"
    <3>1. CASE GiveUp(m) \/ Finish(m) \/ Kill(m) \/ RemoveKey(m)
      BY <3>1 DEF GiveUp, Finish, Kill, RemoveKey, Returns, Sets, Idle, Typed
    <3>2. CASE JoinKey(m)
      <4>1. \A k : Sets(m, [cmd[m] EXCEPT !.at = "store", !.key = k]) => cmd'[m].at # "config"
        BY DEF Sets, Typed, Commands
      <4>2. To(m, "probe") => cmd'[m].at # "config"
        BY DEF To, Typed, Commands
      <4>3. QED
        BY <3>2, <4>1, <4>2 DEF JoinKey
    <3>3. QED
      BY <1>5, <3>1, <3>2, FarFromConfig
  <2>3. QED
    BY <1>1, <2>1, <2>2, KeySame DEF Opened
<1>6. CASE RemoveConfig(m)
  <2>1. mems' = mems /\ latest' = latest /\ config' = [config EXCEPT ![m] = None]
        /\ daemon' = IF daemon[m] = None THEN daemon ELSE [daemon EXCEPT ![m].files = FALSE]
    BY <1>6 DEF RemoveConfig, places, keyring
  <2>2. \A n \in Machines : daemon'[n] # None =>
           daemon[n] # None /\ daemon'[n].place = daemon[n].place /\ daemon'[n].key = daemon[n].key
    BY <2>1 DEF Typed, DataOK
  <2>3. \A n \in Machines : config'[n] # None => config'[n] = config[n] /\ latest'[n] = latest[n]
    BY <2>1 DEF Typed, DataOK
  <2>4. cmd'[m].at # "config"
    BY <1>6 DEF RemoveConfig, Sets, To, Idle, Typed, Commands
  <2>5. QED
    BY <1>1, <2>1, <2>2, <2>3, <2>4, KeySame DEF Opened
<1>7. CASE Backup(m) \/ AbortFence(m) \/ KeychainChanges(m)
  <2>1. UNCHANGED <<mems, config, latest, daemon, cmd>>
    BY <1>7 DEF Backup, AbortFence, KeychainChanges, places, keyring
  <2>2. QED
    BY <1>1, <1>2, <2>1, KeySame DEF Opened, Opens
<1>8. CASE DaemonEnds(m)
  <2>1. UNCHANGED <<mems, config, latest, cmd>> /\ daemon' = [daemon EXCEPT ![m] = None]
    BY <1>8 DEF DaemonEnds, places, keyring
  <2>2. QED
    BY <1>1, <1>2, <2>1, KeySame DEF Opened, Opens, Typed, DataOK
<1>9. QED
  BY <1>3, <1>4, <1>5, <1>6, <1>7, <1>8 DEF StepOf, InitStep

-----------------------------------------------------------------------------

LEMMA InitInvariant == Init => IInv
<1>1. SUFFICES ASSUME Init PROVE IInv
  OBVIOUS
<1>2. Typed
  BY <1>1, TypedInit
<1>3. GhostInv /\ KeyringInv /\ SpaceInv
  BY <1>1 DEF Init, Idle, GhostInv, Guarded, KeyringInv, Ring, Sole, SpaceInv, Early, Chosen
<1>4. KeyInv
  <2>1. \A p \in Places : OnlyKey(p, NoKey)
    BY <1>1 DEF Init, OnlyKey
  <2>2. QED
    BY <1>1, <2>1 DEF Init, Idle, KeyInv, Opened
<1>5. QED
  BY <1>2, <1>3, <1>4 DEF IInv

LEMMA NextKeeps == IInv /\ [Next]_vars => IInv'
<1>1. SUFFICES ASSUME IInv, [Next]_vars PROVE IInv'
  OBVIOUS
<1>2. CASE Next
  <2>1. PICK m \in Machines : StepOf(m)
    BY <1>2 DEF Next, StepOf
  <2>2. Typed' /\ GhostInv'
    BY <1>1, <2>1, TypedKeeps, GhostKeeps DEF IInv
  <2>3. QED
    BY <1>1, <2>1, <2>2, KeyringKeeps, SpaceKeeps, KeyKeeps DEF IInv
<1>3. CASE UNCHANGED vars
  <2>1. UNCHANGED <<json, mems, backup, clones, config, entry, file, env, latest, drawn, up, fence,
                    daemon, cmd, mishaps>>
    BY <1>3 DEF vars, places, keyring
  <2>2. Typed'
    BY <1>1, <2>1 DEF IInv, Typed, DataOK, CmdInv
  <2>3. GhostInv' /\ KeyringInv'
    BY <1>1, <2>1 DEF IInv, GhostInv, Guarded, KeyringInv, Ring, Sole
  <2>4. SpaceInv' /\ KeyInv'
    BY <1>1, <2>1 DEF IInv, SpaceInv, KeyInv, OnlyKey, Opened, Opens
  <2>5. QED
    BY <2>2, <2>3, <2>4 DEF IInv
<1>4. QED
  BY <1>1, <1>2, <1>3

LEMMA InvariantHolds == Spec => []IInv
<1>1. Init => IInv
  BY InitInvariant
<1>2. IInv /\ [Next]_vars => IInv'
  BY NextKeeps
<1>3. QED
  BY <1>1, <1>2, PTL DEF Spec

(* Every reachable state of machines, places and commands is well typed.    *)
THEOREM TypeCorrect == Spec => []TypeOK
<1>1. IInv => TypeOK
  BY DEF IInv, Typed, TypeOK, CmdInv, Commands, Early, Chosen, Leaving
<1>2. QED
  BY <1>1, InvariantHolds, PTL

(* Outside the windows named in Setup, the mementos of a place are under    *)
(* one key, for any number of machines, commands and changes of the         *)
(* keychains (init.ts, keys/keychain/index.ts).                             *)
THEOREM OneKeyHolds == Spec => []OneKey
<1>1. IInv => OneKey
  <2>1. SUFFICES ASSUME IInv, mishaps \cap Mixed = {}, NEW p \in Places
                 PROVE  \A x, y \in mems[p] : x.key = y.key
    BY DEF OneKey, Mixed
  <2>2. PICK k \in Keys \cup {NoKey} : OnlyKey(p, k)
    BY <2>1 DEF IInv, KeyInv, Mixed
  <2>3. QED
    BY <2>2 DEF OnlyKey
<1>2. QED
  BY <1>1, InvariantHolds, PTL

(* The vectors of a place are of the embedder its vault.json names, unless  *)
(* two machines created it at once or a backup was put back over it.        *)
THEOREM OneSpaceHolds == Spec => []OneSpace
<1>1. IInv => OneSpace
  BY DEF IInv, SpaceInv, OneSpace
<1>2. QED
  BY <1>1, InvariantHolds, PTL

(* No daemon runs without the configuration it was built from and its       *)
(* files, unless it slipped in between a guard and a fence.                 *)
THEOREM NoGhostHolds == Spec => []NoGhost
<1>1. IInv => NoGhost
  BY DEF IInv, GhostInv, Guarded, NoGhost
<1>2. QED
  BY <1>1, InvariantHolds, PTL

(* Doctor is right: what it calls healthy can be called, or started, and    *)
(* opens its vault (cli/commands/doctor.ts).                                *)
THEOREM DoctorIsRightHolds == Spec => []DoctorIsRight
<1>1. IInv => DoctorIsRight
  <2>1. SUFFICES ASSUME IInv, NEW m \in Machines, MayPass(m)
                 PROVE  IF daemon[m] = None THEN Starts(m)
                        ELSE \/ "slipped" \in mishaps
                             \/ mems[daemon[m].place] = {} \/ Opens(daemon[m].key, daemon[m].place)
                             \/ "shadowed" \in mishaps
    BY DEF DoctorIsRight
  <2>2. CASE daemon[m] = None
    BY <2>1, <2>2 DEF MayPass, ConfigPasses, MigrationPasses, KeyPasses, VaultPasses, Starts
  <2>3. CASE daemon[m] # None /\ "slipped" \notin mishaps /\ "shadowed" \notin mishaps
    <3>1. config[m] # None /\ config[m].place = daemon[m].place /\ config[m].provider \in Providers
      BY <2>1, <2>3 DEF IInv, GhostInv, Guarded, Typed, DataOK
    <3>2. Read(m, config[m].provider) # NoKey
      BY <2>1 DEF MayPass, KeyPasses
    <3>3. Ring(m) /\ Typed
      BY <2>1, <2>3 DEF IInv, KeyringInv
    <3>4. Read(m, config[m].provider) = daemon[m].key
      BY <2>3, <3>1, <3>2, <3>3, ReadIsSole DEF Ring
    <3>5. QED
      BY <2>1, <2>3, <3>1, <3>4 DEF MayPass, ProbePasses
  <2>4. QED
    BY <2>2, <2>3
<1>2. QED
  BY <1>1, InvariantHolds, PTL
=============================================================================
