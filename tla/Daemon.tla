------------------------------- MODULE Daemon -------------------------------
(***************************************************************************)
(* The daemon's lifecycle (daemon/runner.ts, http-api.ts, state.ts,         *)
(* token.ts) and the processes that start, await, stop and call it          *)
(* (cli/commands/daemon.ts, daemon/api-client.ts).                          *)
(*                                                                          *)
(* Every process is a program of its own: they share one TCP port, one      *)
(* state file and one token file, and each action is the code between two   *)
(* awaits.  A daemon is named by its process id, and so is the token it     *)
(* generates.  Process ids are not recycled.                                *)
(***************************************************************************)
EXTENDS FiniteSets

CONSTANTS
    Daemons,     \* ids of the daemon processes that may be spawned
    Clients,     \* commands that run; each is run once
    Commands,    \* what the clients are
    Signals,     \* may daemons be killed from outside mementos?
    Nobody

AllCommands == {"start", "stop", "ensure", "hook", "call"}

ASSUME DaemonAssumption ==
    /\ Commands \subseteq AllCommands
    /\ Signals \in BOOLEAN
    /\ Nobody \notin Daemons

StateFile == [pid : Daemons, state : {"initializing", "ready"}]

ASSUME StateFileAssumption == Nobody \notin StateFile

VARIABLES
    dpc,         \* where each daemon is
    port,        \* the daemon that is listening, or Nobody
    stateFile,   \* daemon.state: [pid, state], or Nobody
    tokenFile,   \* daemon.token: the daemon whose token it holds, or Nobody
    cpc,         \* where each client is, at last its outcome
    target,      \* the pid or the token a client has read or spawned
    displaced    \* history: daemons whose files another process took away

files      == <<stateFile, tokenFile, displaced>>
daemonVars == <<dpc, port, files, cpc, target>>

Alive(p)   == dpc[p] \notin {"unborn", "dead"}
Listening   == {"bound", "loading", "loaded", "marked", "announced", "serving"}
MarkedReady == {"marked", "announced", "serving"}

(* daemonState(): a file that names a dead process counts as absent.        *)
State == IF stateFile = Nobody \/ ~Alive(stateFile.pid) THEN "absent" ELSE stateFile.state

Named(f)  == IF f = Nobody THEN {} ELSE {f.pid}
Token(f)  == {f} \ {Nobody}

(* Process p, or a client (Nobody), replaces one of the two files.          *)
PutState(p, f) ==
    /\ stateFile' = f
    /\ displaced' = displaced \cup {q \in Named(stateFile) \ {p} : Alive(q)}

PutToken(p, f) ==
    /\ tokenFile' = f
    /\ displaced' = displaced \cup {q \in Token(tokenFile) \ {p} : Alive(q)}

(***************************************************************************)
(* runDaemon, behind the checks of `start --foreground`.                    *)
(***************************************************************************)

Turns(p, from, to) == dpc[p] = from /\ dpc' = [dpc EXCEPT ![p] = to]

Dies(p) ==
    /\ dpc' = [dpc EXCEPT ![p] = "dead"]
    /\ port' = IF port = p THEN Nobody ELSE port

CheckState(p) ==
    /\ Turns(p, "checking", IF State = "absent" THEN "probing" ELSE "dead")
    /\ UNCHANGED <<port, files, cpc, target>>

ProbePort(p) ==
    /\ Turns(p, "probing", IF port = Nobody THEN "building" ELSE "dead")
    /\ UNCHANGED <<port, files, cpc, target>>

(* buildVault throws on a migration manifest, a missing config, a bad key.  *)
Build(p) ==
    /\ \E to \in {"asserting", "dead"} : Turns(p, "building", to)
    /\ UNCHANGED <<port, files, cpc, target>>

AssertPortFree(p) ==
    /\ Turns(p, "asserting", IF port = Nobody THEN "binding" ELSE "dead")
    /\ UNCHANGED <<port, files, cpc, target>>

(* listen: the operating system gives the port to one process.              *)
Listen(p) ==
    /\ Turns(p, "binding", IF port = Nobody THEN "bound" ELSE "dead")
    /\ port' = IF port = Nobody THEN p ELSE port
    /\ UNCHANGED <<files, cpc, target>>

WriteInitializing(p) ==
    /\ Turns(p, "bound", "loading")
    /\ PutState(p, [pid |-> p, state |-> "initializing"])
    /\ UNCHANGED <<port, tokenFile, cpc, target>>

(* vault.startup; a failure exits and leaves the state file.                *)
Load(p) ==
    /\ dpc[p] = "loading"
    /\ \/ Dies(p)
       \/ Turns(p, "loading", "loaded") /\ UNCHANGED port
    /\ UNCHANGED <<files, cpc, target>>

WriteToken(p) ==
    /\ Turns(p, "loaded", "marked")
    /\ PutToken(p, p)
    /\ UNCHANGED <<port, stateFile, cpc, target>>

(* Fault: the state file says ready before the token is written.            *)
WriteReady_BeforeToken(p) ==
    /\ Turns(p, "loaded", "announced")
    /\ PutState(p, [pid |-> p, state |-> "ready"])
    /\ UNCHANGED <<port, tokenFile, cpc, target>>

WriteReady(p) ==
    /\ Turns(p, "marked", "announced")
    /\ PutState(p, [pid |-> p, state |-> "ready"])
    /\ UNCHANGED <<port, tokenFile, cpc, target>>

(* The handlers are installed when the write has returned.                  *)
InstallHandlers(p) ==
    /\ Turns(p, "announced", "serving")
    /\ UNCHANGED <<port, files, cpc, target>>

(* A signal shuts a serving daemon down in order, the port first; at any    *)
(* other moment it ends the process: before the handlers are installed, and *)
(* a second time.                                                           *)
Signal(p) ==
    IF dpc[p] = "serving"
      THEN Turns(p, "serving", "flushing") /\ port' = IF port = p THEN Nobody ELSE port
      ELSE Dies(p)

Flush(p) ==
    /\ Turns(p, "flushing", "deletingToken")
    /\ UNCHANGED <<port, files, cpc, target>>

DeleteToken(p) ==
    /\ Turns(p, "deletingToken", "deletingState")
    /\ PutToken(p, Nobody)
    /\ UNCHANGED <<port, stateFile, cpc, target>>

DeleteState(p) ==
    /\ Turns(p, "deletingState", "leaving")
    /\ PutState(p, Nobody)
    /\ UNCHANGED <<port, tokenFile, cpc, target>>

(* runDaemon has returned; the process ends.                                *)
EndsProcess(p) ==
    /\ Turns(p, "leaving", "dead")
    /\ UNCHANGED <<port, files, cpc, target>>

Killed(p) ==
    /\ Signals /\ Alive(p)
    /\ Dies(p)
    /\ UNCHANGED <<files, cpc, target>>

(***************************************************************************)
(* Clients.                                                                 *)
(***************************************************************************)

Becomes(c, where) == cpc' = [cpc EXCEPT ![c] = where]
Targets(c, p)     == target' = [target EXCEPT ![c] = p]

Issues(c, command) == cpc[c] = "idle" /\ command \in Commands

Spawn(c) ==
    \E p \in Daemons :
       /\ Turns(p, "unborn", "checking")
       /\ Targets(c, p)

(* runStart in the background.                                              *)
Start(c) ==
    /\ Issues(c, "start")
    /\ Becomes(c, IF State = "absent" THEN "startProbe" ELSE "failed")
    /\ UNCHANGED <<dpc, port, files, target>>

StartProbe(c) ==
    /\ cpc[c] = "startProbe"
    /\ IF port # Nobody
         THEN Becomes(c, "failed") /\ UNCHANGED <<dpc, target>>
         ELSE Becomes(c, "startWait") /\ Spawn(c)
    /\ UNCHANGED <<port, files>>

StartWait(c) ==
    /\ cpc[c] = "startWait"
    /\ Becomes(c, IF Alive(target[c]) THEN "ok" ELSE "failed")
    /\ UNCHANGED <<dpc, port, files, target>>

(* ensureDaemonRunning, with no budget (the MCP shim) or a budget (hooks).  *)
Ensure(c, command, wait) ==
    /\ Issues(c, command)
    /\ \/ State = "ready" /\ Becomes(c, "token") /\ UNCHANGED <<dpc, target>>
       \/ State = "initializing" /\ Becomes(c, wait) /\ UNCHANGED <<dpc, target>>
       \/ State = "absent" /\ Becomes(c, wait) /\ Spawn(c)
    /\ UNCHANGED <<port, files>>

(* Fault: the death of the spawned process is not looked at.                *)
Poll_ReadyOnly(c) ==
    /\ cpc[c] = "poll" /\ State = "ready"
    /\ Becomes(c, "token")
    /\ UNCHANGED <<dpc, port, files, target>>

(* waitForReady with no budget.                                             *)
Poll(c) ==
    /\ cpc[c] = "poll"
    /\ \/ State = "ready" /\ Becomes(c, "token")
       \/ /\ State = "absent" /\ target[c] # Nobody /\ ~Alive(target[c])
          /\ Becomes(c, "failed")
    /\ UNCHANGED <<dpc, port, files, target>>

(* waitForReady with a budget: it may end at any time.                      *)
PollBriefly(c) ==
    /\ cpc[c] = "hookPoll"
    /\ Becomes(c, IF State = "ready" THEN "token" ELSE "failed")
    /\ UNCHANGED <<dpc, port, files, target>>

Call(c) ==
    /\ Issues(c, "call")
    /\ Becomes(c, "token")
    /\ UNCHANGED <<dpc, port, files, target>>

(* fetchJson: read the token, then connect.                                 *)
ReadToken(c) ==
    /\ cpc[c] = "token"
    /\ IF tokenFile = Nobody
         THEN Becomes(c, "failed") /\ UNCHANGED target
         ELSE Becomes(c, "fetch") /\ Targets(c, tokenFile)
    /\ UNCHANGED <<dpc, port, files>>

(* No connection, 503 while initializing, 401 for another daemon's token.   *)
Fetch(c) ==
    /\ cpc[c] = "fetch"
    /\ Becomes(c, IF port # Nobody /\ dpc[port] \in MarkedReady /\ target[c] = port
                    THEN "ok" ELSE "failed")
    /\ UNCHANGED <<dpc, port, files, target>>

(* runStop                                                                  *)
Stop(c) ==
    /\ Issues(c, "stop")
    /\ IF State = "absent"
         THEN Becomes(c, "stopClean") /\ UNCHANGED target
         ELSE Becomes(c, "stopKill") /\ Targets(c, stateFile.pid)
    /\ UNCHANGED <<dpc, port, files>>

StopClean(c) ==
    /\ cpc[c] = "stopClean"
    /\ PutState(Nobody, Nobody)
    /\ Becomes(c, "failed")
    /\ UNCHANGED <<dpc, port, tokenFile, target>>

StopKill(c) ==
    /\ cpc[c] = "stopKill"
    /\ IF Alive(target[c])
         THEN Signal(target[c]) /\ Becomes(c, "stopWait")
         ELSE Becomes(c, "stopClean") /\ UNCHANGED <<dpc, port>>
    /\ UNCHANGED <<files, target>>

(* Fault: the wait ends when the port is free.                              *)
StopWait_Port(c) ==
    /\ cpc[c] = "stopWait" /\ port = Nobody
    /\ Becomes(c, "stopped")
    /\ UNCHANGED <<dpc, port, files, target>>

StopWait(c) ==
    /\ cpc[c] = "stopWait" /\ State = "absent"
    /\ Becomes(c, "stopped")
    /\ UNCHANGED <<dpc, port, files, target>>

StopTimeout(c) ==
    /\ cpc[c] = "stopWait" /\ State # "absent"
    /\ Becomes(c, "sent")
    /\ UNCHANGED <<dpc, port, files, target>>

Ended == {"ok", "failed", "stopped", "sent"}

(* The next command of the same client is another process.                  *)
Again(c) ==
    /\ cpc[c] \in Ended
    /\ Becomes(c, "idle") /\ Targets(c, Nobody)
    /\ UNCHANGED <<dpc, port, files>>

(***************************************************************************)
(* Specification                                                            *)
(***************************************************************************)

DaemonInit ==
    /\ dpc = [p \in Daemons |-> "unborn"]
    /\ port = Nobody /\ stateFile = Nobody /\ tokenFile = Nobody
    /\ cpc = [c \in Clients |-> "idle"]
    /\ target = [c \in Clients |-> Nobody]
    /\ displaced = {}

DaemonStep(p) ==
    \/ CheckState(p) \/ ProbePort(p) \/ Build(p) \/ AssertPortFree(p) \/ Listen(p)
    \/ WriteInitializing(p) \/ Load(p) \/ WriteToken(p) \/ WriteReady(p)
    \/ InstallHandlers(p) \/ Flush(p) \/ DeleteToken(p) \/ DeleteState(p) \/ EndsProcess(p)

Begin(c) == Start(c) \/ Ensure(c, "ensure", "poll") \/ Ensure(c, "hook", "hookPoll") \/ Call(c) \/ Stop(c)

ClientStep(c) ==
    \/ StartProbe(c) \/ StartWait(c)
    \/ Poll(c) \/ PollBriefly(c) \/ ReadToken(c) \/ Fetch(c)
    \/ StopClean(c) \/ StopKill(c) \/ StopWait(c) \/ StopTimeout(c)

DaemonNext ==
    \/ \E p \in Daemons : DaemonStep(p) \/ Killed(p)
    \/ \E c \in Clients : Begin(c) \/ ClientStep(c) \/ Again(c)

DaemonSpec == DaemonInit /\ [][DaemonNext]_daemonVars

(* Every process that can take a step takes one in the end: the operating   *)
(* system runs them, and vault.startup and vault.close settle.  Nobody has  *)
(* to run a command, and nothing has to be killed.                          *)
FairSpec ==
    /\ DaemonSpec
    /\ \A p \in Daemons : WF_daemonVars(DaemonStep(p))
    /\ \A c \in Clients : WF_daemonVars(ClientStep(c))

(***************************************************************************)
(* Properties                                                               *)
(***************************************************************************)

DaemonTypeOK ==
    /\ dpc \in [Daemons -> {"unborn", "checking", "probing", "building", "asserting",
                            "binding", "bound", "loading", "loaded", "marked", "announced",
                            "serving", "flushing", "deletingToken", "deletingState",
                            "leaving", "dead"}]
    /\ port \in {p \in Daemons : dpc[p] \in Listening} \cup {Nobody}
    /\ stateFile \in StateFile \cup {Nobody}
    /\ tokenFile \in Daemons \cup {Nobody}
    /\ cpc \in [Clients -> {"idle", "startProbe", "startWait", "poll", "hookPoll", "token",
                            "fetch", "stopClean", "stopKill", "stopWait", "ok", "failed",
                            "stopped", "sent"}]
    /\ target \in [Clients -> Daemons \cup {Nobody}]
    /\ displaced \subseteq Daemons

(* runner.ts: a daemon that loses the race for the port "exits having       *)
(* touched nothing shared": what the two files come to hold is written by   *)
(* the process that holds the port.                                         *)
WinnerWrites ==
    [][/\ stateFile' \notin {stateFile, Nobody} => port = stateFile'.pid
       /\ tokenFile' \notin {tokenFile, Nobody} => port = tokenFile']_daemonVars

(* A daemon that serves can be found and called: the state file says ready  *)
(* and the token file holds its token, unless another process took one of   *)
(* the two away.                                                            *)
Reachable ==
    \A p \in Daemons \ displaced :
        dpc[p] \in {"announced", "serving"} =>
            /\ port = p
            /\ stateFile = [pid |-> p, state |-> "ready"]
            /\ tokenFile = p

(* When `stop` reports success the daemon it signalled is gone, or has      *)
(* flushed its cache, removed its files and has only to exit: a `start` or  *)
(* a migration may follow.                                                  *)
StoppedMeansGone ==
    \A c \in Clients :
        (cpc[c] = "stopped" /\ target[c] \notin displaced) => dpc[target[c]] \in {"leaving", "dead"}

(* A client without a budget that spawned a daemon gets an answer, unless a *)
(* process that lives has lost its files.                                   *)
SpawnerReturns ==
    \A c \in Clients :
        (cpc[c] = "poll" /\ target[c] # Nobody) ~> (cpc[c] # "poll" \/ displaced # {})
=============================================================================
