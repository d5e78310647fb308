---------------------- MODULE DaemonKeyTransferProofs -----------------------
(***************************************************************************)
(* The safety properties of Daemon, for any number of daemons and clients,  *)
(* and of KeyTransfer, for any number of devices, runs and interruptions.   *)
(* The two have no state in common; Daemon names its specification          *)
(* DaemonSpec so that both can be spoken of here.                           *)
(***************************************************************************)
EXTENDS Daemon, KeyTransfer, TLAPS

(***************************************************************************)
(* Daemon.  The port decides: whoever is between its bind and its shutdown  *)
(* holds it, so there is one writer of the two files.  FilesInv follows     *)
(* each daemon through its writes; `displaced` takes out those whose files  *)
(* another process has replaced or removed.                                 *)
(***************************************************************************)

ShuttingDown == {"flushing", "deletingToken", "deletingState"}

PortInv == \A p \in Daemons : dpc[p] \in Listening <=> port = p

FilesOf(p) ==
    /\ dpc[p] \in {"loading", "loaded", "marked"}
         => stateFile = [pid |-> p, state |-> "initializing"]
    /\ dpc[p] \in {"announced", "serving"} \cup ShuttingDown
         => stateFile = [pid |-> p, state |-> "ready"]
    /\ dpc[p] \in MarkedReady => tokenFile = p

FilesInv == \A p \in Daemons \ displaced : FilesOf(p)

StopInv ==
    \A c \in Clients :
       /\ cpc[c] = "stopKill" => target[c] \in Daemons /\ dpc[target[c]] # "unborn"
       /\ cpc[c] \in {"stopWait", "stopped"} =>
            target[c] \in Daemons /\ dpc[target[c]] \in ShuttingDown \cup {"leaving", "dead"}
       /\ (cpc[c] = "stopped" /\ target[c] \notin displaced) => dpc[target[c]] \in {"leaving", "dead"}

DaemonInv == DaemonTypeOK /\ PortInv /\ FilesInv /\ StopInv

-----------------------------------------------------------------------------

(* A process that replaces the state file displaces the process it named.   *)
LEMMA PutStateDisplaces ==
  ASSUME NEW p, NEW f, PutState(p, f), DaemonTypeOK, FilesInv,
         NEW q \in Daemons \ displaced', q # p
  PROVE  /\ q \notin displaced
         /\ dpc[q] \notin {"loading", "loaded", "marked", "announced", "serving"} \cup ShuttingDown
<1>1. q \notin displaced /\ ~(q \in Named(stateFile) /\ Alive(q))
  BY DEF PutState
<1>2. FilesOf(q)
  BY <1>1 DEF FilesInv
<1>3. stateFile \notin {[pid |-> q, state |-> "initializing"], [pid |-> q, state |-> "ready"]}
       \/ ~Alive(q)
  BY <1>1, StateFileAssumption DEF Named, StateFile
<1>4. QED
  BY <1>1, <1>2, <1>3 DEF FilesOf, Alive, ShuttingDown

(* The first state satisfies the invariant.                                 *)
LEMMA DaemonInitInv == DaemonInit => DaemonInv
  BY DaemonAssumption
     DEF DaemonInit, DaemonInv, DaemonTypeOK, PortInv, FilesInv, FilesOf, StopInv, Listening, MarkedReady,
         ShuttingDown

(* A step of a daemon keeps the invariant.                                  *)
LEMMA DaemonKeeps == ASSUME DaemonInv, NEW p \in Daemons, DaemonStep(p) PROVE DaemonInv'
<1> USE DaemonAssumption
<1>1. CASE CheckState(p) \/ ProbePort(p) \/ Build(p) \/ AssertPortFree(p) \/ Flush(p)
  BY <1>1 DEF CheckState, ProbePort, Build, AssertPortFree, Flush, Turns, files, DaemonInv, DaemonTypeOK,
              PortInv, FilesInv, FilesOf, StopInv, Listening, MarkedReady, ShuttingDown
<1>2. CASE Listen(p)
  BY <1>2 DEF Listen, Turns, files, DaemonInv, DaemonTypeOK, PortInv, FilesInv, FilesOf, StopInv,
              Listening, MarkedReady, ShuttingDown
<1>3. CASE WriteInitializing(p) \/ WriteReady(p)
  <2>1. PICK s \in {"initializing", "ready"} : PutState(p, [pid |-> p, state |-> s])
    BY <1>3 DEF WriteInitializing, WriteReady
  <2>2. DaemonTypeOK' /\ PortInv'
    BY <1>3, <2>1 DEF WriteInitializing, WriteReady, PutState, Named, Turns, DaemonInv, DaemonTypeOK,
              StateFile, PortInv, Listening
  <2>3. ASSUME NEW q \in Daemons \ displaced', q # p PROVE FilesOf(q)'
    BY <1>3, <2>1, <2>3, PutStateDisplaces DEF WriteInitializing, WriteReady, Turns, DaemonInv,
              DaemonTypeOK, FilesInv, FilesOf, MarkedReady, ShuttingDown
  <2>4. p \notin displaced' => FilesOf(p)'
    BY <1>3, <2>1 DEF WriteInitializing, WriteReady, PutState, Turns, DaemonInv, DaemonTypeOK, FilesInv,
              FilesOf, MarkedReady, ShuttingDown
  <2>5. StopInv'
    BY <1>3, <2>1 DEF WriteInitializing, WriteReady, PutState, Turns, DaemonInv, DaemonTypeOK, StopInv,
              ShuttingDown
  <2>6. QED
    BY <2>2, <2>3, <2>4, <2>5 DEF DaemonInv, FilesInv
<1>4. CASE Load(p)
  BY <1>4 DEF Load, Dies, Turns, files, DaemonInv, DaemonTypeOK, PortInv, FilesInv, FilesOf, StopInv,
              Listening, MarkedReady, ShuttingDown
<1>5. CASE WriteToken(p)
  BY <1>5 DEF WriteToken, PutToken, Token, Alive, Turns, DaemonInv, DaemonTypeOK, PortInv, FilesInv,
              FilesOf, StopInv, Listening, MarkedReady, ShuttingDown
<1>6. CASE DeleteToken(p)
  BY <1>6 DEF DeleteToken, PutToken, Token, Alive, Turns, DaemonInv, DaemonTypeOK, PortInv, FilesInv,
              FilesOf, StopInv, Listening, MarkedReady, ShuttingDown
<1>7. CASE DeleteState(p)
  <2>1. DaemonTypeOK' /\ PortInv' /\ StopInv'
    BY <1>7 DEF DeleteState, PutState, Named, Turns, DaemonInv, DaemonTypeOK, StateFile, PortInv, StopInv,
              Listening, ShuttingDown
  <2>2. ASSUME NEW q \in Daemons \ displaced', q # p PROVE FilesOf(q)'
    BY <1>7, <2>2, PutStateDisplaces DEF DeleteState, Turns, DaemonInv, DaemonTypeOK, FilesInv, FilesOf,
              MarkedReady, ShuttingDown
  <2>3. FilesOf(p)'
    BY <1>7 DEF DeleteState, Turns, DaemonInv, DaemonTypeOK, FilesOf, MarkedReady, ShuttingDown
  <2>4. QED
    BY <2>1, <2>2, <2>3 DEF DaemonInv, FilesInv
<1>8. CASE InstallHandlers(p) \/ EndsProcess(p)
  BY <1>8 DEF InstallHandlers, EndsProcess, Turns, files, DaemonInv, DaemonTypeOK, PortInv, FilesInv, FilesOf,
              StopInv, Listening, MarkedReady, ShuttingDown
<1>9. QED
  BY <1>1, <1>2, <1>3, <1>4, <1>5, <1>6, <1>7, <1>8 DEF DaemonStep

(* So does a daemon that is killed.                                         *)
LEMMA KillKeeps == ASSUME DaemonInv, NEW p \in Daemons, Killed(p) PROVE DaemonInv'
  BY DaemonAssumption
     DEF Killed, Dies, Alive, files, DaemonInv, DaemonTypeOK, PortInv, FilesInv, FilesOf, StopInv,
         Listening, MarkedReady, ShuttingDown

(* So does the start of a command.                                          *)
LEMMA BeginKeeps == ASSUME DaemonInv, NEW c \in Clients, Begin(c) PROVE DaemonInv'
<1> USE DaemonAssumption
<1>1. CASE Start(c) \/ Call(c)
  BY <1>1 DEF Start, Call, Issues, Becomes, files, DaemonInv, DaemonTypeOK, PortInv, FilesInv, FilesOf,
              StopInv, Listening, MarkedReady, ShuttingDown
<1>2. CASE Ensure(c, "ensure", "poll") \/ Ensure(c, "hook", "hookPoll")
  BY <1>2 DEF Ensure, Issues, Becomes, Spawn, Turns, Targets, files, DaemonInv, DaemonTypeOK,
              PortInv, FilesInv, FilesOf, StopInv, Listening, MarkedReady, ShuttingDown
<1>3. CASE Stop(c)
  <2>1. State # "absent" => stateFile.pid \in Daemons /\ dpc[stateFile.pid] # "unborn"
    BY DEF State, Alive, DaemonInv, DaemonTypeOK, StateFile
  <2>2. QED
    BY <1>3, <2>1 DEF Stop, Issues, Becomes, Targets, files, DaemonInv, DaemonTypeOK, PortInv,
              FilesInv, FilesOf, StopInv, Listening, MarkedReady, ShuttingDown
<1>4. QED
  BY <1>1, <1>2, <1>3 DEF Begin

(* So does the end of a client's command.                                   *)
LEMMA AgainKeeps == ASSUME DaemonInv, NEW c \in Clients, Again(c) PROVE DaemonInv'
  BY DaemonAssumption
     DEF Again, Becomes, Targets, files, DaemonInv, DaemonTypeOK, PortInv, FilesInv, FilesOf, StopInv,
         Listening, MarkedReady, ShuttingDown

(* So does every further step of a client.                                  *)
LEMMA ClientKeeps == ASSUME DaemonInv, NEW c \in Clients, ClientStep(c) PROVE DaemonInv'
<1> USE DaemonAssumption
<1>1. CASE StartProbe(c)
  BY <1>1 DEF StartProbe, Becomes, Spawn, Turns, Targets, files, DaemonInv, DaemonTypeOK, PortInv,
              FilesInv, FilesOf, StopInv, Listening, MarkedReady, ShuttingDown
<1>2. CASE StartWait(c) \/ Poll(c) \/ PollBriefly(c) \/ ReadToken(c) \/ Fetch(c) \/ StopTimeout(c)
  BY <1>2 DEF StartWait, Poll, PollBriefly, ReadToken, Fetch, StopTimeout, Becomes, Targets,
              files, DaemonInv, DaemonTypeOK, PortInv, FilesInv, FilesOf, StopInv, Listening, MarkedReady,
              ShuttingDown
<1>3. CASE StopClean(c)
  <2>1. DaemonTypeOK' /\ PortInv' /\ StopInv'
    BY <1>3 DEF StopClean, PutState, Named, Becomes, DaemonInv, DaemonTypeOK, StateFile, PortInv, StopInv,
              Listening, ShuttingDown
  <2>2. ASSUME NEW q \in Daemons \ displaced' PROVE FilesOf(q)'
    BY <1>3, <2>2, PutStateDisplaces DEF StopClean, DaemonInv, DaemonTypeOK, FilesInv, FilesOf,
              MarkedReady, ShuttingDown
  <2>3. QED
    BY <2>1, <2>2 DEF DaemonInv, FilesInv
<1>4. CASE StopKill(c)
  BY <1>4 DEF StopKill, Signal, Dies, Alive, Turns, Becomes, files, DaemonInv, DaemonTypeOK, PortInv,
              FilesInv, FilesOf, StopInv, Listening, MarkedReady, ShuttingDown
<1>5. CASE StopWait(c)
  <2>1. target[c] \in Daemons \ displaced => dpc[target[c]] \in {"leaving", "dead"}
    <3>1. SUFFICES ASSUME target[c] \in Daemons \ displaced, dpc[target[c]] \in ShuttingDown
                   PROVE  FALSE
      BY <1>5 DEF StopWait, DaemonInv, StopInv
    <3>2. stateFile = [pid |-> target[c], state |-> "ready"]
      BY <3>1 DEF DaemonInv, FilesInv, FilesOf
    <3>3. Alive(stateFile.pid) /\ stateFile # Nobody /\ stateFile.state = "ready"
      BY <3>1, <3>2, StateFileAssumption DEF Alive, ShuttingDown, StateFile
    <3>4. QED
      BY <1>5, <3>3 DEF StopWait, State
  <2>2. QED
    BY <1>5, <2>1 DEF StopWait, Becomes, files, DaemonInv, DaemonTypeOK, PortInv, FilesInv, FilesOf,
              StopInv, Listening, MarkedReady, ShuttingDown
<1>6. QED
  BY <1>1, <1>2, <1>3, <1>4, <1>5 DEF ClientStep

(* The invariant holds in every reachable state.                            *)
THEOREM DaemonInvHolds == DaemonSpec => []DaemonInv
<1>1. DaemonInv /\ [DaemonNext]_daemonVars => DaemonInv'
  <2>1. ASSUME DaemonInv, UNCHANGED daemonVars PROVE DaemonInv'
    BY <2>1 DEF daemonVars, files, DaemonInv, DaemonTypeOK, PortInv, FilesInv, FilesOf, StopInv
  <2>2. QED
    BY <2>1, DaemonKeeps, KillKeeps, BeginKeeps, ClientKeeps, AgainKeeps DEF DaemonNext
<1>2. QED
  BY <1>1, DaemonInitInv, PTL DEF DaemonSpec

(* Every reachable state is well typed, and nobody holds the port but a     *)
(* daemon between its bind and its shutdown.                                *)
THEOREM DaemonTypeCorrect == DaemonSpec => []DaemonTypeOK
  BY DaemonInvHolds, PTL DEF DaemonInv

(* A daemon that serves can be found and called, unless displaced.          *)
THEOREM ReachableHolds == DaemonSpec => []Reachable
<1>1. DaemonInv => Reachable
  BY DEF DaemonInv, PortInv, FilesInv, FilesOf, Reachable, Listening, MarkedReady
<1>2. QED
  BY <1>1, DaemonInvHolds, PTL

(* A stop that reports success has ended the daemon it signalled, up to its *)
(* exit.                                                                    *)
THEOREM StoppedMeansGoneHolds == DaemonSpec => []StoppedMeansGone
<1>1. DaemonInv => StoppedMeansGone
  BY DEF DaemonInv, StopInv, StoppedMeansGone
<1>2. QED
  BY <1>1, DaemonInvHolds, PTL

(* What the shared files come to hold is written by the holder of the port. *)
FilesStep ==
    /\ stateFile' \notin {stateFile, Nobody} => port = stateFile'.pid
    /\ tokenFile' \notin {tokenFile, Nobody} => port = tokenFile'

THEOREM WinnerWritesHolds == DaemonSpec => WinnerWrites
<1>1. ASSUME DaemonInv, [DaemonNext]_daemonVars PROVE [FilesStep]_daemonVars
  <2>1. ASSUME NEW p \in Daemons, DaemonStep(p) PROVE FilesStep
    <3>1. CASE WriteInitializing(p) \/ WriteToken(p) \/ WriteReady(p)
      BY <1>1, <3>1 DEF WriteInitializing, WriteToken, WriteReady, PutState, PutToken, Turns,
         FilesStep, DaemonInv, PortInv, Listening
    <3>2. CASE DeleteToken(p) \/ DeleteState(p)
      BY <3>2 DEF DeleteToken, DeleteState, PutState, PutToken, FilesStep
    <3>3. CASE UNCHANGED files
      BY <3>3 DEF files, FilesStep
    <3> QED
      BY <2>1, <3>1, <3>2, <3>3 DEF DaemonStep, CheckState, ProbePort, Build, AssertPortFree,
         Listen, Load, InstallHandlers, Flush, EndsProcess
  <2>2. ASSUME NEW p \in Daemons, Killed(p) PROVE FilesStep
    BY <2>2 DEF Killed, files, FilesStep
  <2>3. ASSUME NEW c \in Clients, Begin(c) PROVE FilesStep
    BY <2>3 DEF Begin, Start, Ensure, Call, Stop, files, FilesStep
  <2>4. ASSUME NEW c \in Clients, ClientStep(c) PROVE FilesStep
    BY <2>4 DEF ClientStep, StartProbe, StartWait, Poll, PollBriefly, ReadToken, Fetch,
         StopClean, StopKill, StopWait, StopTimeout, PutState, files, FilesStep
  <2>5. ASSUME NEW c \in Clients, Again(c) PROVE FilesStep
    BY <2>5 DEF Again, files, FilesStep
  <2>6. QED
    BY <1>1, <2>1, <2>2, <2>3, <2>4, <2>5 DEF DaemonNext
<1>2. QED
  BY <1>1, DaemonInvHolds, PTL DEF DaemonSpec, WinnerWrites, FilesStep

(***************************************************************************)
(* KeyTransfer.  The keys name the processes.  LineInv ties the two ends of *)
(* a connection together, InboxInv says what can be on its way to a device, *)
(* and KnownInv what a device knows at each stage: from the moment it shows *)
(* a code, that code stands for exactly its own and its peer's key.         *)
(* MeantInv adds what the users' comparison buys.                           *)
(***************************************************************************)

Rng(q) == {q[i] : i \in 1..Len(q)}

LineInv ==
    /\ \A r \in Receivers : line[r] # None => line[r][1] \in Senders
    /\ \A r \in Receivers : pc[r] # "idle" => line[r] # None
    /\ \A s \in Senders : taken[s] # None =>
          taken[s][1] \in Receivers /\ taken[s][2] <= run[taken[s][1]]
    /\ \A s \in Senders, r \in Receivers : taken[s] = Key(r) => line[r] = Key(s)

FitsReceiver(r, m) ==
    /\ m.tag # "pub"
    /\ m.tag \in {"commit", "opening"} => m.key = line[r]
    /\ m.tag = "payload" =>
         /\ m.lock = {line[r], Key(r)} /\ m.secret = line[r][1]
         /\ \A k \in m.lock : <<k[1], m.lock>> \in agreed

FitsSender(s, m) ==
    /\ taken[s] # None
    /\ m.tag \in {"pub", "verdict"}
    /\ m.tag = "pub" => m.key = taken[s]
    /\ (m.tag = "verdict" /\ m.yes) => <<taken[s][1], {Key(s), taken[s]}>> \in agreed

InboxInv ==
    /\ \A r \in Receivers : pc[r] = "idle" => Rng(inbox[r]) = {}
    /\ \A r \in Receivers : \A m \in Rng(inbox[r]) : FitsReceiver(r, m)
    /\ \A s \in Senders : \A m \in Rng(inbox[s]) : FitsSender(s, m)

SenderKnows(s) ==
    /\ pc[s] = "pub" => taken[s] # None
    /\ pc[s] \in {"ask", "verdict", "refused"} =>
         taken[s] # None /\ known[s] = taken[s] /\ shown[s] = {Key(s), taken[s]}
    /\ pc[s] = "verdict" => <<s, shown[s]>> \in agreed
    /\ shown[s] # {} => \E k \in Keys : k[1] \in Receivers /\ shown[s] = {Key(s), k}

ReceiverKnows(r) ==
    /\ pc[r] \in {"opening", "ask", "verdict", "refused", "payload"} => known[r] = line[r]
    /\ pc[r] \in {"ask", "verdict", "refused", "payload"} => shown[r] = {line[r], Key(r)}
    /\ pc[r] \in {"verdict", "payload"} => <<r, shown[r]>> \in agreed

KnownInv ==
    /\ \A s \in Senders : SenderKnows(s)
    /\ \A r \in Receivers : ReceiverKnows(r)

Meaning(r) == pc[r] \in {"verdict", "payload"} => line[r][1] = Meant[r]

MeantInv ==
    /\ \A r \in Receivers : Meaning(r)
    /\ RightSecret
    /\ NobodyAccused

IInv == TypeOK /\ LineInv /\ InboxInv /\ KnownInv /\ MeantInv

-----------------------------------------------------------------------------

(* What a sequence holds after each of the ways an inbox changes.           *)
LEMMA RngFacts ==
  ASSUME NEW q \in Seq(Messages)
  PROVE  /\ Rng(<<>>) = {}
         /\ \A m \in Messages : Append(q, m) \in Seq(Messages) /\ Rng(Append(q, m)) = Rng(q) \cup {m}
         /\ q # <<>> => /\ Tail(q) \in Seq(Messages) /\ Rng(Tail(q)) \subseteq Rng(q)
                        /\ Head(q) \in Rng(q) /\ Head(q) \in Messages
         /\ Rng(q) \subseteq Messages
<1>1. Rng(<<>>) = {} /\ Rng(q) \subseteq Messages
  BY DEF Rng
<1>2. ASSUME NEW m \in Messages
      PROVE  Append(q, m) \in Seq(Messages) /\ Rng(Append(q, m)) = Rng(q) \cup {m}
  <2>1. /\ Append(q, m) \in Seq(Messages) /\ Len(Append(q, m)) = Len(q) + 1
        /\ \A i \in 1..Len(q) : Append(q, m)[i] = q[i]
        /\ Append(q, m)[Len(q) + 1] = m
    OBVIOUS
  <2>2. 1..(Len(q) + 1) = 1..Len(q) \cup {Len(q) + 1}
    OBVIOUS
  <2>3. QED
    BY <2>1, <2>2 DEF Rng
<1>3. ASSUME q # <<>>
      PROVE  /\ Tail(q) \in Seq(Messages) /\ Rng(Tail(q)) \subseteq Rng(q)
             /\ Head(q) \in Rng(q) /\ Head(q) \in Messages
  <2>1. /\ Tail(q) \in Seq(Messages) /\ Len(Tail(q)) = Len(q) - 1 /\ Len(q) \in Nat \ {0}
        /\ \A i \in 1..(Len(q) - 1) : Tail(q)[i] = q[i + 1]
        /\ Head(q) = q[1]
    BY <1>3
  <2>2. QED
    BY <2>1 DEF Rng
<1>4. QED
  BY <1>1, <1>2, <1>3

(* Nothing arrives with a command that ends.                                *)
LEMMA LeavesFacts ==
  ASSUME TypeOK, NEW d \in Devices, NEW where, NEW how, Leaves(d, where, how)
  PROVE  /\ inbox' \in [Devices -> Seq(Messages)]
         /\ \A e \in Devices : Rng(inbox'[e]) \subseteq Rng(inbox[e])
         /\ Rng(inbox'[d]) = {}
         /\ ended' \in [Devices -> BOOLEAN]
<1>1. PICK o : /\ ended' = [e \in Devices |-> e \in o \/ ended[e]]
               /\ \/ inbox' = [inbox EXCEPT ![d] = <<>>]
                  \/ inbox' = [e \in Devices |-> IF e \in o \cup {d} THEN <<>> ELSE inbox[e]]
  BY DEF Leaves
<1>2. Rng(<<>>) = {} /\ <<>> \in Seq(Messages)
  BY DEF Rng
<1>3. \A e \in Devices : inbox'[e] \in {<<>>, inbox[e]}
  BY <1>1 DEF TypeOK
<1>4. inbox' \in [Devices -> Seq(Messages)]
  BY <1>1, <1>2 DEF TypeOK
<1>5. QED
  BY <1>1, <1>2, <1>3, <1>4 DEF TypeOK

(* A write adds its message to the other ends, and to nothing else.         *)
LEMMA WroteFacts ==
  ASSUME TypeOK, NEW d \in Devices, NEW m \in Messages
  PROVE  /\ Wrote(d, m) \in [Devices -> Seq(Messages)]
         /\ \A e \in Devices : Rng(Wrote(d, m)[e]) \subseteq
                Rng(inbox[e]) \cup (IF e \in Others(d) THEN {m} ELSE {})
         /\ d \notin Others(d) => Wrote(d, m)[d] = inbox[d]
<1>1. \A e \in Devices : inbox[e] \in Seq(Messages)
  BY DEF TypeOK
<1>2. PICK to : /\ to \subseteq Others(d)
                /\ Wrote(d, m) = [e \in Devices |-> IF e \in to THEN Append(inbox[e], m) ELSE inbox[e]]
  BY DEF Wrote
<1>3. \A e \in Devices : /\ Append(inbox[e], m) \in Seq(Messages)
                         /\ Rng(Append(inbox[e], m)) = Rng(inbox[e]) \cup {m}
  BY <1>1, RngFacts
<1>4. QED
  BY <1>1, <1>2, <1>3

(* The other ends of a device are devices of the other kind.                *)
LEMMA OthersFacts ==
  ASSUME NEW d \in Devices
  PROVE  /\ d \in Senders => Others(d) = {r \in Receivers : Joined(d, r)}
         /\ d \in Receivers => Others(d) = {s \in Senders : Joined(s, d)}
         /\ d \notin Others(d)
  BY TransferAssumption DEF Others, Devices

(* A reply takes the first message and adds one to the other ends.          *)
LEMMA RepliesFacts ==
  ASSUME TypeOK, NEW d \in Devices, NEW m \in Messages, inbox[d] # <<>>, Replies(d, m)
  PROVE  /\ inbox' \in [Devices -> Seq(Messages)]
         /\ \A e \in Devices : Rng(inbox'[e]) \subseteq
                Rng(inbox[e]) \cup (IF e \in Others(d) THEN {m} ELSE {})
<1>1. inbox[d] \in Seq(Messages)
  BY DEF TypeOK
<1>2. Tail(inbox[d]) \in Seq(Messages) /\ Rng(Tail(inbox[d])) \subseteq Rng(inbox[d])
  BY <1>1, RngFacts
<1>3. inbox' = [Wrote(d, m) EXCEPT ![d] = Tail(inbox[d])]
  BY DEF Replies
<1>4. QED
  BY <1>2, <1>3, WroteFacts

(* So does a read, without the reply.                                       *)
LEMMA ReadsFacts ==
  ASSUME TypeOK, NEW d \in Devices, inbox[d] # <<>>, Reads(d)
  PROVE  /\ inbox' \in [Devices -> Seq(Messages)]
         /\ \A e \in Devices : Rng(inbox'[e]) \subseteq Rng(inbox[e])
<1>1. inbox[d] \in Seq(Messages)
  BY DEF TypeOK
<1>2. Tail(inbox[d]) \in Seq(Messages) /\ Rng(Tail(inbox[d])) \subseteq Rng(inbox[d])
  BY <1>1, RngFacts
<1>3. QED
  BY <1>2 DEF TypeOK, Reads
----------------------------------------------------------------
(* What is under way keeps fitting while sockets and runs stay, and what is *)
(* added has to fit.                                                        *)
LEMMA InboxKeeps ==
  ASSUME InboxInv, UNCHANGED <<line, taken, run>>, agreed \subseteq agreed',
         NEW d \in Devices, NEW m,
         \A r \in Receivers : pc'[r] = "idle" => pc[r] = "idle" \/ Rng(inbox'[r]) = {},
         \A e \in Devices : Rng(inbox'[e]) \subseteq
             Rng(inbox[e]) \cup (IF e \in Others(d) THEN {m} ELSE {}),
         \A r \in Receivers : r \in Others(d) => FitsReceiver(r, m)',
         \A s \in Senders : s \in Others(d) => FitsSender(s, m)'
  PROVE  InboxInv'
<1>1. ASSUME NEW r \in Receivers, NEW n \in Rng(inbox'[r]) PROVE FitsReceiver(r, n)'
  <2>1. n \in Rng(inbox[r]) => FitsReceiver(r, n)
    BY <1>1 DEF InboxInv
  <2>2. FitsReceiver(r, n) => FitsReceiver(r, n)'
    BY DEF FitsReceiver, Key
  <2>3. n \in Rng(inbox[r]) \/ (r \in Others(d) /\ n = m)
    BY <1>1 DEF Devices
  <2>4. QED
    BY <2>1, <2>2, <2>3
<1>2. ASSUME NEW s \in Senders, NEW n \in Rng(inbox'[s]) PROVE FitsSender(s, n)'
  <2>1. n \in Rng(inbox[s]) => FitsSender(s, n)
    BY <1>2 DEF InboxInv
  <2>2. FitsSender(s, n) => FitsSender(s, n)'
    BY DEF FitsSender, Key
  <2>3. n \in Rng(inbox[s]) \/ (s \in Others(d) /\ n = m)
    BY <1>2 DEF Devices
  <2>4. QED
    BY <2>1, <2>2, <2>3
<1>3. ASSUME NEW r \in Receivers, pc'[r] = "idle" PROVE Rng(inbox'[r]) = {}
  <2>1. CASE Rng(inbox'[r]) = {}
    BY <2>1
  <2>2. CASE pc[r] = "idle"
    <3>1. Rng(inbox[r]) = {} /\ r \in Devices
      BY <2>2 DEF InboxInv, Devices
    <3>2. r \notin Others(d)
      BY <2>2, OthersFacts, TransferAssumption DEF Joined, OnLine, Devices
    <3>3. QED
      BY <3>1, <3>2
  <2>3. QED
    BY <1>3, <2>1, <2>2
<1>4. QED
  BY <1>1, <1>2, <1>3 DEF InboxInv

(* The same when nothing is added.                                          *)
LEMMA InboxShrinks ==
  ASSUME InboxInv, UNCHANGED <<line, taken, run>>, agreed \subseteq agreed',
         \A r \in Receivers : pc'[r] = "idle" => pc[r] = "idle" \/ Rng(inbox'[r]) = {},
         \A e \in Devices : Rng(inbox'[e]) \subseteq Rng(inbox[e])
  PROVE  InboxInv'
<1>1. ASSUME NEW r \in Receivers, NEW n \in Rng(inbox'[r]) PROVE FitsReceiver(r, n)'
  <2>1. FitsReceiver(r, n)
    BY <1>1 DEF InboxInv, Devices
  <2>2. QED
    BY <2>1 DEF FitsReceiver, Key
<1>2. ASSUME NEW s \in Senders, NEW n \in Rng(inbox'[s]) PROVE FitsSender(s, n)'
  <2>1. FitsSender(s, n)
    BY <1>2 DEF InboxInv, Devices
  <2>2. QED
    BY <2>1 DEF FitsSender, Key
<1>3. \A r \in Receivers : pc'[r] = "idle" => Rng(inbox'[r]) = {}
  BY DEF InboxInv, Devices
<1>4. QED
  BY <1>1, <1>2, <1>3 DEF InboxInv

(* A step of one device that leaves the sockets and the runs alone changes  *)
(* what that device knows, and nothing about the others.                    *)
LEMMA StepKeeps ==
  ASSUME IInv, NEW d \in Devices, NEW where,
         pc' = [pc EXCEPT ![d] = where], UNCHANGED <<run, line, taken>>, agreed \subseteq agreed',
         \A e \in Devices \ {d} : known'[e] = known[e] /\ shown'[e] = shown[e],
         d \in Receivers => pc[d] # "idle",
         d \in Senders => SenderKnows(d)',
         d \in Receivers => ReceiverKnows(d)' /\ Meaning(d)',
         RightSecret', NobodyAccused'
  PROVE  LineInv' /\ KnownInv' /\ MeantInv'
<1>1. \A e \in Devices \ {d} : pc'[e] = pc[e]
  <2>1. pc \in [Devices -> SenderStages \cup ReceiverStages]
    BY DEF IInv, TypeOK
  <2>2. QED
    BY <2>1
<1>2. Senders \subseteq Devices /\ Receivers \subseteq Devices
  BY DEF Devices
<1>3. LineInv'
  <2>1. LineInv
    BY DEF IInv
  <2>2. \A r \in Receivers : pc'[r] # "idle" => pc[r] # "idle"
    BY <1>1, <1>2
  <2>3. QED
    BY <2>1, <2>2 DEF LineInv, Key
<1>4. KnownInv'
  <2>1. KnownInv
    BY DEF IInv
  <2>2. ASSUME NEW s \in Senders, s # d PROVE SenderKnows(s)'
    <3>1. SenderKnows(s) /\ pc'[s] = pc[s] /\ known'[s] = known[s] /\ shown'[s] = shown[s]
      BY <1>1, <1>2, <2>1, <2>2 DEF KnownInv
    <3>2. QED
      BY <3>1 DEF SenderKnows, Key
  <2>3. ASSUME NEW r \in Receivers, r # d PROVE ReceiverKnows(r)'
    <3>1. ReceiverKnows(r) /\ pc'[r] = pc[r] /\ known'[r] = known[r] /\ shown'[r] = shown[r]
      BY <1>1, <1>2, <2>1, <2>3 DEF KnownInv
    <3>2. QED
      BY <3>1 DEF ReceiverKnows, Key
  <2>4. QED
    BY <2>2, <2>3 DEF KnownInv
<1>5. MeantInv'
  <2>1. \A r \in Receivers : Meaning(r)
    BY DEF IInv, MeantInv
  <2>2. QED
    BY <1>1, <1>2, <2>1 DEF MeantInv, Meaning
<1>6. QED
  BY <1>3, <1>4, <1>5

LEMMA InitInvariant == Init => IInv
<1> SUFFICES ASSUME Init PROVE IInv
  OBVIOUS
<1>1. TypeOK
  <2>1. <<>> \in Seq(Messages)
    OBVIOUS
  <2>2. QED
    BY <2>1, TransferAssumption DEF Init, TypeOK, Devices, Codes, SenderStages, ReceiverStages
<1>2. InboxInv
  <2>1. Rng(<<>>) = {}
    BY DEF Rng
  <2>2. QED
    BY <2>1 DEF Init, InboxInv, Devices
<1>3. LineInv
  BY NoneIsNone DEF Init, LineInv, Key, Devices, Keys
<1>4. KnownInv /\ MeantInv
  BY DEF Init, KnownInv, SenderKnows, ReceiverKnows, MeantInv, Meaning, RightSecret, NobodyAccused,
         Devices
<1>5. QED
  BY <1>1, <1>2, <1>3, <1>4 DEF IInv

(* A device that comes to rest keeps the code on its screen.                *)
LEMMA RestKeeps ==
  ASSUME IInv, NEW d \in Devices, NEW where \in {"idle", "stopping", "lingering"},
         pc' = [pc EXCEPT ![d] = where], UNCHANGED <<run, line, taken, known, shown>>,
         agreed' = agreed, d \in Receivers => pc[d] # "idle", RightSecret', NobodyAccused'
  PROVE  LineInv' /\ KnownInv' /\ MeantInv'
<1>1. pc'[d] = where
  BY DEF IInv, TypeOK
<1>2. ASSUME d \in Senders PROVE SenderKnows(d)'
  <2>1. SenderKnows(d)
    BY <1>2 DEF IInv, KnownInv
  <2>2. QED
    BY <1>1, <2>1 DEF SenderKnows, Key
<1>3. ASSUME d \in Receivers PROVE ReceiverKnows(d)' /\ Meaning(d)'
  BY <1>1 DEF ReceiverKnows, Meaning
<1>4. QED
  BY <1>2, <1>3, StepKeeps

(* A command that fails forgets what it knew.                               *)
LEMMA FailKeeps ==
  ASSUME IInv, NEW d \in Devices, Fails(d), d \in Receivers => pc[d] # "idle",
         UNCHANGED <<run, session, got, agreed, breaks>>
  PROVE  IInv'
<1>1. PICK where \in {"stopping", "idle"} :
         /\ d \in Senders => where = "stopping"
         /\ d \in Receivers => where = "idle"
         /\ Leaves(d, where, "failed")
  BY TransferAssumption DEF Fails
<1>2. /\ inbox' \in [Devices -> Seq(Messages)]
      /\ \A e \in Devices : Rng(inbox'[e]) \subseteq Rng(inbox[e])
      /\ Rng(inbox'[d]) = {}
      /\ ended' \in [Devices -> BOOLEAN]
  BY <1>1, LeavesFacts DEF IInv
<1>3. TypeOK'
  BY <1>1, <1>2, TransferAssumption
     DEF IInv, TypeOK, Leaves, Goes, session, Devices, SenderStages, ReceiverStages
<1>4. RightSecret' /\ NobodyAccused'
  BY <1>1 DEF IInv, TypeOK, MeantInv, RightSecret, NobodyAccused, Leaves
<1>5. LineInv' /\ KnownInv' /\ MeantInv'
  <2>1. pc' = [pc EXCEPT ![d] = where] /\ UNCHANGED <<line, taken, known, shown>>
    BY <1>1 DEF Leaves, Goes, session
  <2>2. QED
    BY <1>4, <2>1, RestKeeps
<1>6. InboxInv'
  <2>1. \A r \in Receivers : pc'[r] = pc[r] \/ r = d
    BY <1>1 DEF Leaves, Goes, IInv, TypeOK, Devices
  <2>2. QED
    BY <1>2, <2>1, InboxShrinks DEF IInv, session
<1>7. QED
  BY <1>3, <1>5, <1>6 DEF IInv

(* A new run draws a key that no connection and no message knows.           *)
LEMMA StartKeeps ==
  ASSUME IInv, NEW d \in Devices, agreed' = agreed,
         \A e \in Devices \ {d} : /\ pc'[e] = pc[e] /\ run'[e] = run[e] /\ known'[e] = known[e]
                                  /\ shown'[e] = shown[e] /\ inbox'[e] = inbox[e],
         pc'[d] \in {"idle", "listening", "picked"}, run'[d] = run[d] + 1, shown'[d] = {},
         Rng(inbox'[d]) = {},
         \A s \in Senders : taken'[s] = IF s = d THEN None ELSE taken[s],
         \A r \in Receivers : r # d => line'[r] = line[r],
         d \in Receivers => /\ line'[d] # None => line'[d][1] \in Senders
                            /\ pc'[d] # "idle" => line'[d] # None,
         RightSecret', NobodyAccused'
  PROVE  LineInv' /\ InboxInv' /\ KnownInv' /\ MeantInv'
<1>1. Senders \subseteq Devices /\ Receivers \subseteq Devices
  BY DEF Devices
<1>2. \A e \in Devices : run[e] \in Nat
  BY DEF IInv, TypeOK
<1>3. \A e \in Devices \ {d} : Key(e)' = Key(e)
  BY DEF Key
<1>4. LineInv'
  <2>1. LineInv
    BY DEF IInv
  <2>2. ASSUME NEW s \in Senders, NEW r \in Receivers, taken'[s] = Key(r)' PROVE line'[r] = Key(s)'
    <3>1. s # d /\ taken[s] = Key(r)'
      <4>1. run'[r] \in Nat
        BY <1>1, <1>2
      <4>2. Key(r)' \in Keys
        BY <1>1, <4>1 DEF Key, Keys
      <4>3. Key(r)' # None
        BY <4>2, NoneIsNone
      <4>4. QED
        BY <2>2, <4>3
    <3>2. r # d
      <4>1. taken[s] # None
        <5>1. Key(r)' \in Keys
          BY <1>1, <1>2 DEF Key, Keys
        <5>2. QED
          BY <3>1, <5>1, NoneIsNone
      <4>2. taken[s][2] <= run[taken[s][1]]
        BY <2>1, <4>1 DEF LineInv
      <4>3. taken[s][1] = r /\ taken[s][2] = run'[r]
        BY <3>1 DEF Key
      <4>4. QED
        BY <1>2, <4>2, <4>3
    <3>3. Key(r)' = Key(r) /\ Key(s)' = Key(s) /\ line'[r] = line[r]
      BY <1>1, <1>3, <3>1, <3>2
    <3>4. QED
      BY <2>1, <3>1, <3>3 DEF LineInv
  <2>3. \A s \in Senders : taken'[s] # None =>
          taken'[s][1] \in Receivers /\ taken'[s][2] <= run'[taken'[s][1]]
    <3>1. ASSUME NEW s \in Senders, taken'[s] # None
          PROVE  taken'[s][1] \in Receivers /\ taken'[s][2] <= run'[taken'[s][1]]
      <4>1. taken'[s] = taken[s] /\ taken[s][1] \in Receivers /\ taken[s][2] <= run[taken[s][1]]
        BY <2>1, <3>1 DEF LineInv
      <4>2. run'[taken[s][1]] = run[taken[s][1]] \/ run'[taken[s][1]] = run[taken[s][1]] + 1
        BY <1>1, <4>1
      <4>3. taken[s] \in Keys
        BY <3>1, <4>1 DEF IInv, TypeOK
      <4>4. taken[s][2] \in Nat
        BY <4>3 DEF Keys
      <4>5. QED
        BY <1>1, <1>2, <4>1, <4>2, <4>4
    <3>2. QED
      BY <3>1
  <2>4. \A r \in Receivers : /\ line'[r] # None => line'[r][1] \in Senders
                             /\ pc'[r] # "idle" => line'[r] # None
    BY <1>1, <2>1 DEF LineInv
  <2>5. QED
    BY <2>2, <2>3, <2>4 DEF LineInv
<1>5. InboxInv'
  <2>1. ASSUME NEW r \in Receivers, NEW m \in Rng(inbox'[r]) PROVE FitsReceiver(r, m)'
    <3>1. r # d /\ inbox'[r] = inbox[r] /\ line'[r] = line[r] /\ Key(r)' = Key(r)
      BY <1>1, <1>3, <2>1
    <3>2. FitsReceiver(r, m)
      BY <2>1, <3>1 DEF IInv, InboxInv
    <3>3. QED
      BY <3>1, <3>2 DEF FitsReceiver
  <2>2. ASSUME NEW t \in Senders, NEW m \in Rng(inbox'[t]) PROVE FitsSender(t, m)'
    <3>1. t # d /\ inbox'[t] = inbox[t] /\ taken'[t] = taken[t] /\ Key(t)' = Key(t)
      BY <1>1, <1>3, <2>2
    <3>2. FitsSender(t, m)
      BY <2>2, <3>1 DEF IInv, InboxInv
    <3>3. QED
      BY <3>1, <3>2 DEF FitsSender
  <2>3. \A r \in Receivers : pc'[r] = "idle" => Rng(inbox'[r]) = {}
    <3>1. \A r \in Receivers : r # d => inbox'[r] = inbox[r] /\ pc'[r] = pc[r]
      BY <1>1
    <3>2. QED
      BY <3>1 DEF IInv, InboxInv
  <2>4. QED
    BY <2>1, <2>2, <2>3 DEF InboxInv
<1>6. KnownInv'
  <2>1. ASSUME NEW s \in Senders PROVE SenderKnows(s)'
    <3>1. CASE s = d
      BY <3>1 DEF SenderKnows
    <3>2. CASE s # d
      <4>1. SenderKnows(s) /\ Key(s)' = Key(s) /\ taken'[s] = taken[s]
        BY <1>1, <1>3, <3>2 DEF IInv, KnownInv
      <4>2. QED
        BY <1>1, <3>2, <4>1 DEF SenderKnows
    <3>3. QED
      BY <3>1, <3>2
  <2>2. ASSUME NEW r \in Receivers PROVE ReceiverKnows(r)'
    <3>1. CASE r = d
      BY <3>1 DEF ReceiverKnows
    <3>2. CASE r # d
      <4>1. ReceiverKnows(r) /\ Key(r)' = Key(r) /\ line'[r] = line[r]
        BY <1>1, <1>3, <3>2 DEF IInv, KnownInv
      <4>2. QED
        BY <1>1, <3>2, <4>1 DEF ReceiverKnows
    <3>3. QED
      BY <3>1, <3>2
  <2>3. QED
    BY <2>1, <2>2 DEF KnownInv
<1>7. MeantInv'
  <2>1. \A r \in Receivers : Meaning(r)
    BY DEF IInv, MeantInv
  <2>2. \A r \in Receivers : Meaning(r)'
    BY <1>1, <2>1 DEF Meaning
  <2>3. QED
    BY <2>2 DEF MeantInv
<1>8. QED
  BY <1>4, <1>5, <1>6, <1>7

(* What the start of a run does to the device and leaves to the others.     *)
LEMMA BeginsFacts ==
  ASSUME TypeOK, NEW d \in Devices, NEW where \in {"listening", "picked"}, Begins(d, where)
  PROVE  /\ \A e \in Devices \ {d} : /\ pc'[e] = pc[e] /\ run'[e] = run[e] /\ known'[e] = known[e]
                                     /\ shown'[e] = shown[e] /\ inbox'[e] = inbox[e]
         /\ pc[d] = "idle" /\ pc'[d] = where /\ run'[d] = run[d] + 1 /\ shown'[d] = {}
         /\ Rng(inbox'[d]) = {} /\ agreed' = agreed
         /\ NobodyAccused => NobodyAccused'
<1>1. Rng(<<>>) = {}
  BY DEF Rng
<1>2. QED
  BY <1>1 DEF TypeOK, Begins, Goes, NobodyAccused

(* A run of share-key starts.                                               *)
LEMMA ShareKeyKeeps == ASSUME IInv, NEW s \in Senders, ShareKey(s) PROVE IInv'
<1>1. s \in Devices /\ s \notin Receivers /\ <<>> \in Seq(Messages) /\ Begins(s, "listening")
  BY TransferAssumption DEF ShareKey, Devices
<1>2. TypeOK'
  BY <1>1 DEF IInv, TypeOK, ShareKey, Begins, Goes, Devices, SenderStages, ReceiverStages, Codes
<1>3. \A t \in Senders : taken'[t] = IF t = s THEN None ELSE taken[t]
  BY DEF IInv, TypeOK, ShareKey
<1>4. RightSecret' /\ line' = line
  BY DEF IInv, MeantInv, RightSecret, ShareKey
<1>5. LineInv' /\ InboxInv' /\ KnownInv' /\ MeantInv'
  BY <1>1, <1>3, <1>4, BeginsFacts, StartKeeps DEF IInv, MeantInv
<1>6. QED
  BY <1>2, <1>5 DEF IInv

(* A receiver picks a sender.                                               *)
LEMMA ReceiveKeyKeeps ==
  ASSUME IInv, NEW s \in Senders, NEW r \in Receivers, ReceiveKey(r, s) PROVE IInv'
<1>1. /\ r \in Devices /\ r \notin Senders /\ s \in Devices /\ <<>> \in Seq(Messages)
      /\ Begins(r, "picked")
  BY TransferAssumption DEF ReceiveKey, Devices
<1>2. Key(s) \in Keys /\ Key(s)[1] = s /\ Key(s) # None
  <2>1. run[s] \in Nat
    BY <1>1 DEF IInv, TypeOK
  <2>2. QED
    BY <1>1, <2>1, NoneIsNone DEF Key, Keys
<1>3. TypeOK'
  BY <1>1, <1>2 DEF IInv, TypeOK, ReceiveKey, Begins, Goes, Devices, SenderStages,
              ReceiverStages, Codes
<1>4. /\ \A q \in Receivers : line'[q] = IF q = r THEN Key(s) ELSE line[q]
      /\ taken' = taken /\ got' = got
  BY DEF IInv, TypeOK, ReceiveKey
<1>5. RightSecret'
  BY <1>4 DEF IInv, MeantInv, RightSecret
<1>6. \A t \in Senders : taken'[t] = IF t = r THEN None ELSE taken[t]
  BY <1>1, <1>4
<1>7. LineInv' /\ InboxInv' /\ KnownInv' /\ MeantInv'
  BY <1>1, <1>2, <1>4, <1>5, <1>6, BeginsFacts, StartKeeps DEF IInv, MeantInv
<1>8. QED
  BY <1>3, <1>7 DEF IInv

(* The key typed by hand.                                                   *)
LEMMA TypedKeeps == ASSUME IInv, NEW r \in Receivers, Typed(r) PROVE IInv'
<1>1. r \in Devices /\ r \notin Senders /\ Meant[r] \in Senders
  BY TransferAssumption DEF Devices
<1>2. TypeOK'
  BY <1>1 DEF IInv, TypeOK, Typed, wire, Codes
<1>3. /\ \A e \in Devices \ {r} : /\ pc'[e] = pc[e] /\ run'[e] = run[e] /\ known'[e] = known[e]
                                  /\ shown'[e] = shown[e] /\ inbox'[e] = inbox[e]
      /\ pc'[r] = "idle" /\ run'[r] = run[r] + 1 /\ shown'[r] = {}
      /\ UNCHANGED <<taken, line, agreed>> /\ inbox' = inbox
  BY <1>1 DEF IInv, TypeOK, Typed, wire
<1>4. Rng(inbox'[r]) = {}
  BY <1>3 DEF IInv, InboxInv, Typed
<1>5. RightSecret' /\ NobodyAccused'
  BY <1>1 DEF IInv, TypeOK, MeantInv, RightSecret, NobodyAccused, Typed
<1>6. /\ line'[r] # None => line'[r][1] \in Senders
      /\ \A t \in Senders : taken'[t] = IF t = r THEN None ELSE taken[t]
  BY <1>1, <1>3 DEF IInv, LineInv
<1>7. LineInv' /\ InboxInv' /\ KnownInv' /\ MeantInv'
  BY <1>1, <1>3, <1>4, <1>5, <1>6, StartKeeps
<1>8. QED
  BY <1>2, <1>7 DEF IInv

(* A receiver connects; the sender takes it, ignores it, or is gone.        *)
LEMMA ConnectKeeps == ASSUME IInv, NEW r \in Receivers, Connect(r) PROVE IInv'
<1> DEFINE s == line[r][1]
           up == line[r] = Key(s) /\ Accepting(s)
<1>1. s \in Senders /\ line[r] # None /\ r \in Devices /\ r \notin Senders /\ s \notin Receivers
  BY TransferAssumption DEF IInv, LineInv, Connect, Devices
<1>2. CASE up
  <2>1. /\ pc' = [pc EXCEPT ![r] = "commit"]
        /\ UNCHANGED <<run, inbox, ended, line, known, shown, outcome, got, agreed, breaks>>
    BY <1>2 DEF Connect, Goes
  <2>2. /\ \A q \in Receivers : pc'[q] = IF q = r THEN "commit" ELSE pc[q]
        /\ \A t \in Senders : pc'[t] = pc[t]
    BY <1>1, <2>1 DEF IInv, TypeOK, Devices
  <2>3. Key(r) \in Keys /\ Key(r) # None /\ Key(r)[1] = r /\ Key(r)[2] = run[r] /\ run[r] \in Nat
    <3>1. run[r] \in Nat
      BY <1>1 DEF IInv, TypeOK
    <3>2. QED
      BY <1>1, <3>1, NoneIsNone DEF Key, Keys
  <2>4. \/ taken' = taken
        \/ pc[s] = "listening" /\ taken[s] = None /\ taken' = [taken EXCEPT ![s] = Key(r)]
    BY <1>2 DEF Connect
  <2>5. TypeOK'
    <3>1. taken' \in [Senders -> Keys \cup {None}]
      <4>1. taken \in [Senders -> Keys \cup {None}]
        BY DEF IInv, TypeOK
      <4>2. QED
        BY <2>3, <2>4, <4>1
    <3>2. /\ pc' \in [Devices -> SenderStages \cup ReceiverStages]
          /\ \A t \in Senders : pc'[t] \in SenderStages
          /\ \A q \in Receivers : pc'[q] \in ReceiverStages
      BY <1>1, <2>1, <2>2 DEF IInv, TypeOK, ReceiverStages
    <3>3. QED
      BY <2>1, <3>1, <3>2 DEF IInv, TypeOK
  <2>6. \A t \in Senders : taken'[t] = taken[t] \/ (t = s /\ taken[t] = None /\ taken'[t] = Key(r)
                                                     /\ pc[t] = "listening")
    BY <1>1, <2>4 DEF IInv, TypeOK
  <2>7. LineInv'
    <3>1. LineInv
      BY DEF IInv
    <3>2. \A q \in Receivers : Key(q)' = Key(q) /\ line'[q] = line[q]
      BY <2>1 DEF Key
    <3>3. ASSUME NEW t \in Senders, NEW q \in Receivers, taken'[t] = Key(q)' PROVE line'[q] = Key(t)'
      <4>1. CASE taken'[t] = taken[t]
        BY <2>1, <3>1, <3>3, <4>1 DEF LineInv, Key
      <4>2. CASE t = s /\ taken'[t] = Key(r)
        <5>1. q = r
          BY <2>1, <3>3, <4>2 DEF Key
        <5>2. QED
          BY <1>2, <2>1, <4>2, <5>1 DEF Key
      <4>3. QED
        BY <2>6, <4>1, <4>2
    <3>4. \A t \in Senders : taken'[t] # None =>
            taken'[t][1] \in Receivers /\ taken'[t][2] <= run'[taken'[t][1]]
      BY <2>1, <2>3, <2>6, <3>1 DEF LineInv
    <3>5. \A q \in Receivers : /\ line'[q] # None => line'[q][1] \in Senders
                               /\ pc'[q] # "idle" => line'[q] # None
      BY <1>1, <2>2, <3>1, <3>2 DEF LineInv
    <3>6. QED
      BY <3>3, <3>4, <3>5 DEF LineInv
  <2>8. InboxInv'
    <3>1. InboxInv
      BY DEF IInv
    <3>2. ASSUME NEW q \in Receivers, NEW m \in Rng(inbox'[q]) PROVE FitsReceiver(q, m)'
      <4>1. FitsReceiver(q, m)
        BY <2>1, <3>1, <3>2 DEF InboxInv
      <4>2. QED
        BY <2>1, <4>1 DEF FitsReceiver, Key
    <3>3. ASSUME NEW t \in Senders, NEW m \in Rng(inbox'[t]) PROVE FitsSender(t, m)'
      <4>1. FitsSender(t, m)
        BY <2>1, <3>1, <3>3 DEF InboxInv
      <4>2. taken'[t] = taken[t]
        BY <2>6, <4>1 DEF FitsSender
      <4>3. QED
        BY <2>1, <4>1, <4>2 DEF FitsSender, Key
    <3>4. QED
      BY <2>1, <2>2, <3>1, <3>2, <3>3 DEF InboxInv
  <2>9. KnownInv' /\ MeantInv'
    <3>1. KnownInv /\ MeantInv
      BY DEF IInv
    <3>2. ASSUME NEW t \in Senders PROVE SenderKnows(t)'
      <4>1. SenderKnows(t) /\ pc'[t] = pc[t]
        BY <2>2, <3>1 DEF KnownInv
      <4>2. taken'[t] = taken[t] \/ pc[t] = "listening"
        BY <2>6
      <4>3. QED
        BY <2>1, <4>1, <4>2 DEF SenderKnows, Key
    <3>3. ASSUME NEW q \in Receivers PROVE ReceiverKnows(q)' /\ Meaning(q)'
      <4>1. ReceiverKnows(q) /\ Meaning(q) /\ pc'[q] \in {pc[q], "commit"}
        BY <2>2, <3>1 DEF KnownInv, MeantInv
      <4>2. QED
        BY <2>1, <4>1 DEF ReceiverKnows, Meaning, Key
    <3>4. RightSecret' /\ NobodyAccused'
      BY <2>1, <3>1 DEF MeantInv, RightSecret, NobodyAccused
    <3>5. QED
      BY <3>2, <3>3, <3>4 DEF KnownInv, MeantInv
  <2>10. QED
    BY <2>5, <2>7, <2>8, <2>9 DEF IInv
<1>3. CASE ~up
  <2>1. Fails(r) /\ pc[r] # "idle" /\ UNCHANGED <<run, session, got, agreed, breaks>>
    BY <1>1, <1>3 DEF Connect, session
  <2>2. r \in Receivers => pc[r] # "idle"
    BY <2>1
  <2>3. QED
    BY <1>1, <2>1, <2>2, FailKeeps
<1>4. QED
  BY <1>2, <1>3

(* A device that only moves to a stage that presupposes nothing.            *)
LEMMA CloseKeeps == ASSUME IInv, NEW s \in Senders, Closed(s) \/ Exits(s) PROVE IInv'
<1>1. PICK where \in {"idle", "lingering"} :
         /\ pc' = [pc EXCEPT ![s] = where]
         /\ UNCHANGED <<run, session, wire, outcome, got, agreed, breaks>>
  BY DEF Closed, Exits, Goes
<1>2. UNCHANGED <<run, line, taken, known, shown, inbox, ended, outcome, got, agreed, breaks>>
  BY <1>1 DEF session, wire
<1>3. s \in Devices /\ s \notin Receivers
  BY TransferAssumption DEF Devices
<1>4. TypeOK'
  BY <1>1, <1>2, <1>3 DEF IInv, TypeOK, SenderStages
<1>5. RightSecret' /\ NobodyAccused'
  BY <1>2 DEF IInv, MeantInv, RightSecret, NobodyAccused
<1>6. LineInv' /\ KnownInv' /\ MeantInv'
  BY <1>1, <1>2, <1>3, <1>5, RestKeeps
<1>7. \A r \in Receivers : pc'[r] = pc[r]
  BY <1>1, <1>3 DEF IInv, TypeOK, Devices
<1>8. InboxInv'
  BY <1>2, <1>7, InboxShrinks DEF IInv
<1>9. QED
  BY <1>4, <1>6, <1>8 DEF IInv

(* The commitment.                                                          *)
LEMMA GreetKeeps == ASSUME IInv, NEW s \in Senders, Greet(s) PROVE IInv'
<1>m. PICK m : m = [tag |-> "commit", key |-> Key(s)]
  OBVIOUS
<1>1. s \in Devices /\ s \notin Receivers /\ Key(s) \in Keys /\ m \in Messages
  <2>1. s \in Devices /\ s \notin Receivers
    BY TransferAssumption DEF Devices
  <2>2. run[s] \in Nat
    BY <2>1 DEF IInv, TypeOK
  <2>3. Key(s) \in Keys
    BY <2>1, <2>2 DEF Keys, Key
  <2>4. QED
    BY <1>m, <2>1, <2>3 DEF Messages
<1>2. /\ pc' = [pc EXCEPT ![s] = "pub"] /\ taken[s] # None
      /\ UNCHANGED <<run, line, taken, known, shown, ended, outcome, got, agreed, breaks>>
  BY DEF Greet, Goes, session
<1>3. /\ inbox' \in [Devices -> Seq(Messages)]
      /\ \A e \in Devices : Rng(inbox'[e]) \subseteq
             Rng(inbox[e]) \cup (IF e \in Others(s) THEN {m} ELSE {})
  BY <1>m, <1>1, WroteFacts DEF IInv, Greet
<1>4. /\ pc' \in [Devices -> SenderStages \cup ReceiverStages]
      /\ pc'[s] = "pub" /\ \A e \in Devices \ {s} : pc'[e] = pc[e]
  BY <1>1, <1>2 DEF IInv, TypeOK, SenderStages
<1>5. TypeOK'
  BY <1>1, <1>2, <1>3, <1>4 DEF IInv, TypeOK, Devices, SenderStages
<1>6. SenderKnows(s)' /\ RightSecret' /\ NobodyAccused'
  <2>1. SenderKnows(s)
    BY DEF IInv, KnownInv
  <2>2. QED
    BY <1>2, <1>4, <2>1 DEF SenderKnows, Key, IInv, MeantInv, RightSecret, NobodyAccused
<1>7. LineInv' /\ KnownInv' /\ MeantInv'
  BY <1>1, <1>2, <1>6, StepKeeps
<1>8. InboxInv'
  <2>1. ASSUME NEW r \in Receivers, r \in Others(s) PROVE FitsReceiver(r, m)'
    <3>1. line[r] = Key(s)
      BY <2>1, OthersFacts, <1>1 DEF Joined, OnLine
    <3>2. QED
      BY <1>m, <1>2, <3>1 DEF FitsReceiver
  <2>2. ASSUME NEW t \in Senders, t \in Others(s) PROVE FitsSender(t, m)'
    BY <2>2, OthersFacts, <1>1, TransferAssumption
  <2>3. \A r \in Receivers : pc'[r] = pc[r]
    BY <1>1, <1>4 DEF Devices
  <2>4. QED
    BY <1>1, <1>2, <1>3, <2>1, <2>2, <2>3, InboxKeeps DEF IInv
<1>9. QED
  BY <1>5, <1>7, <1>8 DEF IInv

(* The receiver learns the commitment and reveals its key.                  *)
LEMMA ReadCommitKeeps == ASSUME IInv, NEW r \in Receivers, ReadCommit(r) PROVE IInv'
<1> DEFINE h == Head(inbox[r])
<1>m. PICK m : m = [tag |-> "pub", key |-> Key(r)]
  OBVIOUS
<1>1. r \in Devices /\ r \notin Senders /\ inbox[r] # <<>> /\ Key(r) \in Keys /\ m \in Messages
  <2>1. r \in Devices /\ r \notin Senders /\ inbox[r] # <<>>
    BY TransferAssumption DEF Devices, ReadCommit, Sees
  <2>2. run[r] \in Nat
    BY <2>1 DEF IInv, TypeOK
  <2>3. Key(r) \in Keys
    BY <2>1, <2>2 DEF Keys, Key
  <2>4. QED
    BY <1>m, <2>1, <2>3 DEF Messages
<1>2. h \in Rng(inbox[r]) /\ h.tag = "commit" /\ FitsReceiver(r, h)
  BY <1>1, RngFacts DEF IInv, TypeOK, InboxInv, ReadCommit, Sees
<1>3. h.key = line[r] /\ line[r] # None /\ line[r] \in Keys \cup {None}
  BY <1>2 DEF FitsReceiver, IInv, TypeOK, LineInv, ReadCommit
<1>4. /\ pc' = [pc EXCEPT ![r] = "opening"] /\ known' = [known EXCEPT ![r] = line[r]]
      /\ pc[r] = "commit" /\ Replies(r, m)
      /\ UNCHANGED <<run, line, taken, shown, ended, outcome, got, agreed, breaks>>
  BY <1>m, <1>3 DEF ReadCommit, Goes
<1>5. /\ inbox' \in [Devices -> Seq(Messages)]
      /\ \A e \in Devices : Rng(inbox'[e]) \subseteq
             Rng(inbox[e]) \cup (IF e \in Others(r) THEN {m} ELSE {})
  <2>1. TypeOK
    BY DEF IInv
  <2>2. QED
    BY <1>1, <1>4, <2>1, RepliesFacts
<1>6. /\ pc' \in [Devices -> SenderStages \cup ReceiverStages]
      /\ pc'[r] = "opening" /\ known'[r] = line[r]
      /\ \A e \in Devices \ {r} : pc'[e] = pc[e] /\ known'[e] = known[e]
      /\ known' \in [Devices -> Keys \cup {None}]
  BY <1>1, <1>3, <1>4 DEF IInv, TypeOK, ReceiverStages
<1>7. TypeOK'
  BY <1>1, <1>4, <1>5, <1>6 DEF IInv, TypeOK, Devices, ReceiverStages
<1>8. ReceiverKnows(r)' /\ Meaning(r)' /\ RightSecret' /\ NobodyAccused'
  BY <1>4, <1>6 DEF ReceiverKnows, Meaning, IInv, MeantInv, RightSecret, NobodyAccused
<1>9. LineInv' /\ KnownInv' /\ MeantInv'
  BY <1>1, <1>4, <1>6, <1>8, StepKeeps
<1>10. InboxInv'
  <2>1. ASSUME NEW s \in Senders, s \in Others(r) PROVE FitsSender(s, m)'
    <3>1. taken[s] = Key(r)
      BY <2>1, OthersFacts, <1>1 DEF Joined
    <3>2. QED
      BY <1>m, <1>1, <1>4, <3>1, NoneIsNone DEF FitsSender
  <2>2. ASSUME NEW t \in Receivers, t \in Others(r) PROVE FitsReceiver(t, m)'
    BY <2>2, OthersFacts, <1>1, TransferAssumption
  <2>3. \A t \in Receivers : pc'[t] = "idle" => pc[t] = "idle"
    BY <1>6 DEF Devices
  <2>4. QED
    BY <1>1, <1>4, <1>5, <2>1, <2>2, <2>3, InboxKeeps DEF IInv
<1>11. QED
  BY <1>7, <1>9, <1>10 DEF IInv

(* The sender learns the receiver's key and opens its commitment.           *)
LEMMA ReadPubKeeps == ASSUME IInv, NEW s \in Senders, ReadPub(s) PROVE IInv'
<1> DEFINE h == Head(inbox[s])
<1>m. PICK m : m = [tag |-> "opening", key |-> Key(s)]
  OBVIOUS
<1>1. s \in Devices /\ s \notin Receivers /\ inbox[s] # <<>> /\ Key(s) \in Keys /\ m \in Messages
  <2>1. s \in Devices /\ s \notin Receivers /\ inbox[s] # <<>>
    BY TransferAssumption DEF Devices, ReadPub, Sees
  <2>2. run[s] \in Nat
    BY <2>1 DEF IInv, TypeOK
  <2>3. Key(s) \in Keys
    BY <2>1, <2>2 DEF Keys, Key
  <2>4. QED
    BY <1>m, <2>1, <2>3 DEF Messages
<1>2. h \in Rng(inbox[s]) /\ h.tag = "pub" /\ FitsSender(s, h)
  BY <1>1, RngFacts DEF IInv, TypeOK, InboxInv, ReadPub, Sees
<1>3. h.key = taken[s] /\ taken[s] # None /\ taken[s] \in Keys /\ taken[s][1] \in Receivers
  BY <1>2 DEF FitsSender, IInv, TypeOK, LineInv
<1>4. /\ pc' = [pc EXCEPT ![s] = "ask"] /\ known' = [known EXCEPT ![s] = taken[s]]
      /\ shown' = [shown EXCEPT ![s] = {Key(s), taken[s]}]
      /\ Replies(s, m)
      /\ UNCHANGED <<run, line, taken, ended, outcome, got, agreed, breaks>>
  BY <1>m, <1>3 DEF ReadPub, Goes, Code
<1>5. /\ inbox' \in [Devices -> Seq(Messages)]
      /\ \A e \in Devices : Rng(inbox'[e]) \subseteq
             Rng(inbox[e]) \cup (IF e \in Others(s) THEN {m} ELSE {})
  <2>1. TypeOK
    BY DEF IInv
  <2>2. QED
    BY <1>1, <1>4, <2>1, RepliesFacts
<1>6. {Key(s), taken[s]} \in Codes
  BY <1>1, <1>3 DEF Codes
<1>7. /\ pc' \in [Devices -> SenderStages \cup ReceiverStages]
      /\ pc'[s] = "ask" /\ known'[s] = taken[s] /\ shown'[s] = {Key(s), taken[s]}
      /\ \A e \in Devices \ {s} : pc'[e] = pc[e] /\ known'[e] = known[e] /\ shown'[e] = shown[e]
      /\ known' \in [Devices -> Keys \cup {None}] /\ shown' \in [Devices -> Codes]
  BY <1>1, <1>3, <1>4, <1>6 DEF IInv, TypeOK, SenderStages
<1>8. TypeOK'
  BY <1>1, <1>4, <1>5, <1>7 DEF IInv, TypeOK, Devices, SenderStages
<1>9. SenderKnows(s)' /\ RightSecret' /\ NobodyAccused'
  BY <1>3, <1>4, <1>7 DEF SenderKnows, Key, IInv, MeantInv, RightSecret, NobodyAccused
<1>10. LineInv' /\ KnownInv' /\ MeantInv'
  BY <1>1, <1>4, <1>7, <1>9, StepKeeps
<1>11. InboxInv'
  <2>1. ASSUME NEW r \in Receivers, r \in Others(s) PROVE FitsReceiver(r, m)'
    <3>1. line[r] = Key(s)
      BY <2>1, OthersFacts, <1>1 DEF Joined, OnLine
    <3>2. QED
      BY <1>m, <1>4, <3>1 DEF FitsReceiver
  <2>2. ASSUME NEW t \in Senders, t \in Others(s) PROVE FitsSender(t, m)'
    BY <2>2, OthersFacts, <1>1, TransferAssumption
  <2>3. \A r \in Receivers : pc'[r] = pc[r]
    BY <1>1, <1>7 DEF Devices
  <2>4. QED
    BY <1>1, <1>4, <1>5, <2>1, <2>2, <2>3, InboxKeeps DEF IInv
<1>12. QED
  BY <1>8, <1>10, <1>11 DEF IInv

(* The opening is of the commitment: the code stands for the two keys.      *)
LEMMA ReadOpeningKeeps == ASSUME IInv, NEW r \in Receivers, ReadOpening(r) PROVE IInv'
<1> DEFINE h == Head(inbox[r])
<1>1. r \in Devices /\ r \notin Senders /\ inbox[r] # <<>> /\ Key(r) \in Keys
  <2>1. r \in Devices /\ r \notin Senders /\ inbox[r] # <<>>
    BY TransferAssumption DEF Devices, ReadOpening, Sees
  <2>2. run[r] \in Nat
    BY <2>1 DEF IInv, TypeOK
  <2>3. QED
    BY <2>1, <2>2 DEF Keys, Key
<1>2. h \in Rng(inbox[r]) /\ h.tag = "opening" /\ FitsReceiver(r, h)
  BY <1>1, RngFacts DEF IInv, TypeOK, InboxInv, ReadOpening, Sees
<1>3. h.key = line[r] /\ line[r] # None /\ known[r] = line[r]
  <2>1. pc[r] = "opening"
    BY DEF ReadOpening
  <2>2. QED
    BY <1>2, <2>1 DEF FitsReceiver, IInv, LineInv, KnownInv, ReceiverKnows
<1>4. line[r] \in Keys
  BY <1>3 DEF IInv, TypeOK
<1>5. /\ shown' = [shown EXCEPT ![r] = {line[r], Key(r)}] /\ Reads(r)
      /\ pc' = [pc EXCEPT ![r] = "ask"]
      /\ UNCHANGED <<ended, outcome, run, line, taken, known, got, agreed, breaks>>
      /\ pc[r] # "idle"
  BY <1>3 DEF ReadOpening, Code, Goes
<1>6. /\ inbox' \in [Devices -> Seq(Messages)]
      /\ \A e \in Devices : Rng(inbox'[e]) \subseteq Rng(inbox[e])
  BY <1>1, <1>5, ReadsFacts DEF IInv
<1>7. {line[r], Key(r)} \in Codes
  BY <1>1, <1>4 DEF Codes
<1>8. /\ pc' \in [Devices -> SenderStages \cup ReceiverStages]
      /\ pc'[r] = "ask" /\ shown'[r] = {line[r], Key(r)}
      /\ \A e \in Devices \ {r} : pc'[e] = pc[e] /\ shown'[e] = shown[e]
      /\ shown' \in [Devices -> Codes]
  BY <1>1, <1>5, <1>7 DEF IInv, TypeOK, ReceiverStages
<1>9. TypeOK'
  BY <1>1, <1>5, <1>6, <1>8 DEF IInv, TypeOK, Devices, ReceiverStages
<1>10. ReceiverKnows(r)' /\ Meaning(r)' /\ RightSecret' /\ NobodyAccused'
  BY <1>3, <1>5, <1>8 DEF ReceiverKnows, Meaning, Key, IInv, MeantInv, RightSecret, NobodyAccused
<1>11. LineInv' /\ KnownInv' /\ MeantInv'
  BY <1>1, <1>5, <1>8, <1>10, StepKeeps
<1>12. InboxInv'
  <2>1. \A t \in Receivers : pc'[t] = "idle" => pc[t] = "idle"
    BY <1>8 DEF Devices
  <2>2. QED
    BY <1>5, <1>6, <2>1, InboxShrinks DEF IInv
<1>13. QED
  BY <1>9, <1>11, <1>12 DEF IInv

(* A user who says yes sees the same code on the device she means: both     *)
(* devices then speak of the same two keys.                                 *)
LEMMA MatchMeans ==
  ASSUME IInv, NEW r \in Receivers, pc[r] = "ask", Match(r)
  PROVE  line[r][1] = Meant[r]
<1> USE TransferAssumption
<1> DEFINE s == Meant[r]
<1>1. s \in Senders /\ r \notin Senders /\ shown[r] = shown[s]
  BY DEF Match
<1>2. shown[r] = {line[r], Key(r)} /\ line[r][1] \in Senders
  BY DEF IInv, KnownInv, ReceiverKnows, LineInv
<1>3. PICK k \in Keys : k[1] \in Receivers /\ shown[s] = {Key(s), k}
  BY <1>1, <1>2 DEF IInv, KnownInv, SenderKnows
<1>4. line[r] \in {Key(s), k} /\ line[r] # k
  BY <1>1, <1>2, <1>3
<1>5. QED
  BY <1>4 DEF Key

(* The users' answers.                                                      *)
LEMMA AnswerKeeps == ASSUME IInv, NEW d \in Devices, NEW yes \in BOOLEAN, Answer(d, yes) PROVE IInv'
<1> DEFINE where == IF yes THEN "verdict" ELSE "refused"
<1>m. PICK m : m = [tag |-> "verdict", yes |-> yes]
  OBVIOUS
<1>1. m \in Messages /\ shown[d] \in Codes
  BY <1>m DEF IInv, TypeOK, Messages
<1>2. /\ inbox' \in [Devices -> Seq(Messages)]
      /\ \A e \in Devices : Rng(inbox'[e]) \subseteq
             Rng(inbox[e]) \cup (IF e \in Others(d) THEN {m} ELSE {})
  BY <1>m, <1>1, WroteFacts DEF IInv, Answer
<1>3. /\ agreed \subseteq agreed' /\ agreed' \subseteq agreed \cup {<<d, shown[d]>>}
      /\ yes => <<d, shown[d]>> \in agreed'
      /\ pc' = [pc EXCEPT ![d] = where] /\ pc[d] = "ask" /\ (yes => Match(d))
      /\ UNCHANGED <<run, line, taken, known, shown, ended, outcome, got, breaks>>
  BY DEF Answer, Goes, session
<1>4. /\ pc' \in [Devices -> SenderStages \cup ReceiverStages]
      /\ pc'[d] = where /\ \A e \in Devices \ {d} : pc'[e] = pc[e]
  BY <1>3 DEF IInv, TypeOK, SenderStages
<1>5. TypeOK'
  <2>1. agreed' \subseteq Devices \X Codes
    BY <1>1, <1>3 DEF IInv, TypeOK
  <2>2. /\ \A s \in Senders : pc'[s] \in SenderStages
        /\ \A r \in Receivers : pc'[r] \in ReceiverStages
    BY <1>4 DEF IInv, TypeOK, Devices, SenderStages, ReceiverStages
  <2>3. QED
    BY <1>2, <1>3, <1>4, <2>1, <2>2 DEF IInv, TypeOK
<1>6. RightSecret' /\ NobodyAccused'
  BY <1>3 DEF IInv, MeantInv, RightSecret, NobodyAccused
<1>7. ASSUME d \in Senders PROVE SenderKnows(d)'
  <2>1. SenderKnows(d)
    BY <1>7 DEF IInv, KnownInv
  <2>2. QED
    BY <1>3, <1>4, <2>1 DEF SenderKnows, Key
<1>8. ASSUME d \in Receivers PROVE ReceiverKnows(d)' /\ Meaning(d)'
  <2>1. ReceiverKnows(d)
    BY <1>8 DEF IInv, KnownInv
  <2>2. yes => line[d][1] = Meant[d]
    BY <1>3, <1>8, MatchMeans
  <2>3. QED
    BY <1>3, <1>4, <2>1, <2>2 DEF ReceiverKnows, Meaning, Key
<1>9. LineInv' /\ KnownInv' /\ MeantInv'
  BY <1>3, <1>6, <1>7, <1>8, StepKeeps
<1>10. InboxInv'
  <2>1. ASSUME NEW r \in Receivers, r \in Others(d) PROVE FitsReceiver(r, m)'
    BY <1>m DEF FitsReceiver
  <2>2. ASSUME NEW s \in Senders, s \in Others(d) PROVE FitsSender(s, m)'
    <3>1. d \in Receivers /\ taken[s] = Key(d) /\ line[d] = Key(s)
      BY <2>2, OthersFacts, TransferAssumption DEF Joined, OnLine, Devices
    <3>2. run[d] \in Nat
      BY DEF IInv, TypeOK
    <3>3. taken[s] # None /\ taken[s][1] = d
      BY <3>1, <3>2, NoneIsNone DEF Key, Keys
    <3>4. shown[d] = {Key(s), taken[s]}
      BY <1>3, <3>1 DEF IInv, KnownInv, ReceiverKnows
    <3>5. QED
      BY <1>m, <1>3, <3>3, <3>4 DEF FitsSender, Key
  <2>3. \A r \in Receivers : pc'[r] = "idle" => pc[r] = "idle"
    BY <1>4 DEF Devices
  <2>4. QED
    BY <1>2, <1>3, <2>1, <2>2, <2>3, InboxKeeps DEF IInv
<1>11. QED
  BY <1>5, <1>9, <1>10 DEF IInv

(* The secret: both users have confirmed the code of these two keys.        *)
LEMMA SendSecretKeeps == ASSUME IInv, NEW s \in Senders, SendSecret(s) PROVE IInv'
<1> DEFINE h == Head(inbox[s])
<1>m. PICK m : m = [tag |-> "payload", lock |-> {Key(s), taken[s]}, secret |-> s]
  OBVIOUS
<1>1. s \in Devices /\ s \notin Receivers /\ inbox[s] # <<>> /\ h.tag = "verdict" /\ h.yes = TRUE
  BY TransferAssumption DEF Devices, SendSecret, PeerSaid, Sees
<1>2. FitsSender(s, h)
  BY <1>1, RngFacts DEF IInv, TypeOK, InboxInv
<1>3. /\ taken[s] # None /\ known[s] = taken[s]
      /\ <<taken[s][1], {Key(s), taken[s]}>> \in agreed /\ <<s, {Key(s), taken[s]}>> \in agreed
  <2>1. SenderKnows(s) /\ pc[s] = "verdict"
    BY DEF IInv, KnownInv, SendSecret
  <2>2. QED
    BY <1>1, <1>2, <2>1 DEF FitsSender, SenderKnows
<1>4. taken[s] \in Keys /\ Key(s) \in Keys
  <2>1. taken[s] \in Keys /\ run[s] \in Nat
    BY <1>1, <1>3 DEF IInv, TypeOK
  <2>2. QED
    BY <1>1, <2>1 DEF Keys, Key
<1>5. m \in Messages
  BY <1>m, <1>4 DEF Messages, Codes
<1>6. /\ inbox' = [Wrote(s, m) EXCEPT ![s] = <<>>]
      /\ pc' = [pc EXCEPT ![s] = "stopping"] /\ outcome' = [outcome EXCEPT ![s] = "complete"]
      /\ ended' = [e \in Devices |-> e \in Others(s) \/ ended[e]]
      /\ UNCHANGED <<run, line, taken, known, shown, got, agreed, breaks>>
  BY <1>m, <1>3 DEF SendSecret, Lock, Goes, session
<1>7. /\ inbox' \in [Devices -> Seq(Messages)]
      /\ \A e \in Devices : Rng(inbox'[e]) \subseteq
             Rng(inbox[e]) \cup (IF e \in Others(s) THEN {m} ELSE {})
  <2>1. Rng(<<>>) = {} /\ <<>> \in Seq(Messages)
    BY DEF Rng
  <2>2. QED
    BY <1>1, <1>5, <1>6, <2>1, WroteFacts DEF IInv
<1>8. TypeOK'
  BY <1>1, <1>6, <1>7, TransferAssumption DEF IInv, TypeOK, Devices, SenderStages
<1>9. RightSecret' /\ NobodyAccused'
  BY <1>6 DEF IInv, TypeOK, MeantInv, RightSecret, NobodyAccused
<1>10. LineInv' /\ KnownInv' /\ MeantInv'
  BY <1>1, <1>6, <1>9, RestKeeps
<1>11. InboxInv'
  <2>1. ASSUME NEW r \in Receivers, r \in Others(s) PROVE FitsReceiver(r, m)'
    <3>1. taken[s] = Key(r) /\ line[r] = Key(s)
      BY <2>1, <1>1, OthersFacts DEF Joined, OnLine
    <3>2. line[r][1] = s
      BY <3>1 DEF Key
    <3>3. Key(r)' = Key(r) /\ line' = line /\ agreed' = agreed
      BY <1>6 DEF Key
    <3>4. m.tag = "payload" /\ m.lock = {line[r], Key(r)} /\ m.secret = line[r][1]
      BY <1>m, <3>1, <3>2
    <3>5. \A k \in m.lock : <<k[1], m.lock>> \in agreed
      BY <1>3, <3>1, <3>2, <3>4
    <3>6. QED
      BY <3>3, <3>4, <3>5 DEF FitsReceiver
  <2>2. ASSUME NEW t \in Senders, t \in Others(s) PROVE FitsSender(t, m)'
    BY <2>2, OthersFacts, <1>1, TransferAssumption
  <2>3. \A r \in Receivers : pc'[r] = pc[r]
    BY <1>1, <1>6 DEF IInv, TypeOK, Devices
  <2>4. QED
    BY <1>1, <1>6, <1>7, <2>1, <2>2, <2>3, InboxKeeps DEF IInv
<1>12. QED
  BY <1>8, <1>10, <1>11 DEF IInv

(* The receiver goes on to wait for it.                                     *)
LEMMA ExpectKeeps == ASSUME IInv, NEW r \in Receivers, ExpectSecret(r) PROVE IInv'
<1>1. r \in Devices /\ r \notin Senders /\ inbox[r] # <<>>
  BY TransferAssumption DEF Devices, ExpectSecret, PeerSaid, Sees
<1>2. /\ inbox' \in [Devices -> Seq(Messages)]
      /\ \A e \in Devices : Rng(inbox'[e]) \subseteq Rng(inbox[e])
  BY <1>1, ReadsFacts DEF IInv, ExpectSecret
<1>3. /\ pc[r] = "verdict" /\ pc' = [pc EXCEPT ![r] = "payload"]
      /\ UNCHANGED <<run, line, taken, known, shown, ended, outcome, got, agreed, breaks>>
  BY DEF ExpectSecret, Goes, session
<1>4. pc'[r] = "payload" /\ \A e \in Devices \ {r} : pc'[e] = pc[e]
  BY <1>1, <1>3 DEF IInv, TypeOK
<1>5. TypeOK'
  BY <1>1, <1>2, <1>3, TransferAssumption DEF IInv, TypeOK, Devices, ReceiverStages
<1>6. ReceiverKnows(r)' /\ Meaning(r)' /\ RightSecret' /\ NobodyAccused'
  <2>1. ReceiverKnows(r) /\ Meaning(r)
    BY DEF IInv, KnownInv, MeantInv
  <2>2. ReceiverKnows(r)' /\ Meaning(r)'
    BY <1>3, <1>4, <2>1 DEF ReceiverKnows, Meaning, Key
  <2>3. QED
    BY <1>3, <2>2 DEF IInv, MeantInv, RightSecret, NobodyAccused
<1>7. LineInv' /\ KnownInv' /\ MeantInv'
  BY <1>1, <1>3, <1>6, StepKeeps
<1>8. InboxInv'
  <2>1. \A t \in Receivers : pc'[t] = "idle" => pc[t] = "idle"
    BY <1>4 DEF Devices
  <2>2. QED
    BY <1>2, <1>3, <2>1, InboxShrinks DEF IInv
<1>9. QED
  BY <1>5, <1>7, <1>8 DEF IInv

(* What it opens is the key of the sender its user meant.                   *)
LEMMA ReadSecretKeeps == ASSUME IInv, NEW r \in Receivers, ReadSecret(r) PROVE IInv'
<1> DEFINE h == Head(inbox[r])
<1>1. r \in Devices /\ r \notin Senders /\ inbox[r] # <<>> /\ pc[r] = "payload" /\ h.tag = "payload"
  BY TransferAssumption DEF Devices, ReadSecret, Sees
<1>2. FitsReceiver(r, h)
  BY <1>1, RngFacts DEF IInv, TypeOK, InboxInv
<1>3. h.lock = Lock(known[r], Key(r)) /\ h.secret = Meant[r]
  BY <1>1, <1>2 DEF FitsReceiver, Lock, IInv, KnownInv, ReceiverKnows, MeantInv, Meaning
<1>4. got' = [got EXCEPT ![r] = Meant[r]] /\ Leaves(r, "idle", "complete")
  BY <1>3 DEF ReadSecret
<1>5. /\ inbox' \in [Devices -> Seq(Messages)]
      /\ \A e \in Devices : Rng(inbox'[e]) \subseteq Rng(inbox[e])
      /\ Rng(inbox'[r]) = {}
      /\ ended' \in [Devices -> BOOLEAN]
  BY <1>1, <1>4, LeavesFacts DEF IInv
<1>6. /\ pc' = [pc EXCEPT ![r] = "idle"] /\ outcome' = [outcome EXCEPT ![r] = "complete"]
      /\ UNCHANGED <<run, line, taken, known, shown, agreed, breaks>>
  BY <1>4 DEF ReadSecret, Leaves, Goes, session
<1>7. TypeOK'
  BY <1>1, <1>4, <1>5, <1>6, TransferAssumption DEF IInv, TypeOK, Devices, ReceiverStages
<1>8. RightSecret' /\ NobodyAccused'
  BY <1>4, <1>6 DEF IInv, TypeOK, MeantInv, RightSecret, NobodyAccused
<1>9. LineInv' /\ KnownInv' /\ MeantInv'
  BY <1>1, <1>6, <1>8, RestKeeps
<1>10. InboxInv'
  <2>1. \A t \in Receivers : pc'[t] = pc[t] \/ t = r
    BY <1>6 DEF IInv, TypeOK, Devices
  <2>2. QED
    BY <1>5, <1>6, <2>1, InboxShrinks DEF IInv
<1>11. QED
  BY <1>7, <1>9, <1>10 DEF IInv

(* An interrupted command, or a broken connection.                          *)
LEMMA TroubleKeeps ==
  ASSUME IInv, (\E d \in Devices : Interrupt(d)) \/ (\E s \in Senders, r \in Receivers : Break(s, r))
  PROVE  IInv'
<1>1. Rng(<<>>) = {} /\ <<>> \in Seq(Messages)
  BY DEF Rng
<1>2. ASSUME NEW d \in Devices, Interrupt(d) PROVE IInv'
  <2> DEFINE o == (IF pc[d] \in {"stopping", "lingering"} THEN {} ELSE Others(d))
                    \cup (IF d \in Senders THEN Waiting(d) ELSE {})
  <2>1. /\ ended' = [e \in Devices |-> e \in o \/ ended[e]]
        /\ inbox' \in {[inbox EXCEPT ![d] = <<>>],
                       [e \in Devices |-> IF e \in o \cup {d} THEN <<>> ELSE inbox[e]]}
    BY <1>2 DEF Interrupt
  <2> HIDE DEF o
  <2>2. (\A e \in Devices : inbox'[e] \in {<<>>, inbox[e]}) /\ inbox'[d] = <<>>
    BY <2>1 DEF IInv, TypeOK
  <2>3. inbox' \in [Devices -> Seq(Messages)]
    BY <1>1, <2>1 DEF IInv, TypeOK
  <2>4. /\ pc[d] # "idle" /\ pc' = [pc EXCEPT ![d] = "idle"] /\ breaks' = breaks + 1
        /\ outcome' = [outcome EXCEPT ![d] = "interrupted"]
        /\ UNCHANGED <<run, line, taken, known, shown, got, agreed>>
    BY <1>2 DEF Interrupt, Goes, session
  <2>5. TypeOK'
    BY <2>1, <2>3, <2>4 DEF IInv, TypeOK, Devices, SenderStages, ReceiverStages
  <2>6. RightSecret' /\ NobodyAccused'
    BY <2>4 DEF IInv, TypeOK, MeantInv, RightSecret, NobodyAccused
  <2>7. LineInv' /\ KnownInv' /\ MeantInv'
    BY <2>4, <2>6, RestKeeps
  <2>8. InboxInv'
    <3>1. \A t \in Receivers : pc'[t] = pc[t] \/ t = d
      BY <2>4 DEF IInv, TypeOK, Devices
    <3>2. QED
      BY <1>1, <2>2, <2>4, <3>1, InboxShrinks DEF IInv
  <2>9. QED
    BY <2>5, <2>7, <2>8 DEF IInv
<1>3. ASSUME NEW s \in Senders, NEW r \in Receivers, Break(s, r) PROVE IInv'
  <2>1. \A e \in Devices : inbox'[e] \in {<<>>, inbox[e]}
    BY <1>3 DEF IInv, TypeOK, Break, Devices
  <2>2. inbox' \in [Devices -> Seq(Messages)]
    BY <1>1, <1>3 DEF IInv, TypeOK, Break, Devices
  <2>3. /\ breaks' = breaks + 1 /\ ended' = [ended EXCEPT ![s] = TRUE, ![r] = TRUE]
        /\ UNCHANGED <<pc, run, line, taken, known, shown, outcome, got, agreed>>
    BY <1>3 DEF Break, session
  <2>4. TypeOK'
    <3>1. ended' \in [Devices -> BOOLEAN] /\ breaks' \in Nat
      <4>1. ended \in [Devices -> BOOLEAN] /\ breaks \in Nat
        BY DEF IInv, TypeOK
      <4>2. ended' = [[ended EXCEPT ![s] = TRUE] EXCEPT ![r] = TRUE] /\ breaks' = breaks + 1
        BY <2>3, Zenon
      <4>3. [ended EXCEPT ![s] = TRUE] \in [Devices -> BOOLEAN]
        BY <4>1
      <4>4. \A f \in [Devices -> BOOLEAN] : [f EXCEPT ![r] = TRUE] \in [Devices -> BOOLEAN]
        OBVIOUS
      <4>5. ended' \in [Devices -> BOOLEAN]
        BY <4>2, <4>3, <4>4, Zenon
      <4>6. breaks' \in Nat
        BY <4>1, <4>2
      <4>7. QED
        BY <4>5, <4>6
    <3>2. /\ pc' = pc /\ run' = run /\ line' = line /\ taken' = taken /\ known' = known
          /\ shown' = shown /\ outcome' = outcome /\ got' = got /\ agreed' = agreed
      BY <2>3
    <3>3. TypeOK
      BY DEF IInv
    <3>4. QED
      BY <2>2, <3>1, <3>2, <3>3 DEF TypeOK
  <2>5. LineInv' /\ KnownInv' /\ MeantInv'
    BY <2>3 DEF IInv, LineInv, KnownInv, SenderKnows, ReceiverKnows, MeantInv, Meaning, RightSecret,
                NobodyAccused, Key
  <2>6. InboxInv'
    BY <1>1, <2>1, <2>3, InboxShrinks DEF IInv
  <2>7. QED
    BY <2>4, <2>5, <2>6 DEF IInv
<1>4. QED
  BY <1>2, <1>3

(* Every step keeps the invariant.                                          *)
LEMMA NextKeeps == ASSUME IInv, [Next]_vars PROVE IInv'
<1>1. ASSUME NEW d \in Devices, Process(d) PROVE IInv'
  <2>1. CASE (d \in Senders /\ (NoPeer(d) \/ CannotSend(d))) \/ Rejected(d) \/ HungUp(d)
    <3>1. Fails(d) /\ pc[d] # "idle" /\ UNCHANGED <<run, session, got, agreed, breaks>>
      BY <2>1 DEF NoPeer, CannotSend, Rejected, HungUp
    <3>2. QED
      BY <3>1, FailKeeps
  <2>2. CASE d \in Senders /\ (Closed(d) \/ Exits(d) \/ Greet(d) \/ ReadPub(d) \/ SendSecret(d))
    BY <2>2, CloseKeeps, GreetKeeps, ReadPubKeeps, SendSecretKeeps
  <2>3. CASE d \in Receivers /\ (Connect(d) \/ ReadCommit(d) \/ ReadOpening(d) \/ ExpectSecret(d)
                                  \/ ReadSecret(d))
    BY <2>3, ConnectKeeps, ReadCommitKeeps, ReadOpeningKeeps, ExpectKeeps, ReadSecretKeeps
  <2>4. CASE \E yes \in BOOLEAN : Answer(d, yes)
    BY <1>1, <2>4, AnswerKeeps
  <2>5. QED
    BY <1>1, <2>1, <2>2, <2>3, <2>4 DEF Process
<1>2. CASE UNCHANGED vars
  <2>1. TypeOK' /\ LineInv' /\ KnownInv' /\ MeantInv'
    BY <1>2 DEF IInv, TypeOK, LineInv, KnownInv, SenderKnows, ReceiverKnows, MeantInv, Meaning,
                RightSecret, NobodyAccused, vars, session, wire, Key
  <2>2. InboxInv'
    BY <1>2, InboxShrinks DEF IInv, vars, session, wire
  <2>3. QED
    BY <2>1, <2>2 DEF IInv
<1>3. QED
  BY <1>1, <1>2, ShareKeyKeeps, ReceiveKeyKeeps, TypedKeeps, TroubleKeeps DEF Next

LEMMA InvariantHolds == Spec => []IInv
<1>1. Init => IInv
  BY InitInvariant
<1>2. IInv /\ [Next]_vars => IInv'
  BY NextKeeps
<1>3. QED
  BY <1>1, <1>2, PTL DEF Spec

-----------------------------------------------------------------------------

(* Every reachable state is well typed.                                     *)
THEOREM TypeCorrect == Spec => []TypeOK
<1>1. IInv => TypeOK
  BY DEF IInv
<1>2. QED
  BY <1>1, InvariantHolds, PTL

(* No secret is on the wire before both users have confirmed the code of    *)
(* the two keys it is locked with (protocol.ts:122-134, 241-246).           *)
THEOREM SecretNeedsBothHolds == Spec => []SecretNeedsBoth
<1>1. IInv => SecretNeedsBoth
  <2>1. SUFFICES ASSUME IInv, NEW d \in Devices, NEW m \in Rng(inbox[d]), m.tag = "payload"
                 PROVE  \A k \in m.lock : <<k[1], m.lock>> \in agreed
    BY DEF SecretNeedsBoth, Rng
  <2>2. d \in Receivers
    BY <2>1 DEF IInv, InboxInv, FitsSender, Devices
  <2>3. QED
    BY <2>1, <2>2 DEF IInv, InboxInv, FitsReceiver
<1>2. QED
  BY <1>1, InvariantHolds, PTL

(* Whatever a receiver connects to, and however many pair at the same time, *)
(* careful users end up with the key of the device they meant.              *)
THEOREM RightSecretHolds == Spec => []RightSecret
<1>1. IInv => RightSecret
  BY DEF IInv, MeantInv
<1>2. QED
  BY <1>1, InvariantHolds, PTL

(* No device that follows the protocol fails another's check.               *)
THEOREM NobodyAccusedHolds == Spec => []NobodyAccused
<1>1. IInv => NobodyAccused
  BY DEF IInv, MeantInv
<1>2. QED
  BY <1>1, InvariantHolds, PTL
=============================================================================
