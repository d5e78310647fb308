---------------------------- MODULE KeyTransfer -----------------------------
(***************************************************************************)
(* Handing the vault key to another device: `mementos share-key` on one     *)
(* that has it, the "existing key" step of `init --mode=join` on one that   *)
(* needs it (cli/_transfer/, share-key.ts, existing-key.ts).                *)
(*                                                                          *)
(* Any number of devices share and receive at the same time on one network. *)
(* A run of a command is one process: it draws one key pair, and the pair   *)
(* <<device, run>> names the process, its socket and its public key alike.  *)
(* Between two devices there is a TCP connection: what is written arrives   *)
(* in order or, when the connection breaks, not at all.  A device acts on   *)
(* one message at a time, as the reader hands them out.                     *)
(*                                                                          *)
(* All devices run this program.  Its users are careful: they say "match"   *)
(* only if the two screens they mean to pair show the same code.            *)
(***************************************************************************)
EXTENDS Naturals, Sequences

CONSTANTS
    Senders,     \* devices that hold a vault key
    Receivers,   \* devices that want one
    Meant,       \* for each receiver, the device whose key its user wants
    None,
    MaxRuns,     \* bound: commands started on each device
    MaxBreaks    \* bound: connections that break

Devices == Senders \cup Receivers

ASSUME TransferAssumption ==
    /\ Senders \cap Receivers = {}
    /\ Meant \in [Receivers -> Senders]
    /\ MaxRuns \in [Devices -> Nat]
    /\ MaxBreaks \in Nat

Keys  == Devices \X Nat
Codes == SUBSET Keys

ASSUME NoneIsNone == None \notin Keys \cup Senders

(* The wire: the commitment to a key is told apart from others by that key. *)
Messages == [tag : {"commit", "pub", "opening"}, key : Keys]
       \cup [tag : {"verdict"}, yes : BOOLEAN]
       \cup [tag : {"payload"}, lock : Codes, secret : Senders]

VARIABLES
    pc,        \* where the process on a device is
    run,       \* how many commands a device has started
    line,      \* a receiver's socket: the process it is connected to
    taken,     \* a sender's socket: the process whose connection it took
    inbox,     \* what was written to a device and is not read yet
    ended,     \* has the other side of a device's socket gone?
    known,     \* the public key (or first the commitment) of the other side
    shown,     \* the code on a device's screen; {}: none
    outcome,   \* how the last command on a device ended
    got,       \* the key a receiver was given: the sender it belongs to
    agreed,    \* history: <<device, code>> its user confirmed
    breaks

session == <<line, taken, known, shown>>
wire    == <<inbox, ended>>
vars    == <<pc, run, session, wire, outcome, got, agreed, breaks>>

Key(d) == <<d, run[d]>>

(* computeSas, and the key the secret is encrypted with: both depend on the *)
(* two public keys in no particular order.                                  *)
Lock(k, l) == {k, l}

Code(k, l) == {k, l}

(* r's process is connected to s's; s took that connection.                 *)
OnLine(s, r) == pc[r] \notin {"idle", "picked"} /\ line[r] = Key(s)
Joined(s, r) == OnLine(s, r) /\ taken[s] = Key(r)
Waiting(s)   == {r \in Receivers : OnLine(s, r) /\ taken[s] # Key(r)}

(* The server accepts connections until it is closed.                       *)
Accepting(s)  == pc[s] \notin {"idle", "lingering"}
Advertised(s) == pc[s] \in {"listening", "pub", "ask", "verdict"}

Others(d) == IF d \in Senders THEN {r \in Receivers : Joined(d, r)}
                              ELSE {s \in Senders : Joined(s, d)}

(* A write reaches the other end if it is still there.                      *)
Wrote(d, m) ==
    LET to == IF ended[d] THEN {} ELSE Others(d)
    IN  [e \in Devices |-> IF e \in to THEN Append(inbox[e], m) ELSE inbox[e]]

Goes(d, where) == pc' = [pc EXCEPT ![d] = where]

(* The command ends, with its socket: the other side notices.  Input that   *)
(* was not read makes the close an abort, and what is under way is lost.    *)
Leaves(d, where, how) ==
    /\ Goes(d, where)
    /\ outcome' = [outcome EXCEPT ![d] = how]
    /\ LET others == Others(d) IN
         /\ ended' = [e \in Devices |-> e \in others \/ ended[e]]
         /\ \/ inbox' = [inbox EXCEPT ![d] = <<>>]
            \/ /\ inbox[d] # <<>>
               /\ inbox' = [e \in Devices |-> IF e \in others \cup {d} THEN <<>> ELSE inbox[e]]

Fails(d) == Leaves(d, IF d \in Senders THEN "stopping" ELSE "idle", "failed")

Begins(d, where) ==
    /\ pc[d] = "idle" /\ run[d] < MaxRuns[d]
    /\ Goes(d, where)
    /\ run'     = [run EXCEPT ![d] = @ + 1]
    /\ known'   = [known EXCEPT ![d] = None]
    /\ shown'   = [shown EXCEPT ![d] = {}]
    /\ outcome' = [outcome EXCEPT ![d] = "none"]
    /\ inbox'   = [inbox EXCEPT ![d] = <<>>]
    /\ ended'   = [ended EXCEPT ![d] = FALSE]
    /\ UNCHANGED <<agreed, breaks>>

(***************************************************************************)
(* Finding each other.                                                      *)
(***************************************************************************)

(* sendKey: listen on a free port and advertise it.                         *)
ShareKey(s) ==
    /\ Begins(s, "listening")
    /\ taken' = [taken EXCEPT ![s] = None]
    /\ UNCHANGED <<line, got>>

(* receiveKey: of the senders seen within two seconds the user picks one.   *)
ReceiveKey(r, s) ==
    /\ got[r] = None /\ Advertised(s)
    /\ Begins(r, "picked")
    /\ line' = [line EXCEPT ![r] = Key(s)]
    /\ UNCHANGED <<taken, got>>

(* The first connection a sender gets is the one it serves; a later one is  *)
(* accepted and ignored.  Another run listens on another port.              *)
Connect(r) ==
    /\ pc[r] = "picked"
    /\ LET s == line[r][1]
           up == line[r] = Key(s) /\ Accepting(s)
       IN  /\ IF up THEN Goes(r, "commit") /\ UNCHANGED <<outcome, inbox, ended>> ELSE Fails(r)
           /\ taken' = IF up /\ pc[s] = "listening" /\ taken[s] = None
                         THEN [taken EXCEPT ![s] = Key(r)] ELSE taken
    /\ UNCHANGED <<run, line, known, shown, got, agreed, breaks>>

(* Five minutes without a connection.                                       *)
NoPeer(s) ==
    /\ pc[s] = "listening" /\ taken[s] = None
    /\ Fails(s)
    /\ UNCHANGED <<run, session, got, agreed, breaks>>

(* The advertisement is withdrawn and the server closed.  The process ends  *)
(* with its last connection, and an ignored one is never closed by it.      *)
Closed(s) ==
    /\ pc[s] = "stopping"
    /\ Goes(s, IF Waiting(s) = {} THEN "idle" ELSE "lingering")
    /\ UNCHANGED <<run, session, wire, outcome, got, agreed, breaks>>

Exits(s) ==
    /\ pc[s] = "lingering" /\ Waiting(s) = {}
    /\ Goes(s, "idle")
    /\ UNCHANGED <<run, session, wire, outcome, got, agreed, breaks>>

(***************************************************************************)
(* runSender and runReceiver.                                               *)
(***************************************************************************)

Sees(d, tag) == inbox[d] # <<>> /\ Head(inbox[d]).tag = tag

(* d reads its first message and answers with m.                            *)
Replies(d, m)  == inbox' = [Wrote(d, m) EXCEPT ![d] = Tail(inbox[d])]
Reads(d)       == inbox' = [inbox EXCEPT ![d] = Tail(inbox[d])]

(* Fault: the commitment is to a key drawn anew.                            *)
Greet_NewKey(s) ==
    /\ pc[s] = "listening" /\ taken[s] # None
    /\ inbox' = Wrote(s, [tag |-> "commit", key |-> <<s, run[s] + 1>>])
    /\ Goes(s, "pub")
    /\ UNCHANGED <<run, session, ended, outcome, got, agreed, breaks>>

Greet(s) ==
    /\ pc[s] = "listening" /\ taken[s] # None
    /\ inbox' = Wrote(s, [tag |-> "commit", key |-> Key(s)])
    /\ Goes(s, "pub")
    /\ UNCHANGED <<run, session, ended, outcome, got, agreed, breaks>>

ReadCommit(r) ==
    /\ pc[r] = "commit" /\ Sees(r, "commit")
    /\ known' = [known EXCEPT ![r] = Head(inbox[r]).key]
    /\ Replies(r, [tag |-> "pub", key |-> Key(r)])
    /\ Goes(r, "opening")
    /\ UNCHANGED <<run, line, taken, shown, ended, outcome, got, agreed, breaks>>

ReadPub(s) ==
    /\ pc[s] = "pub" /\ Sees(s, "pub")
    /\ LET k == Head(inbox[s]).key IN
         /\ known' = [known EXCEPT ![s] = k]
         /\ shown' = [shown EXCEPT ![s] = Code(Key(s), k)]
    /\ Replies(s, [tag |-> "opening", key |-> Key(s)])
    /\ Goes(s, "ask")
    /\ UNCHANGED <<run, line, taken, ended, outcome, got, agreed, breaks>>

ReadOpening(r) ==
    /\ pc[r] = "opening" /\ Sees(r, "opening")
    /\ LET k == Head(inbox[r]).key IN
         \/ /\ k = known[r]
            /\ shown' = [shown EXCEPT ![r] = Code(k, Key(r))]
            /\ Reads(r) /\ Goes(r, "ask") /\ UNCHANGED <<ended, outcome>>
         \/ /\ k # known[r]
            /\ Leaves(r, "idle", "accused") /\ UNCHANGED shown
    /\ UNCHANGED <<run, line, taken, known, got, agreed, breaks>>

(* The screens the user of a device means to pair show the same code.       *)
Match(d) == \E r \in Receivers :
               /\ d \in {r, Meant[r]}
               /\ shown[r] = shown[Meant[r]]

Answer(d, yes) ==
    /\ pc[d] = "ask" /\ shown[d] # {}
    /\ yes => Match(d)
    /\ inbox' = Wrote(d, [tag |-> "verdict", yes |-> yes])
    /\ agreed' = IF yes THEN agreed \cup {<<d, shown[d]>>} ELSE agreed
    /\ Goes(d, IF yes THEN "verdict" ELSE "refused")
    /\ UNCHANGED <<run, session, ended, outcome, got, breaks>>

(* Fault: a connection that ended is not taken for a no.                    *)
PeerSaid_Sent(d, yes) == Sees(d, "verdict") /\ yes = Head(inbox[d]).yes

(* The other side's answer; a connection that ended counts as a no.         *)
PeerSaid(d, yes) ==
    \/ Sees(d, "verdict") /\ yes = Head(inbox[d]).yes
    \/ inbox[d] = <<>> /\ ended[d] /\ yes = FALSE

(* Fault: the other side's answer does not count.                           *)
SendSecret_OwnVerdict(s) ==
    /\ pc[s] = "verdict" /\ (PeerSaid(s, TRUE) \/ PeerSaid(s, FALSE))
    /\ Goes(s, "stopping") /\ outcome' = [outcome EXCEPT ![s] = "complete"]
    /\ inbox' = [Wrote(s, [tag |-> "payload", lock |-> Lock(Key(s), known[s]), secret |-> s])
                   EXCEPT ![s] = <<>>]
    /\ ended' = [e \in Devices |-> e \in Others(s) \/ ended[e]]
    /\ UNCHANGED <<run, session, got, agreed, breaks>>

(* Fault: the socket is closed before what was written has left.            *)
SendSecret_Hasty(s) ==
    /\ pc[s] = "verdict" /\ PeerSaid(s, TRUE)
    /\ Leaves(s, "stopping", "complete")
    /\ UNCHANGED <<run, session, got, agreed, breaks>>

(* Both said yes: the secret is sent and the socket closed behind it.  The  *)
(* write of a socket whose other side is known to be gone fails.            *)
SendSecret(s) ==
    /\ pc[s] = "verdict" /\ PeerSaid(s, TRUE)
    /\ Goes(s, "stopping")
    /\ outcome' = [outcome EXCEPT ![s] = "complete"]
    /\ inbox' = [Wrote(s, [tag |-> "payload", lock |-> Lock(Key(s), known[s]), secret |-> s])
                   EXCEPT ![s] = <<>>]
    /\ ended' = [e \in Devices |-> e \in Others(s) \/ ended[e]]
    /\ UNCHANGED <<run, session, got, agreed, breaks>>

CannotSend(s) ==
    /\ pc[s] = "verdict" /\ PeerSaid(s, TRUE) /\ ended[s]
    /\ Fails(s)
    /\ UNCHANGED <<run, session, got, agreed, breaks>>

ExpectSecret(r) ==
    /\ pc[r] = "verdict" /\ PeerSaid(r, TRUE)
    /\ Reads(r) /\ Goes(r, "payload")
    /\ UNCHANGED <<run, session, ended, outcome, got, agreed, breaks>>

(* Either user said no.                                                     *)
Rejected(d) ==
    /\ \/ pc[d] = "verdict" /\ PeerSaid(d, FALSE)
       \/ pc[d] = "refused" /\ (PeerSaid(d, TRUE) \/ PeerSaid(d, FALSE))
    /\ Fails(d)
    /\ UNCHANGED <<run, session, got, agreed, breaks>>

ReadSecret(r) ==
    /\ pc[r] = "payload" /\ Sees(r, "payload")
    /\ LET m == Head(inbox[r]) IN
         \/ /\ m.lock = Lock(known[r], Key(r))
            /\ got' = [got EXCEPT ![r] = m.secret]
            /\ Leaves(r, "idle", "complete")
         \/ /\ m.lock # Lock(known[r], Key(r))
            /\ Leaves(r, "idle", "accused") /\ UNCHANGED got
    /\ UNCHANGED <<run, session, agreed, breaks>>

(* A read that can no longer be satisfied.                                  *)
HungUp(d) ==
    /\ pc[d] \in {"commit", "pub", "opening", "payload"}
    /\ inbox[d] = <<>> /\ ended[d]
    /\ Fails(d)
    /\ UNCHANGED <<run, session, got, agreed, breaks>>

(***************************************************************************)
(* What may happen at any time.                                             *)
(***************************************************************************)

(* The user interrupts a command: every connection of it ends.              *)
Interrupt(d) ==
    /\ pc[d] # "idle" /\ breaks < MaxBreaks
    /\ breaks' = breaks + 1
    /\ Goes(d, "idle")
    /\ outcome' = [outcome EXCEPT ![d] = "interrupted"]
    /\ LET left == (IF pc[d] \in {"stopping", "lingering"} THEN {} ELSE Others(d))
                      \cup (IF d \in Senders THEN Waiting(d) ELSE {}) IN
         /\ ended' = [e \in Devices |-> e \in left \/ ended[e]]
         /\ inbox' \in {[inbox EXCEPT ![d] = <<>>],
                        [e \in Devices |-> IF e \in left \cup {d} THEN <<>> ELSE inbox[e]]}
    /\ UNCHANGED <<run, session, got, agreed>>

(* The connection breaks; what is under way in either direction is lost.    *)
Break(s, r) ==
    /\ Joined(s, r) /\ pc[s] \in {"listening", "pub", "ask", "verdict", "refused"}
    /\ breaks < MaxBreaks /\ breaks' = breaks + 1
    /\ ended' = [ended EXCEPT ![s] = TRUE, ![r] = TRUE]
    /\ inbox' = [inbox EXCEPT ![s] = <<>>, ![r] = <<>>]
    /\ UNCHANGED <<pc, run, session, outcome, got, agreed>>

(* The other way: the user of s has the key shown, as words or as base64,   *)
(* and it is typed on r; a form the prompt does not take is asked for anew. *)
Typed(r) ==
    /\ pc[r] = "idle" /\ got[r] = None /\ run[r] < MaxRuns[r]
    /\ run' = [run EXCEPT ![r] = @ + 1]
    /\ got' = [got EXCEPT ![r] = Meant[r]]
    /\ outcome' = [outcome EXCEPT ![r] = "complete"]
    /\ known' = [known EXCEPT ![r] = None] /\ shown' = [shown EXCEPT ![r] = {}]
    /\ UNCHANGED <<pc, line, taken, wire, agreed, breaks>>

Init ==
    /\ pc = [d \in Devices |-> "idle"] /\ run = [d \in Devices |-> 0]
    /\ line = [r \in Receivers |-> None] /\ taken = [s \in Senders |-> None]
    /\ inbox = [d \in Devices |-> <<>>] /\ ended = [d \in Devices |-> FALSE]
    /\ known = [d \in Devices |-> None] /\ shown = [d \in Devices |-> {}]
    /\ outcome = [d \in Devices |-> "none"] /\ got = [r \in Receivers |-> None]
    /\ agreed = {} /\ breaks = 0

Process(d) ==
    \/ d \in Senders /\ (NoPeer(d) \/ Closed(d) \/ Exits(d) \/ Greet(d) \/ ReadPub(d)
                           \/ SendSecret(d) \/ CannotSend(d))
    \/ d \in Receivers /\ (Connect(d) \/ ReadCommit(d) \/ ReadOpening(d) \/ ExpectSecret(d)
                              \/ ReadSecret(d))
    \/ Rejected(d) \/ HungUp(d)
    \/ \E yes \in BOOLEAN : Answer(d, yes)

Next ==
    \/ \E d \in Devices : Process(d) \/ Interrupt(d)
    \/ \E s \in Senders : ShareKey(s)
    \/ \E r \in Receivers : Typed(r)
    \/ \E s \in Senders, r \in Receivers : ReceiveKey(r, s) \/ Break(s, r)

Spec == Init /\ [][Next]_vars

(* A process goes on while it can, and the users answer what they are asked.*)
Live == Spec /\ \A d \in Devices : WF_vars(Process(d))

(***************************************************************************)
(* Properties.                                                              *)
(***************************************************************************)

SenderStages   == {"idle", "listening", "pub", "ask", "verdict", "refused", "stopping", "lingering"}
ReceiverStages == {"idle", "picked", "commit", "opening", "ask", "verdict", "refused", "payload"}

TypeOK ==
    /\ pc \in [Devices -> SenderStages \cup ReceiverStages]
    /\ \A s \in Senders : pc[s] \in SenderStages
    /\ \A r \in Receivers : pc[r] \in ReceiverStages
    /\ run \in [Devices -> Nat]
    /\ line \in [Receivers -> Keys \cup {None}]
    /\ taken \in [Senders -> Keys \cup {None}]
    /\ inbox \in [Devices -> Seq(Messages)]
    /\ ended \in [Devices -> BOOLEAN]
    /\ known \in [Devices -> Keys \cup {None}]
    /\ shown \in [Devices -> Codes]
    /\ outcome \in [Devices -> {"none", "complete", "failed", "accused", "interrupted"}]
    /\ got \in [Receivers -> Senders \cup {None}]
    /\ agreed \subseteq Devices \X Codes
    /\ breaks \in Nat

(* A secret is on the wire only when the users of both devices have said    *)
(* that the codes match, and it is locked with the keys that code stands    *)
(* for (protocol.ts:122-134).                                               *)
SecretNeedsBoth ==
    \A d \in Devices : \A i \in 1..Len(inbox[d]) :
        LET m == inbox[d][i] IN
          m.tag = "payload" => \A k \in m.lock : <<k[1], m.lock>> \in agreed

(* A receiver ends up with the key of the device its user meant, whichever  *)
(* sender it picked, whoever else pairs at the same time.                   *)
RightSecret == \A r \in Receivers : got[r] \in {None, Meant[r]}

(* Devices that follow the protocol never find a broken commitment or a     *)
(* secret they cannot open: connections, interrupted or taken by another    *)
(* run, are never mixed up.                                                 *)
NobodyAccused == \A d \in Devices : outcome[d] # "accused"

(* Whoever is taken into a session gets out of it: with the secret, or with *)
(* a failure, whatever side refuses, disconnects or is interrupted.         *)
SessionEnds ==
    /\ \A s \in Senders : taken[s] # None ~> pc[s] \in {"stopping", "lingering", "idle"}
    /\ \A r \in Receivers : (\E s \in Senders : Joined(s, r)) ~> pc[r] = "idle"

(* A sender that reports the transfer complete has handed over its secret,  *)
(* unless the connection was gone by then or that receiver is interrupted.  *)
Delivered ==
    \A s \in Senders, r \in Receivers :
        (Joined(s, r) /\ outcome[s] = "complete" /\ ~ended[s])
            ~> (got[r] = s \/ outcome[r] = "interrupted")
=============================================================================
