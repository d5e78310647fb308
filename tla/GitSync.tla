------------------------------ MODULE GitSync -------------------------------
(***************************************************************************)
(* The git storage backend (storage/git/index.ts): one device's working     *)
(* tree, index, local commits and its copy of origin/main, and the remote   *)
(* branch that other devices move at any time.                              *)
(*                                                                          *)
(* A commit is the tree it leaves behind.  One operation runs at a time     *)
(* (the vault lock); each action is one git command together with the code  *)
(* up to the next await, so that the process can die between any two.  What *)
(* a git command does is written from how git behaves on versioned, binary  *)
(* files: it merges whole files, and two different changes of one file      *)
(* conflict.                                                                *)
(***************************************************************************)
EXTENDS Naturals, Sequences, SequencesExt, FiniteSets

CONSTANTS
    Paths,          \* the versioned files: *.mem and vault.json
    Existing,       \* those the remote holds at the start
    None,           \* no file
    MaxAttempts,    \* of a push; 3 in the code
    MaxOwn,         \* bound: changes made on this device
    MaxPeer,        \* bound: changes pushed by other devices
    MaxFaults,      \* bound: commands that fail, answers that are lost
    MaxCrashes,     \* bound: deaths of the process
    MaxTrouble      \* bound: the sum of the last three

ASSUME GitAssumption ==
    /\ Existing \subseteq Paths /\ Paths # {}
    /\ MaxAttempts \in Nat \ {0}
    /\ MaxOwn \in Nat /\ MaxPeer \in Nat /\ MaxFaults \in Nat /\ MaxCrashes \in Nat
    /\ MaxTrouble \in Nat

(* Contents are told apart by who wrote them; a file with conflict markers  *)
(* is nobody's.                                                             *)
Mine(n)  == [by |-> "me", n |-> n]
Peers(n) == [by |-> "peer", n |-> n]
Torn     == [by |-> "nobody", n |-> 0]
Contents == {Mine(n) : n \in 1..MaxOwn} \cup {Peers(n) : n \in 0..MaxPeer} \cup {Torn}
Trees    == [Paths -> Contents \cup {None}]

ASSUME NoneAssumption == None \notin Contents

VARIABLES
    remote,     \* origin: the trees of main, oldest first; one tree: an empty remote
    seen,       \* origin/main: the position of the last fetch
    base,       \* the position HEAD's local commits sit on
    ahead,      \* local commits that are not on the remote
    index,      \* what is staged
    work,       \* the files
    unmerged,   \* paths git reports as conflicted
    pc, op,     \* the operation at work, and what it knows
    tries,      \* push attempts so far
    based,      \* history: <<path, what the writer saw, what it wrote>>
    acked,      \* history: <<path, content>> reported as stored
    mishaps,    \* history: windows that were hit, see Properties
    refuses,    \* the remote accepts no push: no permission, a hook
    spent       \* changes, faults and crashes so far

repo  == <<base, ahead, index, work, unmerged>>
local == <<repo, seen>>
hist  == <<based, acked, mishaps>>
vars  == <<remote, local, pc, op, tries, hist, refuses, spent>>

Origin   == Last(remote)
Tip      == IF ahead = <<>> THEN remote[base] ELSE Last(ahead)
Parent   == CASE Len(ahead) > 1 -> ahead[Len(ahead) - 1]
              [] Len(ahead) = 1 -> remote[base]
              [] OTHER          -> remote[IF base > 1 THEN base - 1 ELSE 1]
NoFiles  == [p \in Paths |-> None]
Empty    == remote = <<NoFiles>>        \* the branch does not exist yet
Differ(s, t) == {p \in Paths : s[p] # t[p]}
Over(s, t, P) == [p \in Paths |-> IF p \in P THEN t[p] ELSE s[p]]

(* kind, the paths given, the files and the commit before it, whether a     *)
(* failing push is rolled back, whether to push at all, whether the last    *)
(* commit is the one it made, the conflicted paths, the result.             *)
Operation(kind, P) ==
    [kind |-> kind, paths |-> P, saw |-> IF P = {} THEN NoFiles ELSE work,
     head |-> IF P = {} THEN NoFiles ELSE Tip, undo |-> TRUE, push |-> TRUE,
     made |-> FALSE, err |-> {}, res |-> "none"]

Calm    == spent.faults + spent.crashes + spent.peers < MaxTrouble
Fault   == /\ Calm /\ spent.faults < MaxFaults
           /\ spent' = [spent EXCEPT !.faults = @ + 1]
NoFault == UNCHANGED spent

(* The operation ends.  In a startup the sync is followed by the recovery,  *)
(* and a failure of either leaves the process down.                         *)
Return(res) ==
    /\ op' = [Operation(IF op.kind = "init" THEN "init" ELSE "none", {}) EXCEPT !.res = res]
    /\ pc' = CASE op.kind = "init" /\ res = "ok" -> "recover"
               [] op.kind \in {"init", "recover"} /\ res # "ok" -> "down"
               [] OTHER -> "idle"
    /\ tries' = 0

(***************************************************************************)
(* What git reports and does.                                               *)
(***************************************************************************)

(* status: not_added, modified and deleted.  A new file that is staged and  *)
(* not touched since is in none of them.                                    *)
Dirty == {p \in Paths \ unmerged :
            \/ work[p] # index[p]
            \/ index[p] # Tip[p] /\ Tip[p] # None}

(* status lists deletions that are not staged under deleted, too.           *)
HasStaged == \/ \E p \in Paths \ unmerged : index[p] # Tip[p]
             \/ \E p \in Paths \ unmerged : work[p] = None /\ index[p] # None

Untracked == {p \in Paths : work[p] # None /\ index[p] = None /\ Tip[p] = None}

(* Rebasing: the local commits the remote does not have are applied one     *)
(* after the other.  A commit whose change is there already disappears.     *)
Landed    == Max({k \in 0..Len(ahead) : /\ base + k <= Len(remote)
                                        /\ \A j \in 1..k : remote[base + j] = ahead[j]})
Before(k) == IF k = 1 THEN remote[base] ELSE ahead[k - 1]
Change(k) == Differ(Before(k), ahead[k])

(* The tree after the k-th; the commits that change it; and the result.      *)
Rebased(k) == [p \in Paths |-> IF \E j \in (Landed + 1)..k : p \in Change(j)
                                 THEN ahead[k][p] ELSE Origin[p]]
Kept       == {k \in (Landed + 1)..Len(ahead) : Rebased(k) # Rebased(k - 1)}
Nth(K, i)  == CHOOSE k \in K : Cardinality({j \in K : j <= k}) = i
Replayed   == [i \in 1..Cardinality(Kept) |-> Rebased(Nth(Kept, i))]

Clash(k) == {p \in Change(k) \ UNION {Change(j) : j \in (Landed + 1)..(k - 1)} :
                Origin[p] \notin {Before(k)[p], ahead[k][p]}}
Clashing  == {k \in (Landed + 1)..Len(ahead) : Clash(k) # {}}

(* Fault: the local side wins every conflict.                               *)
Conflicts_Ours == {}

Conflicts == IF Clashing = {} THEN {} ELSE Clash(Min(Clashing))

(* Files in the way of a checkout of the remote's tree.                     *)
Blocked == {p \in Untracked : Origin[p] # None}

(* pull --rebase --autostash, once it fetched: the tracked changes are      *)
(* stashed, the commits rebased, the stash applied.  A stash that conflicts *)
(* leaves its files unmerged, and the pull succeeds nevertheless.           *)
Stashed == {p \in Paths \ Untracked : work[p] # Tip[p] \/ index[p] # Tip[p]}

(* Both merges compare the ends only: files changed here that were changed  *)
(* more than once elsewhere.                                                *)
Passed == {p \in Stashed \cup UNION {Change(k) : k \in (Landed + 1)..Len(ahead)} :
              \E i \in (base + Landed)..Len(remote) :
                 remote[i][p] \notin {remote[base + Landed][p], Origin[p]}}

Pulled ==
    LET tip   == Rebased(Len(ahead))
        torn  == {p \in Stashed : tip[p] \notin {Tip[p], work[p]}}
        fresh == {p \in Stashed \ torn : tip[p] = None /\ work[p] # None}
    IN  /\ base'     = Len(remote)
        /\ ahead'    = Replayed
        /\ work'     = [p \in Paths |-> IF p \in torn THEN (IF tip[p] = None THEN work[p] ELSE Torn)
                                        ELSE IF p \in Stashed \cup Untracked THEN work[p] ELSE tip[p]]
        /\ index'    = Over(tip, work, fresh)
        /\ unmerged' = torn
        /\ mishaps'  = mishaps \cup (IF torn # {} THEN {"unmerged"} ELSE {})
                                \cup (IF Passed # {} THEN {"passed"} ELSE {})

(* pullRemote throws, with the conflicting paths.  What a rebase leaves is   *)
(* aborted.                                                                 *)
Conflicting == IF unmerged # {} THEN unmerged ELSE IF Blocked # {} THEN {} ELSE Conflicts

PullThrows(paths) ==
    \/ Fault /\ paths = {} /\ UNCHANGED <<local, mishaps>>
    \/ /\ NoFault /\ ~Empty /\ (base # Len(remote) \/ unmerged # {})
       /\ unmerged \cup Blocked \cup Conflicts # {}
       /\ paths = Conflicting
       /\ seen' = IF unmerged = {} THEN Len(remote) ELSE seen
       /\ UNCHANGED <<repo, mishaps>>

(* pullRemote returns whether the remote has a branch.                      *)
PullReturns(found) ==
    \/ NoFault /\ Empty /\ ~found /\ UNCHANGED <<local, mishaps>>
    \/ /\ NoFault /\ ~Empty /\ found /\ unmerged = {}
       /\ seen' = Len(remote)
       /\ \/ base = Len(remote) /\ UNCHANGED <<repo, mishaps>>
          \/ base # Len(remote) /\ Blocked \cup Conflicts = {} /\ Pulled

(***************************************************************************)
(* The operations up to their first git command.                            *)
(***************************************************************************)

Begin(kind, P) == op' = Operation(kind, P)

(* Whoever writes over content of this device has seen what that replaced.  *)
Basis(p)    == {work[p]} \cup {b[2] : b \in {c \in based : c[1] = p /\ c[3] = work[p]}}
Bases(P, v) == based \cup UNION {{<<p, s, v>> : s \in Basis(p)} : p \in P}

(* put, putBatch: the files are written, each by a rename.  An etag that no *)
(* longer matches returns before any change.                                *)
Write(kind, P) ==
    /\ pc = "idle" /\ spent.own < MaxOwn
    /\ LET new == Mine(spent.own + 1) IN
         /\ work'  = [p \in Paths |-> IF p \in P THEN new ELSE work[p]]
         /\ based' = Bases(P, new)
    /\ Begin(kind, P) /\ pc' = "add"
    /\ spent' = [spent EXCEPT !.own = @ + 1]
    /\ UNCHANGED <<remote, seen, base, ahead, index, unmerged, tries, acked, mishaps>>

Put(p)      == Write("put", {p})
PutBatch(P) == Cardinality(P) > 1 /\ Write("batch", P)

(* A batch of which one file cannot be written throws, and what the other   *)
(* writes left stays.                                                       *)
PutBatchFails(P, Q) ==
    /\ pc = "idle" /\ spent.own < MaxOwn
    /\ Q # {} /\ Q # P
    /\ Calm /\ spent.faults < MaxFaults
    /\ spent' = [spent EXCEPT !.own = @ + 1, !.faults = @ + 1]
    /\ LET new == Mine(spent.own + 1) IN
         /\ work'  = [p \in Paths |-> IF p \in Q THEN new ELSE work[p]]
         /\ based' = Bases(Q, new)
    /\ op' = [Operation("none", {}) EXCEPT !.res = "partial"]
    /\ UNCHANGED <<remote, seen, base, ahead, index, unmerged, pc, tries, acked, mishaps>>

(* delete: git rm, or, where that refuses, unlink.                          *)
Delete(p) ==
    /\ pc = "idle" /\ spent.own < MaxOwn /\ work[p] # None
    /\ spent'    = [spent EXCEPT !.own = @ + 1]
    /\ work'     = [work EXCEPT ![p] = None]
    /\ LET removes == p \in unmerged \/ (index[p] = Tip[p] /\ work[p] = index[p]) IN
         /\ index'    = IF removes THEN [index EXCEPT ![p] = None] ELSE index
         /\ unmerged' = IF removes THEN unmerged \ {p} ELSE unmerged
    /\ based'    = Bases({p}, None)
    /\ Begin("delete", {p}) /\ pc' = "commit"
    /\ UNCHANGED <<remote, seen, base, ahead, tries, acked, mishaps>>

BeginSync ==
    /\ pc = "idle"
    /\ Begin("sync", {}) /\ pc' = "sync"
    /\ UNCHANGED <<remote, local, tries, hist, spent>>

(* init finds the clone and pulls.                                          *)
Start ==
    /\ pc = "down"
    /\ Begin("init", {}) /\ pc' = "sync"
    /\ UNCHANGED <<remote, local, tries, hist, spent>>

(***************************************************************************)
(* add, commit, push, and what follows a push that failed.                  *)
(***************************************************************************)

Add ==
    /\ pc = "add"
    /\ index'    = Over(index, work, op.paths)
    /\ unmerged' = unmerged \ op.paths
    /\ pc' = "commit"
    /\ UNCHANGED <<remote, seen, base, ahead, work, op, tries, hist, spent>>

(* What is staged is committed, whoever staged it; with nothing staged git  *)
(* makes no commit and reports no error that simple-git would raise.  A     *)
(* commit on top of unmerged paths is refused.                              *)
Commit ==
    /\ pc = "commit"
    /\ \/ /\ ~HasStaged
          /\ Return("ok") /\ UNCHANGED <<ahead, mishaps>>
       \/ /\ HasStaged /\ unmerged # {}
          /\ Return("refused") /\ UNCHANGED <<ahead, mishaps>>
       \/ /\ HasStaged /\ unmerged = {}
          /\ ahead' = IF index = Tip THEN ahead ELSE Append(ahead, index)
          /\ mishaps' = mishaps \cup
                (IF op.kind \in {"put", "batch", "delete"} /\ ~(Differ(Tip, index) \subseteq op.paths)
                   THEN {"swept"} ELSE {})
          /\ op' = [op EXCEPT !.made = index # Tip]
          /\ pc' = "push" /\ UNCHANGED tries
    /\ UNCHANGED <<remote, seen, base, index, work, unmerged, based, acked, spent>>

Retry ==
    IF tries + 1 = MaxAttempts THEN pc' = "failed" ELSE pc' = "pull"

Pushed ==
    /\ remote' = remote \o ahead
    /\ base' = Len(remote') /\ seen' = base' /\ ahead' = <<>>

Acks == IF op.kind \in {"put", "batch"} THEN {<<p, Mine(spent.own)>> : p \in op.paths} ELSE {}

(* Fault: a rejected push is taken for an accepted one.                     *)
PushAccepted_Anyway ==
    /\ pc = "push" /\ ~refuses
    /\ IF base = Len(remote) THEN Pushed ELSE UNCHANGED <<remote, base, seen, ahead>>
    /\ Return("ok") /\ acked' = acked \cup Acks
    /\ UNCHANGED <<index, work, unmerged, based, mishaps, spent>>

(* One attempt: it is accepted, rejected because the remote moved, lost on  *)
(* the way, or accepted with the answer lost.                               *)
PushAccepted ==
    /\ pc = "push" /\ base = Len(remote) /\ ~refuses
    /\ Pushed /\ Return("ok") /\ acked' = acked \cup Acks
    /\ UNCHANGED <<index, work, unmerged, based, mishaps, spent>>

PushFails ==
    /\ pc = "push"
    /\ \/ (base # Len(remote) \/ refuses) /\ NoFault /\ UNCHANGED remote
       \/ Fault /\ UNCHANGED remote
       \/ base = Len(remote) /\ ~refuses /\ Fault /\ remote' = remote \o ahead
    /\ Retry /\ tries' = tries + 1
    /\ UNCHANGED <<local, op, hist>>

(* A pull leaves the last commit the last one, and drops it or not.          *)
Survives == base = Len(remote) \/ Len(ahead) \in Kept
Rebases  == op' = [op EXCEPT !.made = @ /\ Survives]

(* Fault: the attempts are counted anew after each pull.                    *)
RetryPull_Anew ==
    /\ pc = "pull"
    /\ \/ \E found \in BOOLEAN : PullReturns(found) /\ pc' = "push" /\ tries' = 0 /\ Rebases
       \/ \E paths \in {{}, Conflicting} :
             /\ PullThrows(paths)
             /\ pc' = "failed" /\ op' = [op EXCEPT !.err = paths] /\ UNCHANGED tries
    /\ UNCHANGED <<remote, based, acked>>

(* Between two attempts.                                                    *)
RetryPull ==
    /\ pc = "pull"
    /\ \/ \E found \in BOOLEAN : PullReturns(found) /\ pc' = "push" /\ Rebases
       \/ \E paths \in {{}, Conflicting} :
             PullThrows(paths) /\ pc' = "failed" /\ op' = [op EXCEPT !.err = paths]
    /\ UNCHANGED <<remote, tries, based, acked>>

(* put, when the conflict is on its path: the commit is undone and the file *)
(* taken from the remote, if it is there.                                   *)
Undo ==
    /\ pc = "failed" /\ op.kind = "put" /\ op.err \cap op.paths # {}
    /\ LET p == CHOOSE q \in op.paths : TRUE
           there == remote[seen][p] # None IN
         /\ ahead' = Front(ahead)
         /\ index' = IF there THEN [Parent EXCEPT ![p] = remote[seen][p]] ELSE Parent
         /\ work'  = IF there THEN [work EXCEPT ![p] = remote[seen][p]] ELSE work
         /\ Return(IF there THEN "stale" ELSE "refused")
    /\ UNCHANGED <<remote, seen, base, unmerged, hist, spent>>

(* rollbackLastCommit: HEAD is reverted, whosever commit it is.  git refuses *)
(* over staged changes and over changes of the files the revert touches.    *)
Reverts == /\ unmerged = {} /\ index = Tip
           /\ \A p \in Differ(Parent, Tip) : work[p] = Tip[p]

HeadIsOwn == ahead # <<>> /\ (op.paths = {} \/ op.made)

(* Fault: the commit is undone and the files are not.                       *)
Rollback_Mixed ==
    /\ pc = "failed" /\ op.undo
    /\ ~(op.kind = "put" /\ op.err \cap op.paths # {})
    /\ ahead' = IF ahead = <<>> THEN ahead ELSE Front(ahead)
    /\ index' = Parent
    /\ Return("failed")
    /\ UNCHANGED <<remote, seen, base, work, unmerged, hist, spent>>

Rollback ==
    /\ pc = "failed" /\ op.undo
    /\ ~(op.kind = "put" /\ op.err \cap op.paths # {})
    /\ IF Reverts
         THEN /\ ahead' = Append(ahead, Parent)
              /\ index' = Parent
              /\ work'  = Over(work, Parent, Differ(Parent, Tip))
              /\ mishaps' = mishaps \cup (IF HeadIsOwn THEN {} ELSE {"foreign"})
         ELSE UNCHANGED <<ahead, index, work>> /\ mishaps' = mishaps \cup {"shouted"}
    /\ Return("failed")
    /\ UNCHANGED <<remote, seen, base, unmerged, based, acked, spent>>

(* A push of commits that were there before is not rolled back.             *)
GiveUp ==
    /\ pc = "failed" /\ ~op.undo
    /\ Return("failed")
    /\ UNCHANGED <<remote, local, hist, spent>>

(***************************************************************************)
(* sync and the recovery at startup                                         *)
(***************************************************************************)

SyncPull ==
    /\ pc = "sync"
    /\ \/ PullReturns(TRUE) /\ pc' = "reconcile" /\ UNCHANGED <<op, tries>>
       \/ PullReturns(FALSE) /\ Return("ok")
       \/ \E paths \in {{}, Conflicting} : PullThrows(paths) /\ Return("failed")
    /\ UNCHANGED <<remote, based, acked>>

(* Fault: local commits are not pushed unless a file is dirty, too.         *)
Reconcile_DirtyOnly ==
    /\ pc = "reconcile"
    /\ IF Dirty # {}
         THEN index' = Over(index, work, Dirty) /\ pc' = "commit" /\ UNCHANGED <<op, tries>>
         ELSE Return("ok") /\ UNCHANGED index
    /\ UNCHANGED <<remote, seen, base, ahead, work, unmerged, hist, spent>>

Reconcile ==
    /\ pc = "reconcile"
    /\ CASE Dirty # {} ->
              /\ index' = Over(index, work, Dirty)
              /\ pc' = "commit" /\ UNCHANGED <<op, tries>>
         [] Dirty = {} /\ ahead # <<>> ->
              /\ op' = [op EXCEPT !.undo = FALSE]
              /\ pc' = "push" /\ UNCHANGED <<index, tries>>
         [] OTHER -> Return("ok") /\ UNCHANGED index
    /\ UNCHANGED <<remote, seen, base, ahead, work, unmerged, hist, spent>>

(* recoverUnpushedWrites: its verdict on what to push is older than the     *)
(* commit it makes.                                                         *)
Ahead == IF seen = 1 /\ remote[1] = NoFiles THEN <<>> ELSE ahead

Recover ==
    /\ pc = "recover"
    /\ index' = Over(index, work, Dirty)
    /\ op' = [Operation("recover", {}) EXCEPT !.undo = FALSE, !.push = (Ahead # <<>> \/ Dirty # {})]
    /\ pc' = "commitLeft"
    /\ UNCHANGED <<remote, seen, base, ahead, work, unmerged, tries, hist, spent>>

CommitLeft ==
    /\ pc = "commitLeft"
    /\ IF HasStaged /\ unmerged # {}
         THEN Return("refused") /\ UNCHANGED ahead
         ELSE /\ ahead' = IF index = Tip THEN ahead ELSE Append(ahead, index)
              /\ IF op.push THEN pc' = "push" /\ UNCHANGED <<op, tries>> ELSE Return("ok")
    /\ UNCHANGED <<remote, seen, base, index, work, unmerged, hist, spent>>

(***************************************************************************)
(* Deaths of the process, and the other devices.                            *)
(***************************************************************************)

Crash ==
    /\ pc # "down" /\ Calm /\ spent.crashes < MaxCrashes
    /\ spent' = [spent EXCEPT !.crashes = @ + 1]
    /\ pc' = "down" /\ tries' = 0 /\ Begin("none", {})
    /\ UNCHANGED <<remote, local, hist>>

PeerPush(p) ==
    /\ Calm /\ spent.peers < MaxPeer
    /\ spent' = [spent EXCEPT !.peers = @ + 1]
    /\ \/ remote' = Append(remote, [Origin EXCEPT ![p] = Peers(spent.peers + 1)])
       \/ Origin[p] # None /\ remote' = Append(remote, [Origin EXCEPT ![p] = None])
    /\ UNCHANGED <<local, pc, op, tries, hist>>

Step ==
    \/ Add \/ Commit \/ PushAccepted \/ PushFails \/ RetryPull
    \/ Undo \/ Rollback \/ GiveUp
    \/ SyncPull \/ Reconcile \/ Recover \/ CommitLeft

Call ==
    \/ \E p \in Paths : Put(p) \/ Delete(p)
    \/ \E P \in SUBSET Paths : PutBatch(P)
    \/ \E P \in SUBSET Paths : \E Q \in SUBSET P : PutBatchFails(P, Q)

Next == /\ Step \/ Call \/ BeginSync \/ Start \/ Crash \/ \E p \in Paths : PeerPush(p)
        /\ UNCHANGED refuses

(* A fresh clone of a remote that holds the existing files, or nothing.     *)
Init ==
    /\ \E E \in {{}, Existing} :
         remote = <<[p \in Paths |-> IF p \in E THEN Peers(0) ELSE None]>>
    /\ seen = 1 /\ base = 1 /\ ahead = <<>>
    /\ index = remote[1] /\ work = remote[1] /\ unmerged = {}
    /\ pc = "idle" /\ op = Operation("none", {}) /\ tries = 0
    /\ based = {} /\ acked = {} /\ mishaps = {}
    /\ refuses \in BOOLEAN
    /\ spent = [own |-> 0, peers |-> 0, faults |-> 0, crashes |-> 0]

Spec == Init /\ [][Next]_vars

(* The event loop goes on; the daemon is started again and syncs.           *)
Live == Spec /\ WF_vars(Step /\ UNCHANGED refuses) /\ WF_vars(Start /\ UNCHANGED refuses)
             /\ WF_vars(BeginSync /\ UNCHANGED refuses)

-----------------------------------------------------------------------------
(* Properties                                                               *)

(* Every state is well typed.                                               *)
TypeOK ==
    /\ remote \in Seq(Trees) /\ remote # <<>>
    /\ base \in 1..Len(remote) /\ seen \in base..Len(remote)
    /\ ahead \in Seq(Trees) /\ index \in Trees /\ work \in Trees
    /\ unmerged \subseteq Paths
    /\ pc \in {"idle", "down", "add", "commit", "push", "pull", "failed",
               "sync", "reconcile", "recover", "commitLeft"}
    /\ op \in [kind : {"none", "put", "batch", "delete", "sync", "init", "recover"},
               paths : SUBSET Paths, saw : Trees, head : Trees, undo : BOOLEAN, push : BOOLEAN,
               made : BOOLEAN, err : SUBSET Paths, res : {"none", "ok", "stale", "failed", "refused", "partial"}]
    /\ tries \in 0..MaxAttempts
    /\ based \subseteq Paths \X (Contents \cup {None}) \X (Contents \cup {None})
    /\ acked \subseteq Paths \X Contents
    /\ mishaps \subseteq {"unmerged", "passed", "swept", "foreign", "shouted"}
    /\ refuses \in BOOLEAN
    /\ spent \in [own : 0..MaxOwn, peers : 0..MaxPeer, faults : 0..MaxFaults, crashes : 0..MaxCrashes]

(* What put or putBatch reported as stored is in the history of the remote. *)
AckedIsPushed == \A a \in acked : \E i \in 1..Len(remote) : remote[i][a[1]] = a[2]

(* A commit this device pushes changes a file only as somebody on this      *)
(* device asked, from the content the writer saw to the one it wrote, or    *)
(* undoes such a change.  In particular no peer's change is overwritten or  *)
(* undone unseen.                                                           *)
Asked(p, was, now) == was = now \/ <<p, was, now>> \in based \/ <<p, now, was>> \in based

PushesOnlyWhatWasAsked ==
    spent'.peers = spent.peers =>
        \A i \in (Len(remote) + 1)..Len(remote') : \A p \in Paths :
            Asked(p, remote'[i - 1][p], remote'[i][p])

PeersKept == [][mishaps = {} => PushesOnlyWhatWasAsked]_vars

(* An operation that reports failure after its commit leaves its files as   *)
(* they were or as the remote has them, and what this device wrote into     *)
(* other files and has not pushed survives it.                              *)
Fails       == op.kind \in {"put", "batch", "delete"} /\ pc' = "idle" /\ op'.res = "failed"
Unpushed(p) == /\ op.saw[p] \in {Mine(n) : n \in 1..MaxOwn}
               /\ \A i \in 1..Len(remote) : remote[i][p] # op.saw[p]

FailedIsUndone ==
    [][Fails /\ mishaps' = {} =>
         /\ \A p \in op.paths : work'[p] \in {op.saw[p], op.head[p], remote[base'][p]}
         /\ \A p \in Paths \ op.paths : Unpushed(p) => work'[p] = op.saw[p]]_vars

(* Every operation ends, also against a remote that accepts no push: the    *)
(* attempts are counted across the pulls between them.                      *)
OperationEnds == []<>(pc \in {"idle", "down"})

(* Once the others are quiet the device and a remote that accepts its       *)
(* pushes agree, with nothing left to commit or push: crashes, failed       *)
(* operations and lost answers heal by later syncs.  Four things stop it:   *)
(* a conflict that is there at every pull, a stash that did not apply, an   *)
(* untracked file in the way, and a new file that is staged, which sync     *)
(* does not list; an empty remote is never synced to.                       *)
InSync   == ahead = <<>> /\ base = Len(remote) /\ index = Origin /\ work = Origin
Unlisted == {p \in Paths : Tip[p] = None /\ index[p] # None /\ work[p] = index[p]}
Stuck    == unmerged # {} \/ Blocked # {} \/ Conflicts # {} \/ Unlisted # {}

Converges == ~refuses => <>[](InSync \/ Stuck \/ Empty)

=============================================================================
