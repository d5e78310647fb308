---------------------------- MODULE RecencyFeed -----------------------------
(***************************************************************************)
(* What the metadata store promises the readers of the vault: the mementos  *)
(* it knows, in one sequence without repetition.  A memento that is set     *)
(* moves to the front, a memento that is deleted leaves the others in the   *)
(* order they had, and a re-sort puts the whole sequence in descending      *)
(* order of updated_at.                                                     *)
(***************************************************************************)
EXTENDS Naturals, Sequences

CONSTANTS Ids, Stamps, None

VARIABLES
    at,     \* [Ids -> updated_at, or None for a memento that is not known]
    feed    \* the sequence of known ids, most recent first

fvars == <<at, feed>>

Known(f) == {id \in Ids : f[id] # None}

Without(s, id) ==
    IF \E n \in DOMAIN s : s[n] = id
      THEN LET n == CHOOSE n \in DOMAIN s : s[n] = id
           IN  [i \in 1..(Len(s) - 1) |-> s[IF i < n THEN i ELSE i + 1]]
      ELSE s

(* The sequences that enumerate the known ids, newest first.                *)
Descending(f) ==
    {s \in Seq(Known(f)) :
        /\ {s[i] : i \in DOMAIN s} = Known(f)
        /\ \A i, j \in DOMAIN s : i < j => s[i] # s[j] /\ f[s[i]] >= f[s[j]]}

FeedInit == at = [id \in Ids |-> None] /\ feed = <<>>

ToFront(id, t) ==
    /\ at' = [at EXCEPT ![id] = t]
    /\ feed' = <<id>> \o Without(feed, id)

Drop(id) ==
    /\ at' = [at EXCEPT ![id] = None]
    /\ feed' = Without(feed, id)

Resort == at' = at /\ feed' \in Descending(at)

FeedNext ==
    \/ \E id \in Ids : Drop(id) \/ \E t \in Stamps : ToFront(id, t)
    \/ Resort

FeedSpec == FeedInit /\ [][FeedNext]_fvars
=============================================================================
