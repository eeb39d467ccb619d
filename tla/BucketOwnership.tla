-------------------------- MODULE BucketOwnership --------------------------
(***************************************************************************)
(* What the ownership protocol promises, with no database, lock or lease:  *)
(* every bucket has at most one owner, only its owner crawls it, and it    *)
(* changes hands only while nobody is crawling it.                         *)
(***************************************************************************)
EXTENDS FiniteSets

CONSTANTS Worker, Bucket, NoWorker

VARIABLES owner,   \* the worker each bucket is assigned to
          working  \* the workers with local URLs of each bucket

Init ==
  /\ owner = [b \in Bucket |-> NoWorker]
  /\ working = [b \in Bucket |-> {}]

\* The owner starts to take URLs of a bucket into its memory.
Begin(b) ==
  /\ owner[b] \in Worker
  /\ working[b] = {}
  /\ working' = [working EXCEPT ![b] = {owner[b]}]
  /\ UNCHANGED owner

\* A worker is done with a set of buckets, all of them when it dies.
End(w, S) ==
  /\ working' = [b \in Bucket |-> IF b \in S THEN working[b] \ {w}
                                             ELSE working[b]]
  /\ UNCHANGED owner

Transfer(b, w) ==
  /\ working[b] = {}
  /\ owner' = [owner EXCEPT ![b] = w]
  /\ UNCHANGED working

Next ==
  \/ \E b \in Bucket : Begin(b)
  \/ \E w \in Worker, S \in SUBSET Bucket : End(w, S)
  \/ \E b \in Bucket, w \in Worker \cup {NoWorker} : Transfer(b, w)

Spec == Init /\ [][Next]_<<owner, working>>
=============================================================================
