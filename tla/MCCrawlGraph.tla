---------------------------- MODULE MCCrawlGraph ----------------------------
(***************************************************************************)
(* Instances of CrawlGraph for TLC.                                        *)
(***************************************************************************)
EXTENDS CrawlGraph, TLC

CONSTANTS s1, s2, u1, u2, u3

\* A page, its directory, and that directory in page form.
PathOf == (u1 :> <<"a", "b">>) @@ (u2 :> <<"a", "">>) @@ (u3 :> <<"a">>)
Paths == [u \in URL |-> PathOf[u]]
AllSucceed == [u \in URL |-> "succeeded"]
OneRedirects == [AllSucceed EXCEPT ![u2] = "redirected"]

\* Requests overlap only where nothing fails, and about the pending and start
\* events: what an end event changes, a status, Rooted does not look at.
FailureOrOverlap == overlaps = 0 \/ (failures = 0 /\ \A u \in URL : stage[u] < 3)

Symmetric == Permutations(Sender)
=============================================================================
