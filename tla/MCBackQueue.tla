---------------------------- MODULE MCBackQueue ----------------------------
(***************************************************************************)
(* Instances of BackQueue for TLC: two loops, one or two domains, and each *)
(* kind of outside event at most once.                                     *)
(***************************************************************************)
EXTENDS BackQueue, TLC

CONSTANTS t1, t2, c1, c2, l1, l2, l3, u1, u2, d1, d2, b1

TwoTasks == {t1, t2}
OneDomain == [u \in {u1, u2} |-> d1]
TwoDomains == [u \in {u1, u2} |-> IF u = u1 THEN d1 ELSE d2]
OneBucket == [d \in Domain |-> b1]

Once(E) == [e \in Event |-> IF e \in E THEN 1 ELSE 0]
Assign == Once({"assign"})
Error == Once({"error"})
ErrorSlow == Once({"error", "slow"})

\* Loops, cleanups and Lock objects are interchangeable.
Symmetric ==
  Permutations({t1, t2}) \cup Permutations({c1, c2})
    \cup Permutations({l1, l2, l3})
=============================================================================
