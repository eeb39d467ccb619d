-------------------------- MODULE MCDomainRecords --------------------------
(***************************************************************************)
(* Instances of DomainRecords for TLC: three tasks of any components.      *)
(***************************************************************************)
EXTENDS DomainRecords, TLC

CONSTANTS t1, t2, t3

\* A behaviour has a failed call or a failed query, not both.
OneTrouble == errors = 0 \/ misses = 0

Symmetric == Permutations(Task)
=============================================================================
