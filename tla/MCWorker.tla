------------------------------ MODULE MCWorker ------------------------------
(***************************************************************************)
(* Instances of Worker for TLC.                                            *)
(***************************************************************************)
EXTENDS Worker

TwoWorkers == {1, 2}

Once(E) == [e \in Event |-> IF e \in E THEN 1 ELSE 0]
NoEvents == Once({})
OneCrash == Once({"crash"})
StopCrashError == Once({"stop", "crash", "error"})
Stall == Once({"stall"})
=============================================================================
