------------------------------ MODULE MCWorker ------------------------------
(***************************************************************************)
(* An instance of Worker for TLC: two tasks, each with an asset of its own.*)
(***************************************************************************)
EXTENDS Worker

CONSTANTS a1, b1, A, B

MCNeeds == [t \in Tasks |-> IF t = b1 THEN B ELSE A]
=============================================================================
