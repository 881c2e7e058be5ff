----------------------------- MODULE KeyspaceJob -----------------------------
(***************************************************************************)
(* What a job promises whoever submitted it, with no task, lease, replica  *)
(* or worker in sight: the keyspace is handed out from the bottom up, an   *)
(* answered unit stays answered, and completion is announced once, when    *)
(* every unit is answered.  JobManager is shown to implement it.           *)
(***************************************************************************)
EXTENDS Integers

CONSTANT TotalUnits      \* Job::total_units

VARIABLES
  carved,      \* units handed out so far
  done,        \* units with an accepted answer
  complete     \* what JobComplete reports

Keyspace == 0 .. (TotalUnits - 1)

Init == carved = 0 /\ done = {} /\ complete = FALSE

\* A fresh range is carved.
Carve(n) == /\ carved' = carved + n
            /\ UNCHANGED <<done, complete>>

\* An answer for a carved range is accepted.  Completion is announced at once
\* unless something else about the job is still outstanding.
Finish(lo, hi) ==
  /\ lo <= hi /\ hi < carved
  /\ done' = done \cup lo .. hi
  /\ complete' \in BOOLEAN
  /\ complete' => done' = Keyspace
  /\ complete => complete'
  /\ UNCHANGED carved

Next == \/ \E n \in 1 .. (TotalUnits - carved) : Carve(n)
        \/ \E lo, hi \in Keyspace : Finish(lo, hi)

Spec == Init /\ [][Next]_<<carved, done, complete>>
=============================================================================
