----------------------------- MODULE Durability -----------------------------
(***************************************************************************)
(* The durable half of the coordinator: the SQLite file of store.cpp, the  *)
(* flush at the end of every sweep (net.cpp) and the recovery of           *)
(* JobManager::AdoptRecovered, around the task queue of JobManager.        *)
(*                                                                         *)
(* A flush is one transaction, so it happens or it does not; a sweep whose *)
(* flush fails is JobManager's own sweep, which leaves the rows dirty.     *)
(* The process may die between any two handlers.  Workers keep their       *)
(* identities across a restart.                                            *)
(***************************************************************************)
EXTENDS JobManager

VARIABLES
  row,       \* the tasks and task_prior_workers tables, by task id
  rowUnit    \* next_unit in the jobs table, NoJobRow before the first flush

storeVars == <<row, rowUnit>>

NoJobRow == -1

\* The columns of a task: no holder, no deadline, no submissions, and nothing
\* that says whether the job lists it.
Row(r) == [state |-> r.state, start |-> r.start, count |-> r.count,
           replicaOf |-> r.replicaOf, prior |-> r.prior]

NoRow == Row(Absent)

Stored == {t \in TaskIds : row[t].state # "Absent"}

\* upsert_task_: a row that exists gets the new state, and its prior workers
\* only grow.
Upsert(old, new) ==
  IF old = NoRow THEN new
  ELSE [old EXCEPT !.state = new.state, !.prior = @ \cup new.prior]

-----------------------------------------------------------------------------
\* Server::Sweep with a store: expire leases, release the workers that have
\* gone quiet, write what is dirty by then, and clear the marks.
SweepAndFlush ==
  \E lost \in SUBSET Workers :
    LET S     == Expired \cup UNION {HeldBy(w) : w \in lost}
        dirty == dirtyTasks \cup S
    IN  /\ dirty # {} \/ dirtyJob
        /\ task' = [t \in TaskIds |->
             IF t \in S THEN Vacated(task[t], "Release") ELSE task[t]]
        /\ \E order \in SetToSeqs(S) : queue' = queue \o order
        /\ row' = [t \in TaskIds |->
             IF t \in dirty THEN Upsert(row[t], Row(task'[t])) ELSE row[t]]
        /\ rowUnit' = IF dirtyJob THEN nextUnit ELSE rowUnit
        /\ dirtyTasks' = {}
        /\ dirtyJob' = FALSE
        /\ UNCHANGED <<nextId, nextUnit, judgeVars>>

\* Mutant of Recovered: the task is not listed in its job again.
RecoveredUnlisted(r) ==
  IF r.state = "Absent" THEN Absent
  ELSE [Absent EXCEPT
          !.state = IF r.state \in {"Leased", "Validating"} THEN "Queued" ELSE r.state,
          !.start = r.start, !.count = r.count, !.replicaOf = r.replicaOf,
          !.prior = r.prior]

\* AdoptRecovered on one row.  Every recovered task is listed in its job.
Recovered(r) ==
  IF r.state = "Absent" THEN Absent
  ELSE [Absent EXCEPT
          !.state = IF r.state \in {"Leased", "Validating"} THEN "Queued" ELSE r.state,
          !.start = r.start, !.count = r.count, !.replicaOf = r.replicaOf,
          !.inJob = TRUE, !.prior = r.prior]

\* What AdoptRecovered puts in the queue, in the order the rows are read.
Requeued == {t \in TaskIds : row[t].state \in {"Leased", "Validating"}}

\* Mutant of NextFreeId: the highest id in the file itself.
HighestId == IF Stored = {} THEN 1
             ELSE CHOOSE n \in Stored : \A t \in Stored : t <= n

\* LoadAll's next_id: one past the highest id in the file.
NextFreeId == CHOOSE n \in 1 .. (MaxTasks + 1) :
                /\ \A t \in Stored : t < n
                /\ n = 1 \/ n - 1 \in Stored

\* The process dies and comes back.  Reputation and the spot-check pool are
\* not in the file; an empty file means the job is seeded again.
Restart ==
  /\ task' = [t \in TaskIds |-> Recovered(row[t])]
  /\ queue' \in SetToSeqs(Requeued)
  /\ nextId' = NextFreeId
  /\ nextUnit' = IF rowUnit = NoJobRow THEN 0 ELSE rowUnit
  /\ known' = {}
  /\ expected' = [t \in TaskIds |-> NoAnswer]
  /\ verdict' = [t \in TaskIds |-> NoVerdict]
  /\ charged' = {}
  /\ dirtyTasks' = {}
  /\ dirtyJob' = (rowUnit = NoJobRow)
  /\ UNCHANGED storeVars

DurableInit == /\ Init
               /\ row = [t \in TaskIds |-> NoRow]
               /\ rowUnit = NoJobRow

DurableNext == \/ Next /\ UNCHANGED storeVars
               \/ SweepAndFlush
               \/ Restart

DurableSpec == DurableInit /\ [][DurableNext]_<<vars, storeVars>>

-----------------------------------------------------------------------------
\* Whatever a restart would read back differently from memory is marked dirty,
\* so the next flush brings the file up to date: "the one task-creation path
\* Apply does not cover" (job.cpp:754-755) and its like must not be forgotten.
UnflushedIsDirty ==
  /\ \A t \in TaskIds : Recovered(row[t]) # Recovered(Row(task[t])) => t \in dirtyTasks
  /\ rowUnit # nextUnit => dirtyJob

\* "The durable state is always BEHIND memory, never ahead" (store.hpp:14-15):
\* memory knows every task of the file, over the same range (an id reissued
\* after a restart would inherit another task's history), and agrees with the
\* file on every outcome.
FileBehindMemory ==
  \A t \in Stored :
    /\ task[t].state # "Absent"
    /\ <<task[t].start, task[t].count, task[t].replicaOf>>
         = <<row[t].start, row[t].count, row[t].replicaOf>>
    /\ IsTerminal(row[t].state) => task[t].state = row[t].state

\* The file follows memory: it is behind and never ahead, and where it is
\* behind the next flush will know, through failed flushes and restarts.
FileFollowsMemory == FileBehindMemory /\ UnflushedIsDirty

\* Of the file alone: the originals tile what the stored cursor says was carved,
\* so a restart at this instant neither skips a unit nor carves one twice.
FileTilesKeyspace ==
  \A u \in 0 .. (TotalUnits - 1) :
    Cardinality({t \in Stored : /\ row[t].replicaOf = Nil
                                /\ u \in row[t].start .. (row[t].start + row[t].count - 1)})
      = IF u < rowUnit THEN 1 ELSE 0

\* Of the file alone: a cancelled task comes with the accepted sibling that won
\* its range, or a restart would count a range as done that nobody answered.
FileCancelledHasWinner ==
  \A t \in Stored :
    row[t].state = "Cancelled" =>
      \E u \in Stored : /\ row[u].state = "Accepted"
                        /\ row[u].start = row[t].start
                        /\ row[u].count = row[t].count

\* The file can be restarted from at any instant: of itself, it neither loses
\* nor repeats a unit, nor calls one done that nobody answered.
FileIsConsistent == FileTilesKeyspace /\ FileCancelledHasWinner
=============================================================================
