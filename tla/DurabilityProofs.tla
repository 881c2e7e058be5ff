-------------------------- MODULE DurabilityProofs --------------------------
(***************************************************************************)
(* Theorems about the durable store, for every value of the constants and  *)
(* with a restart possible between any two handlers.                       *)
(*                                                                         *)
(* 1. Rows, and what is read back from them.                               *)
(* 2. What each action marks for the next flush.                           *)
(* 3. The file follows memory.                                             *)
(* 4. Without spot-checks, memory and file account for the keyspace.       *)
(***************************************************************************)
EXTENDS Durability, VoteProofs

(***************************************************************************)
(* Part 1: rows.                                                           *)
(***************************************************************************)

RowRecord ==
  [state     : {"Absent", "Queued", "Leased", "Accepted", "Cancelled"},
   start     : Nat,
   count     : Nat,
   replicaOf : TaskIds \cup {Nil},
   prior     : SUBSET Workers]

\* A task that is waiting or leased is queued again by a restart.
Pending(r) == r.state \in {"Queued", "Leased"}

SameRange(r, s) ==
  r.start = s.start /\ r.count = s.count /\ r.replicaOf = s.replicaOf

\* Two rows that a restart reads as the same task.
Agree(r, s) ==
  \/ r.state = "Absent" /\ s.state = "Absent"
  \/ /\ r.state # "Absent" /\ s.state # "Absent"
     /\ (Pending(r) /\ Pending(s)) \/ r.state = s.state
     /\ SameRange(r, s) /\ r.prior = s.prior

\* The row of a task between two handlers.
LEMMA RowFields ==
  ASSUME NEW r \in TaskRecord, Settled(r)
  PROVE  /\ Row(r) \in RowRecord
         /\ Row(r).state = r.state /\ SameRange(Row(r), r) /\ Row(r).prior = r.prior
BY TaskRecordFields DEF Row, RowRecord, Settled, SameRange

\* The row of a blank id.
LEMMA NoRowFields ==
  NoRow \in RowRecord /\ NoRow.state = "Absent" /\ NoRow.prior = {}
<1>1. Absent.prior = {}
  BY DEF Absent
<1> QED
  BY <1>1, AbsentRecord, RowFields DEF NoRow

\* The task a row is read back as.
LEMMA RecoveredFields ==
  ASSUME NEW r \in RowRecord
  PROVE  /\ Recovered(r) \in TaskRecord /\ Settled(Recovered(r))
         /\ Recovered(r).subs = <<>> /\ Recovered(r).holder = NoWorker
         /\ r.state = "Absent" => Recovered(r) = Absent
         /\ r.state # "Absent" =>
              /\ Recovered(r).state = IF Pending(r) THEN "Queued" ELSE r.state
              /\ Recovered(r).inJob = TRUE
              /\ SameRange(Recovered(r), r) /\ Recovered(r).prior = r.prior
<1>1. CASE r.state = "Absent"
  <2>1. Recovered(r) = Absent
    BY <1>1 DEF Recovered
  <2> QED
    BY <1>1, <2>1, AbsentRecord DEF Absent
<1>2. CASE r.state # "Absent"
  <2> DEFINE s == IF r.state \in {"Leased", "Validating"} THEN "Queued" ELSE r.state
             x == [Absent EXCEPT !.state = s, !.start = r.start, !.count = r.count,
                     !.replicaOf = r.replicaOf, !.inJob = TRUE, !.prior = r.prior]
  <2>1. /\ s \in {"Queued", "Accepted", "Cancelled"}
        /\ s = IF Pending(r) THEN "Queued" ELSE r.state
    BY <1>2 DEF RowRecord, Pending
  <2>2. Recovered(r) = x
    BY <1>2 DEF Recovered
  <2> HIDE DEF s
  <2>3. /\ x.state = s /\ x.start = r.start /\ x.count = r.count
        /\ x.replicaOf = r.replicaOf /\ x.inJob = TRUE /\ x.prior = r.prior
        /\ x.holder = NoWorker /\ x.subs = <<>>
    BY DEF Absent
  <2>4. x \in TaskRecord
    BY <2>1, AbsentRecord DEF TaskRecord, RowRecord, TaskStates
  <2> HIDE DEF x
  <2>5. Settled(x)
    BY <2>1, <2>3 DEF Settled
  <2> QED
    BY <1>2, <2>1, <2>2, <2>3, <2>4, <2>5 DEF SameRange
<1> QED
  BY <1>1, <1>2

\* What a restart would read the same.
LEMMA RecoveredSame ==
  ASSUME NEW r \in RowRecord, NEW s \in RowRecord
  PROVE  Recovered(r) = Recovered(s) <=> Agree(r, s)
<1>1. ASSUME Agree(r, s)  PROVE  Recovered(r) = Recovered(s)
  <2>1. CASE r.state = "Absent"
    BY <1>1, <2>1, RecoveredFields DEF Agree
  <2>2. CASE r.state # "Absent"
    <3>1. (IF r.state \in {"Leased", "Validating"} THEN "Queued" ELSE r.state)
            = (IF s.state \in {"Leased", "Validating"} THEN "Queued" ELSE s.state)
      BY <1>1, <2>2 DEF Agree, Pending
    <3>2. s.state # "Absent" /\ SameRange(r, s) /\ r.prior = s.prior
      BY <1>1, <2>2 DEF Agree
    <3> QED
      BY <2>2, <3>1, <3>2 DEF Recovered, SameRange
  <2> QED
    BY <2>1, <2>2
<1>2. ASSUME Recovered(r) = Recovered(s)  PROVE  Agree(r, s)
  <2>1. r.state = "Absent" <=> s.state = "Absent"
    BY <1>2, RecoveredFields, AbsentRecord DEF Pending
  <2>2. CASE r.state # "Absent"
    <3>1. /\ (IF Pending(r) THEN "Queued" ELSE r.state)
               = (IF Pending(s) THEN "Queued" ELSE s.state)
          /\ SameRange(r, s) /\ r.prior = s.prior
      BY <1>2, <2>1, <2>2, RecoveredFields DEF SameRange
    <3>2. (Pending(r) /\ Pending(s)) \/ r.state = s.state
      BY <3>1 DEF Pending
    <3> QED
      BY <2>1, <2>2, <3>1, <3>2 DEF Agree
  <2> QED
    BY <2>1, <2>2 DEF Agree
<1> QED
  BY <1>1, <1>2

\* Agreement is an equivalence.
LEMMA AgreeEquivalence ==
  /\ \A r : Agree(r, r)
  /\ \A r, s : Agree(r, s) => Agree(s, r)
  /\ \A r, s, x : Agree(r, s) /\ Agree(s, x) => Agree(r, x)
BY DEF Agree, Pending, SameRange

(***************************************************************************)
(* Part 2: marks.                                                          *)
(***************************************************************************)

\* A mark stays, and whatever changes of a row, or of the cursor, is marked.
Marked ==
  /\ dirtyTasks \subseteq dirtyTasks'
  /\ dirtyJob => dirtyJob'
  /\ nextUnit' # nextUnit => dirtyJob'
  /\ \A u \in TaskIds : u \in dirtyTasks' \/ Row(task'[u]) = Row(task[u])

\* Each action but the clock leaves the tasks it does not mark as they are.
LEMMA MarkedByTasks ==
  ASSUME dirtyTasks \subseteq dirtyTasks', dirtyJob => dirtyJob', nextUnit' # nextUnit => dirtyJob',
         \A u \in TaskIds : u \in dirtyTasks' \/ task'[u] = task[u]
  PROVE  Marked
BY DEF Marked

\* Every step of the manager marks the rows of the tasks it changes.
LEMMA NextMarks ==
  ASSUME IInv, [Next]_vars  PROVE  Marked
<1>a. task \in [TaskIds -> TaskRecord]
  BY DEF IInv, TypeOK
<1>1. ASSUME NEW w \in Workers, GrantQueued(w)  PROVE  Marked
  BY <1>a, <1>1, MarkedByTasks DEF GrantQueued
<1>2. ASSUME NEW w \in Workers, CarveFresh(w)  PROVE  Marked
  BY <1>a, <1>2, MarkedByTasks DEF CarveFresh
<1>3. ASSUME NEW w \in Workers, IssueSpeculative(w)  PROVE  Marked
  <2>1. /\ dirtyTasks' = dirtyTasks \cup {nextId}
        /\ nextUnit' = nextUnit /\ dirtyJob' = dirtyJob
        /\ \A u \in TaskIds \ {nextId} : task'[u] = task[u]
    BY <1>a, <1>3 DEF IssueSpeculative
  <2> QED
    BY <2>1, MarkedByTasks
<1>4. ASSUME NEW w \in Workers, SpotCheckQueued(w)  PROVE  Marked
  BY <1>a, <1>4, MarkedByTasks DEF SpotCheckQueued
<1>5. ASSUME NEW w \in Workers, SpotCheckFresh(w)  PROVE  Marked
  BY <1>a, <1>5, MarkedByTasks DEF SpotCheckFresh
<1>6. ASSUME NEW w \in Workers, NEW t \in TaskIds, Renew(w, t)  PROVE  Marked
  BY <1>a, <1>6, MarkedByTasks DEF Renew
<1>7. ASSUME NEW S, NEW ev, Requeue(S, ev)  PROVE  Marked
  BY <1>a, <1>7, MarkedByTasks DEF Requeue
<1>8. ASSUME NEW w \in Workers, NEW t \in TaskIds, NEW a,
             RequestReplica(w, t, a) \/ RestartValidation(w, t, a)
      PROVE  Marked
  BY <1>a, <1>8, MarkedByTasks DEF RequestReplica, RestartValidation
<1>9. ASSUME NEW w \in Workers, NEW t \in TaskIds, NEW a, AcceptResult(w, t, a)
      PROVE  Marked
  BY <1>a, <1>9, MarkedByTasks DEF AcceptResult
<1>10. CASE Tick
  <2>1. \A u \in TaskIds : Row(task'[u]) = Row(task[u])
    <3> SUFFICES ASSUME NEW u \in TaskIds  PROVE  Row(task'[u]) = Row(task[u])
      OBVIOUS
    <3>1. task'[u] = [task[u] EXCEPT !.lease = IF @ > 0 THEN @ - 1 ELSE 0]
      BY <1>10 DEF Tick
    <3>2. /\ task'[u].state = task[u].state /\ task'[u].start = task[u].start
          /\ task'[u].count = task[u].count /\ task'[u].replicaOf = task[u].replicaOf
          /\ task'[u].prior = task[u].prior
      BY <1>a, <3>1 DEF TaskRecord
    <3> QED
      BY <3>2 DEF Row
  <2> QED
    BY <1>10, <2>1 DEF Tick, Marked
<1>11. CASE UNCHANGED vars
  BY <1>11, MarkedByTasks DEF vars
<1> QED
  BY <1>1, <1>2, <1>3, <1>4, <1>5, <1>6, <1>7, <1>8, <1>9, <1>10, <1>11
  DEF Next, OnLeaseRequest, Depart, OnRelease, ChecksumMismatch, OnResultHeader,
      SweepExpiredLeases

(***************************************************************************)
(* Part 3: the file follows memory.                                        *)
(***************************************************************************)

\* What is stored is typed, a missing row says nothing, and the exclusions in the
\* file are among those in memory.
StoreOK ==
  /\ row \in [TaskIds -> RowRecord]
  /\ rowUnit \in 0 .. TotalUnits \/ rowUnit = NoJobRow
  /\ \A t \in TaskIds : row[t].state = "Absent" => row[t] = NoRow
  /\ \A t \in TaskIds : row[t].prior \subseteq task[t].prior

\* An id without a task would be stored as no row.
BlankRows == \A t \in TaskIds : task[t].state = "Absent" => Row(task[t]) = NoRow

\* FileFollowsMemory alone does not survive a flush: an upsert keeps the range of
\* the old row and joins the exclusions, so both must already agree with memory.
FInv == IInv /\ BlankRows /\ StoreOK /\ FileFollowsMemory

\* A task that exists goes on existing, over the same range, and its outcome stands.
LEMMA TasksStand ==
  ASSUME IInv, Step, NEW t \in TaskIds, task[t].state # "Absent"
  PROVE  /\ task'[t].state # "Absent" /\ SameTask(task'[t], task[t])
         /\ task[t].state \in {"Accepted", "Cancelled"} => task'[t].state = task[t].state
<1>1. task[t] # Absent
  BY AbsentRecord
<1>2. ~Probed(t) /\ ~Raced(t) /\ ~Carved(t)
  BY <1>1 DEF Probed, Raced, Carved
<1>3. CASE Kept(t)
  BY <1>3 DEF Kept
<1>4. CASE Accepting
  BY <1>4 DEF Accepting, Kept, Beaten
<1> QED
  BY <1>2, <1>3, <1>4 DEF Step, Quiet, Carving

\* The exclusions of a task only grow, and nothing is written over a blank id.
LEMMA VotesStand ==
  ASSUME IInv, Step, VoteStep, BlankRows
  PROVE  BlankRows' /\ \A t \in TaskIds : task[t].prior \subseteq task'[t].prior
<1>1. ASSUME NEW t \in TaskIds
      PROVE  \/ VoteKept(t) \/ VoteFresh(t)
             \/ task[t].state = "Leased" /\ task[t].prior \subseteq task'[t].prior
  BY DEF VoteStep, NoVote, Vote, CheckLease
<1>2. ASSUME NEW t \in TaskIds  PROVE  task[t].prior \subseteq task'[t].prior
  <2>1. Absent.prior = {}
    BY DEF Absent
  <2> QED
    BY <1>1, <2>1 DEF VoteKept, VoteFresh
<1>3. ASSUME NEW t \in TaskIds, task'[t].state = "Absent"  PROVE  Row(task'[t]) = NoRow
  <2>1. SameTask(task'[t], task[t]) /\ task[t].state = "Absent"
    BY <1>3, KindsOfTask DEF Probed, Raced, Carved
  <2>2. task'[t].prior = task[t].prior
    <3>1. Absent.prior = {}
      BY DEF Absent
    <3> QED
      BY <1>1, <2>1, <3>1 DEF VoteKept, VoteFresh
  <2>3. Row(task'[t]) = Row(task[t])
    BY <1>3, <2>1, <2>2 DEF Row, SameTask
  <2> QED
    BY <2>1, <2>3 DEF BlankRows
<1> QED
  BY <1>2, <1>3 DEF BlankRows

\* A handler leaves the file behind memory, and marks what it makes it lag by.
LEMMA HandlerKeepsFInv ==
  ASSUME FInv, [Next]_vars, UNCHANGED storeVars  PROVE  FInv'
<1>1. Step /\ IInv' /\ VoteStep /\ Marked
  BY NextStep, NextVote, NextMarks DEF FInv, Step
<1>2. row' = row /\ rowUnit' = rowUnit
  BY DEF storeVars
<1>3. BlankRows' /\ \A t \in TaskIds : task[t].prior \subseteq task'[t].prior
  BY <1>1, VotesStand DEF FInv
<1>4. StoreOK'
  BY <1>2, <1>3 DEF FInv, StoreOK
<1>5. FileBehindMemory'
  <2> SUFFICES ASSUME NEW t \in Stored
               PROVE  /\ task'[t].state # "Absent"
                      /\ task'[t].start = row[t].start /\ task'[t].count = row[t].count
                      /\ task'[t].replicaOf = row[t].replicaOf
                      /\ IsTerminal(row[t].state) => task'[t].state = row[t].state
    BY <1>2 DEF FileBehindMemory, Stored
  <2>1. /\ t \in TaskIds /\ task[t].state # "Absent"
        /\ task[t].start = row[t].start /\ task[t].count = row[t].count
        /\ task[t].replicaOf = row[t].replicaOf
        /\ IsTerminal(row[t].state) => task[t].state = row[t].state
    BY DEF FInv, FileFollowsMemory, FileBehindMemory, Stored
  <2>2. IsTerminal(row[t].state) => row[t].state \in {"Accepted", "Cancelled"}
    BY <2>1 DEF IsTerminal, FInv, StoreOK, RowRecord
  <2> QED
    BY <1>1, <2>1, <2>2, TasksStand DEF FInv, SameTask
<1>6. UnflushedIsDirty'
  <2>1. ASSUME NEW t \in TaskIds, Recovered(row[t]) # Recovered(Row(task'[t]))
        PROVE  t \in dirtyTasks'
    BY <1>1, <2>1 DEF Marked, FInv, FileFollowsMemory, UnflushedIsDirty
  <2>2. rowUnit # nextUnit' => dirtyJob'
    BY <1>1 DEF Marked, FInv, FileFollowsMemory, UnflushedIsDirty
  <2> QED
    BY <1>2, <2>1, <2>2 DEF UnflushedIsDirty
<1> QED
  BY <1>1, <1>3, <1>4, <1>5, <1>6 DEF FInv, FileFollowsMemory

\* A file whose rows all agree with memory follows it.
LEMMA AgreeingFileFollows ==
  ASSUME IInv, StoreOK, \A t \in TaskIds : Agree(row[t], Row(task[t])),
         rowUnit # nextUnit => dirtyJob
  PROVE  FileFollowsMemory
<1>1. ASSUME NEW t \in TaskIds
      PROVE  /\ row[t] \in RowRecord /\ Row(task[t]) \in RowRecord
             /\ Row(task[t]).state = task[t].state /\ SameRange(Row(task[t]), task[t])
  BY TaskFacts, RowFields DEF StoreOK
<1>2. FileBehindMemory
  <2> SUFFICES ASSUME NEW t \in Stored
               PROVE  /\ task[t].state # "Absent"
                      /\ task[t].start = row[t].start /\ task[t].count = row[t].count
                      /\ task[t].replicaOf = row[t].replicaOf
                      /\ IsTerminal(row[t].state) => task[t].state = row[t].state
    BY DEF FileBehindMemory
  <2>1. t \in TaskIds /\ row[t].state # "Absent" /\ Agree(row[t], Row(task[t]))
    BY DEF Stored
  <2>2. /\ task[t].state # "Absent"
        /\ task[t].start = row[t].start /\ task[t].count = row[t].count
        /\ task[t].replicaOf = row[t].replicaOf
        /\ Pending(row[t]) \/ row[t].state = task[t].state
    BY <1>1, <2>1 DEF Agree, SameRange
  <2>3. Pending(row[t]) => ~IsTerminal(row[t].state)
    BY DEF Pending, IsTerminal
  <2> QED
    BY <2>2, <2>3
<1>3. \A t \in TaskIds : Recovered(row[t]) = Recovered(Row(task[t]))
  BY <1>1, RecoveredSame
<1> QED
  BY <1>2, <1>3 DEF FileFollowsMemory, UnflushedIsDirty

\* A row that exists takes the state and the new exclusions of its task.
LEMMA UpsertAgrees ==
  ASSUME NEW old \in RowRecord, NEW new \in RowRecord,
         old = NoRow \/ (new.state # "Absent" /\ SameRange(old, new)
                          /\ old.prior \subseteq new.prior)
  PROVE  Upsert(old, new) \in RowRecord /\ Agree(Upsert(old, new), new)
         /\ Upsert(old, new).prior = new.prior
         /\ (Upsert(old, new).state = "Absent" <=> new.state = "Absent")
         /\ (Upsert(old, new).state = "Absent" => Upsert(old, new) = new)
<1>1. CASE old = NoRow
  BY <1>1, AgreeEquivalence DEF Upsert
<1>2. CASE old # NoRow
  <2> DEFINE x == [old EXCEPT !.state = new.state, !.prior = @ \cup new.prior]
  <2>1. Upsert(old, new) = x
    BY <1>2 DEF Upsert
  <2>2. /\ x.state = new.state /\ x.start = old.start /\ x.count = old.count
        /\ x.replicaOf = old.replicaOf /\ x.prior = old.prior \cup new.prior
    BY DEF RowRecord
  <2>3. old.prior \cup new.prior = new.prior
    BY <1>2
  <2>4. x \in RowRecord
    BY DEF RowRecord
  <2> HIDE DEF x
  <2> QED
    BY <1>2, <2>1, <2>2, <2>3, <2>4 DEF Agree, SameRange
<1> QED
  BY <1>1, <1>2

\* The sweep is a requeue, and the flush at its end brings every row up to date.
LEMMA FlushStep ==
  ASSUME FInv, SweepAndFlush
  PROVE  /\ Step /\ Quiet /\ IInv'
         /\ BlankRows' /\ StoreOK' /\ rowUnit' = nextUnit'
         /\ \A t \in TaskIds : Agree(row'[t], Row(task'[t]))
         /\ dirtyTasks' = {} /\ dirtyJob' = FALSE
         /\ \A t \in TaskIds : VoteKept(t)
<1>1. PICK lost \in SUBSET Workers :
        LET S     == Expired \cup UNION {HeldBy(w) : w \in lost}
            dirty == dirtyTasks \cup S
        IN  /\ task' = [t \in TaskIds |->
                 IF t \in S THEN Vacated(task[t], "Release") ELSE task[t]]
            /\ \E order \in SetToSeqs(S) : queue' = queue \o order
            /\ row' = [t \in TaskIds |->
                 IF t \in dirty THEN Upsert(row[t], Row(task'[t])) ELSE row[t]]
            /\ rowUnit' = IF dirtyJob THEN nextUnit ELSE rowUnit
            /\ dirtyTasks' = {}
            /\ dirtyJob' = FALSE
            /\ UNCHANGED <<nextId, nextUnit, judgeVars>>
  BY DEF SweepAndFlush
<1> DEFINE S     == Expired \cup UNION {HeldBy(w) : w \in lost}
           dirty == dirtyTasks \cup S
<1>2. S \in SUBSET TaskIds /\ \A t \in S : task[t].state = "Leased"
  BY DEF Expired, HeldBy
<1> HIDE DEF S
<1>3. /\ task' = [t \in TaskIds |->
            IF t \in S THEN Vacated(task[t], "Release") ELSE task[t]]
      /\ \E order \in SetToSeqs(S) : queue' = queue \o order
      /\ row' = [t \in TaskIds |->
            IF t \in dirty THEN Upsert(row[t], Row(task'[t])) ELSE row[t]]
      /\ rowUnit' = IF dirtyJob THEN nextUnit ELSE rowUnit
      /\ dirtyTasks' = {}
      /\ dirtyJob' = FALSE
      /\ UNCHANGED <<nextId, nextUnit, judgeVars>>
  BY <1>1 DEF S
<1>4. Step /\ Quiet /\ IInv'
  <2>1. dirtyTasks' \subseteq TaskIds /\ dirtyJob' \in BOOLEAN
    BY <1>3
  <2>2. Step /\ Quiet
    BY <1>2, <1>3, <2>1, LeasesGoBack DEF FInv
  <2> QED
    BY <2>2 DEF Step
<1>5. NoVote /\ VoteStep
  <2>1. UNCHANGED judgeVars
    BY <1>3
  <2> QED
    BY <1>2, <1>3, <2>1, RequeueVote DEF FInv, VoteStep
<1>6. \A t \in TaskIds : VoteKept(t)
  <2>1. ASSUME NEW t \in S  PROVE  ~VoteFresh(t)
    BY <1>2, <2>1, AbsentRecord DEF VoteFresh
  <2>2. ASSUME NEW t \in TaskIds \ S  PROVE  VoteKept(t)
    BY <1>3, UntouchedVote DEF judgeVars
  <2> QED
    BY <1>5, <2>1, <2>2 DEF NoVote
<1>7. BlankRows' /\ \A t \in TaskIds : task[t].prior \subseteq task'[t].prior
  BY <1>4, <1>5, VotesStand DEF FInv
<1>8. ASSUME NEW t \in TaskIds
      PROVE  /\ row'[t] \in RowRecord /\ Agree(row'[t], Row(task'[t]))
             /\ row'[t].prior \subseteq task'[t].prior
             /\ row'[t].state = "Absent" => row'[t] = NoRow
  <2> DEFINE new == Row(task'[t])
  <2>1. /\ row[t] \in RowRecord /\ new \in RowRecord /\ new.state = task'[t].state
        /\ SameRange(new, task'[t]) /\ new.prior = task'[t].prior
        /\ task'[t].state = "Absent" => new = NoRow
    BY <1>4, <1>7, TaskFacts, RowFields DEF FInv, StoreOK, IInv, TypeOK, Lifecycle, BlankRows
  <2>2. /\ row[t].prior \subseteq task'[t].prior
        /\ row[t].state = "Absent" => row[t] = NoRow
    BY <1>7 DEF FInv, StoreOK
  <2>3. CASE t \in dirty
    <3>1. row'[t] = Upsert(row[t], new)
      BY <1>3, <2>3
    <3>2. CASE row[t] = NoRow
      BY <2>1, <2>2, <3>1, <3>2, UpsertAgrees
    <3>3. CASE row[t] # NoRow
      <4>1. t \in Stored
        BY <2>2, <3>3 DEF Stored
      <4>2. task[t].state # "Absent" /\ SameRange(row[t], task[t])
        BY <4>1 DEF FInv, FileFollowsMemory, FileBehindMemory, SameRange
      <4>3. task'[t].state # "Absent" /\ SameRange(row[t], new)
        BY <1>4, <2>1, <4>2, TasksStand DEF FInv, SameTask, SameRange
      <4> HIDE DEF new
      <4>4. /\ row'[t] \in RowRecord /\ Agree(row'[t], new)
            /\ row'[t].prior = new.prior
            /\ row'[t].state # "Absent"
        BY <2>1, <2>2, <3>1, <4>3, UpsertAgrees
      <4> QED
        BY <2>1, <4>4 DEF new
    <3> QED
      BY <3>2, <3>3
  <2>4. CASE t \notin dirty
    <3>1. t \notin S /\ t \notin dirtyTasks
      BY <2>4
    <3>2. row'[t] = row[t] /\ task'[t] = task[t]
      BY <1>3, <3>1
    <3>3. Recovered(row[t]) = Recovered(new)
      BY <3>1, <3>2 DEF FInv, FileFollowsMemory, UnflushedIsDirty
    <3> HIDE DEF new
    <3>4. Agree(row[t], new)
      BY <2>1, <3>3, RecoveredSame
    <3> QED
      BY <2>1, <2>2, <3>2, <3>4 DEF new
  <2> QED
    BY <2>3, <2>4
<1>9. rowUnit' = nextUnit' /\ rowUnit' \in 0 .. TotalUnits
  BY <1>3 DEF FInv, FileFollowsMemory, UnflushedIsDirty, IInv, TypeOK
<1>10. row' \in [TaskIds -> RowRecord]
  BY <1>3, <1>8
<1>11. StoreOK'
  BY <1>8, <1>9, <1>10 DEF StoreOK
<1> QED
  BY <1>3, <1>4, <1>6, <1>7, <1>8, <1>9, <1>11

\* LoadAll's next id is free and so is every id after it.
LEMMA NextFreeIdFacts ==
  /\ NextFreeId \in 1 .. (MaxTasks + 1)
  /\ \A t \in Stored : t < NextFreeId
<1>1. MaxTasks \in Nat /\ Stored \subseteq 1 .. MaxTasks
  BY JobManagerAssumption DEF Stored, TaskIds
<1> DEFINE P(n) == (\A t \in Stored : t < n) /\ (n = 1 \/ n - 1 \in Stored)
<1>2. \E n \in 1 .. (MaxTasks + 1) : P(n)
  <2>1. CASE Stored = {}
    <3>1. 1 \in 1 .. (MaxTasks + 1) /\ P(1)
      BY <1>1, <2>1
    <3> QED
      BY <3>1
  <2>2. CASE Stored # {}
    <3> DEFINE Gaps == {MaxTasks - t : t \in Stored}
    <3>1. Gaps \in SUBSET Nat /\ Gaps # {}
      <4>1. \A t \in Stored : MaxTasks - t \in Nat
        BY <1>1
      <4> QED
        BY <2>2, <4>1
    <3>2. PICK g \in Gaps : \A h \in Gaps : g <= h
      BY <3>1, LeastMember
    <3>3. PICK m \in Stored : g = MaxTasks - m
      BY <3>2
    <3>4. \A t \in Stored : g <= MaxTasks - t
      BY <3>2
    <3>5. \A t \in Stored : t < m + 1
      BY <1>1, <3>3, <3>4
    <3>6. m + 1 \in 1 .. (MaxTasks + 1) /\ (m + 1) - 1 = m
      BY <1>1, <3>3
    <3>7. P(m + 1)
      BY <3>3, <3>5, <3>6
    <3> QED
      BY <3>6, <3>7
  <2> QED
    BY <2>1, <2>2
<1>3. NextFreeId = CHOOSE n \in 1 .. (MaxTasks + 1) : P(n)
  BY DEF NextFreeId
<1> HIDE DEF P
<1>4. NextFreeId \in 1 .. (MaxTasks + 1) /\ P(NextFreeId)
  BY <1>2, <1>3
<1> QED
  BY <1>4 DEF P

\* What is read back from the file is a coordinator at rest.
LEMMA RestartStep ==
  ASSUME FInv, Restart
  PROVE  /\ IInv' /\ BlankRows' /\ StoreOK'
         /\ \A t \in TaskIds : task'[t] = Recovered(row[t])
         /\ \A t \in TaskIds : Agree(row'[t], Row(task'[t]))
         /\ row' = row /\ rowUnit' = rowUnit
         /\ rowUnit' # nextUnit' => dirtyJob'
<1>1. ASSUME NEW t \in TaskIds
      PROVE  /\ row[t] \in RowRecord /\ task'[t] = Recovered(row[t])
             /\ task'[t] \in TaskRecord /\ Settled(task'[t])
             /\ row[t].state = "Absent" => task'[t] = Absent /\ row[t] = NoRow
             /\ row[t].state # "Absent" =>
                  /\ task'[t].state = IF Pending(row[t]) THEN "Queued" ELSE row[t].state
                  /\ SameRange(task'[t], row[t]) /\ task'[t].prior = row[t].prior
  BY RecoveredFields DEF Restart, FInv, StoreOK
<1>2. /\ row' = row /\ rowUnit' = rowUnit
      /\ rowUnit' # nextUnit' => dirtyJob'
      /\ nextUnit' \in 0 .. TotalUnits
      /\ dirtyJob' \in BOOLEAN
  <2>1. TotalUnits \in Nat
    BY JobManagerAssumption
  <2>2. rowUnit \in 0 .. TotalUnits \/ rowUnit = NoJobRow
    BY DEF FInv, StoreOK
  <2>3. /\ row' = row /\ rowUnit' = rowUnit
        /\ nextUnit' = IF rowUnit = NoJobRow THEN 0 ELSE rowUnit
        /\ dirtyJob' = (rowUnit = NoJobRow)
    BY DEF Restart, storeVars
  <2>4. CASE rowUnit = NoJobRow
    <3>1. dirtyJob' = TRUE
      BY <2>3, <2>4, Zenon
    <3>2. nextUnit' = 0 /\ 0 \in 0 .. TotalUnits
      BY <2>1, <2>3, <2>4
    <3> QED
      BY <2>3, <3>1, <3>2
  <2>5. CASE rowUnit # NoJobRow
    BY <2>1, <2>2, <2>3, <2>5
  <2> QED
    BY <2>4, <2>5
<1>3. queue' \in Seq(TaskIds) /\ Enumerates(queue', Requeued)
  <2>1. Requeued \in SUBSET TaskIds
    BY DEF Requeued
  <2>2. IsFiniteSet(Requeued)
    <3>1. 1 \in Int /\ MaxTasks \in Int
      BY JobManagerAssumption
    <3>2. IsFiniteSet(TaskIds)
      BY <3>1, FS_Interval DEF TaskIds
    <3> QED
      BY <2>1, <3>2, FS_Subset
  <2>3. queue' \in SetToSeqs(Requeued)
    BY DEF Restart
  <2>4. queue' \in Seq(Requeued) /\ Enumerates(queue', Requeued)
    BY <2>2, <2>3, EnumeratesSetToSeqs
  <2> QED
    BY <2>1, <2>4
<1>4. TypeOK'
  <2>1. task' \in [TaskIds -> TaskRecord]
    BY <1>1 DEF Restart
  <2>2. nextId' \in 1 .. (MaxTasks + 1)
    BY NextFreeIdFacts DEF Restart
  <2> QED
    BY <1>2, <1>3, <2>1, <2>2 DEF TypeOK, Restart, NoVerdict
<1>5. Lifecycle'
  BY <1>1 DEF Lifecycle
<1>6. IdsInOrder'
  <2> SUFFICES ASSUME NEW t \in TaskIds, t >= NextFreeId  PROVE  task'[t] = Absent
    BY DEF IdsInOrder, Restart
  <2>1. t \notin Stored
    BY NextFreeIdFacts DEF TaskIds
  <2> QED
    BY <1>1, <2>1 DEF Stored
<1>7. Enumerates(queue', Waiting' \ Stray')
  <2>1. Requeued \subseteq Waiting'
    <3> SUFFICES ASSUME NEW t \in TaskIds, row[t].state \in {"Leased", "Validating"}
                 PROVE  task'[t].state = "Queued"
      BY DEF Requeued, Waiting
    <3> QED
      BY <1>1 DEF Pending, RowRecord
  <2>2. ToSet(queue') = Requeued
    BY <1>3 DEF Enumerates
  <2>3. Waiting' \ Stray' = Requeued
    BY <2>1, <2>2 DEF Stray
  <2> QED
    BY <1>3, <2>3
<1>8. BlankRows'
  BY <1>1 DEF BlankRows, NoRow, Pending
<1>9. StoreOK'
  BY <1>1, <1>2, NoRowFields DEF FInv, StoreOK
<1>10. ASSUME NEW t \in TaskIds  PROVE  Agree(row'[t], Row(task'[t]))
  <2>1. /\ Row(task'[t]).state = task'[t].state /\ SameRange(Row(task'[t]), task'[t])
        /\ Row(task'[t]).prior = task'[t].prior
    BY <1>1, RowFields
  <2>2. CASE row[t].state = "Absent"
    BY <1>1, <1>2, <2>1, <2>2, AbsentRecord DEF Agree
  <2>3. CASE row[t].state # "Absent"
    BY <1>1, <1>2, <2>1, <2>3 DEF Agree, SameRange, Pending, RowRecord
  <2> QED
    BY <2>2, <2>3
<1>11. IInv'
  BY <1>4, <1>5, <1>6, <1>7 DEF IInv
<1> QED
  BY <1>1, <1>2, <1>8, <1>9, <1>10, <1>11

\* A fresh file is a picture of a fresh manager.
LEMMA InitFInv ==
  ASSUME DurableInit  PROVE  FInv
<1>1. IInv
  BY InitIInv DEF DurableInit
<1>2. \A t \in TaskIds : task[t] = Absent /\ row[t] = NoRow
  BY DEF DurableInit, Init
<1>3. BlankRows
  BY <1>2 DEF BlankRows, NoRow
<1>4. StoreOK
  BY <1>2, NoRowFields, JobManagerAssumption DEF StoreOK, DurableInit
<1>5. \A t \in TaskIds : Agree(row[t], Row(task[t]))
  BY <1>2, AgreeEquivalence DEF NoRow
<1>6. rowUnit # nextUnit => dirtyJob
  BY DEF DurableInit, Init
<1> QED
  BY <1>1, <1>3, <1>4, <1>5, <1>6, AgreeingFileFollows DEF FInv

\* The file agrees with memory row by row, and with its cursor up to a mark.
Agrees == /\ IInv /\ StoreOK
          /\ \A t \in TaskIds : Agree(row[t], Row(task[t]))
          /\ rowUnit # nextUnit => dirtyJob

\* AgreeingFileFollows after a step.
LEMMA AgreesNext == Agrees' => FileFollowsMemory'
<1>1. Agrees => FileFollowsMemory
  BY AgreeingFileFollows DEF Agrees
<1> QED
  BY <1>1, PTL

\* Every step of the durable coordinator keeps the file behind memory.
LEMMA NextFInv ==
  ASSUME FInv, [DurableNext]_<<vars, storeVars>>  PROVE  FInv'
<1>1. CASE [Next]_vars /\ UNCHANGED storeVars
  BY <1>1, HandlerKeepsFInv
<1>2. CASE SweepAndFlush
  <2>1. /\ IInv' /\ BlankRows' /\ StoreOK' /\ rowUnit' = nextUnit'
        /\ \A t \in TaskIds : Agree(row'[t], Row(task'[t]))
    BY <1>2, FlushStep
  <2>2. FileFollowsMemory'
    BY <2>1, AgreesNext DEF Agrees
  <2> QED
    BY <2>1, <2>2 DEF FInv
<1>3. CASE Restart
  <2>1. /\ IInv' /\ BlankRows' /\ StoreOK'
        /\ \A t \in TaskIds : Agree(row'[t], Row(task'[t]))
        /\ rowUnit' # nextUnit' => dirtyJob'
    BY <1>3, RestartStep
  <2>2. FileFollowsMemory'
    BY <2>1, AgreesNext DEF Agrees
  <2> QED
    BY <2>1, <2>2 DEF FInv
<1> QED
  BY <1>1, <1>2, <1>3 DEF DurableNext

\* The invariant of the file, for the theorems below.
LEMMA FileInvariant == DurableSpec => []FInv
<1>1. DurableInit => FInv
  BY InitFInv
<1>2. FInv /\ [DurableNext]_<<vars, storeVars>> => FInv'
  BY NextFInv
<1> QED
  BY <1>1, <1>2, PTL DEF DurableSpec

\* Through failed flushes, restarts and reissued ids the file is behind memory,
\* never ahead of it, and every difference is marked for the next flush.
THEOREM FileCorrect == DurableSpec => []FileFollowsMemory
<1>1. FInv => FileFollowsMemory
  BY DEF FInv
<1> QED
  BY <1>1, FileInvariant, PTL

(***************************************************************************)
(* Part 4: the keyspace, in memory and in the file, without spot-checks.   *)
(* With them a recovered probe is listed in the job as if it were work.    *)
(***************************************************************************)

\* The ids in use in a table of tasks or rows.
Present(f) == {t \in TaskIds : f[t].state # "Absent"}

Span(r) == r.start .. (r.start + r.count - 1)

\* A replica repeats the range of an original of the table.
FamiliesIn(f) ==
  \A r \in Present(f) :
    f[r].replicaOf # Nil =>
      /\ f[r].replicaOf \in Present(f) /\ f[f[r].replicaOf].replicaOf = Nil
      /\ f[r].start = f[f[r].replicaOf].start /\ f[r].count = f[f[r].replicaOf].count

RangesIn(f, n) == \A t \in Present(f) : f[t].count >= 1 /\ f[t].start + f[t].count <= n

CoverIn(f, n) == \A u \in 0 .. (n - 1) : \E t \in Present(f) : u \in Span(f[t])

WinnersIn(f) ==
  \A t \in Present(f) :
    f[t].state = "Cancelled" =>
      \E w \in Present(f) : /\ f[w].state = "Accepted"
                            /\ f[w].start = f[t].start /\ f[w].count = f[t].count

ApartIn(f) ==
  \A s, t \in Present(f) :
    f[s].replicaOf = Nil /\ f[t].replicaOf = Nil /\ s # t =>
      \/ f[s].start + f[s].count <= f[t].start
      \/ f[t].start + f[t].count <= f[s].start

\* A table of tasks or of rows that accounts for the first n units.
Sound(f, n) ==
  FamiliesIn(f) /\ RangesIn(f, n) /\ CoverIn(f, n) /\ WinnersIn(f) /\ ApartIn(f)

\* Without spot-checks every task is listed in the job.
AllListed == \A t \in TaskIds : task[t].inJob <=> task[t].state # "Absent"

\* The cursor a restart would begin with.
Cursor == IF rowUnit = NoJobRow THEN 0 ELSE rowUnit

\* Memory is sound whatever is flushed, and the file by itself: a restart takes
\* the file for memory, and a flush takes memory for the file.
DInv == /\ FInv /\ known = {} /\ AllListed
        /\ Sound(task, nextUnit) /\ Sound(row, Cursor)

\* What makes two tables the same to Sound.
Mirror(f, g) ==
  \A t \in TaskIds :
    /\ f[t].state = "Absent" <=> g[t].state = "Absent"
    /\ f[t].state = "Accepted" <=> g[t].state = "Accepted"
    /\ f[t].state = "Cancelled" <=> g[t].state = "Cancelled"
    /\ f[t].state # "Absent" => SameRange(f[t], g[t])

\* A mirror of a sound table is sound.
LEMMA MirrorIsSound ==
  ASSUME NEW f, NEW g, NEW n, Mirror(f, g), Sound(f, n)
  PROVE  Sound(g, n)
<1>1. Present(g) = Present(f)
  BY DEF Present, Mirror
<1>2. ASSUME NEW t \in Present(f)
      PROVE  /\ g[t].start = f[t].start /\ g[t].count = f[t].count
             /\ g[t].replicaOf = f[t].replicaOf
             /\ f[t].state = "Accepted" <=> g[t].state = "Accepted"
             /\ f[t].state = "Cancelled" <=> g[t].state = "Cancelled"
  BY DEF Present, Mirror, SameRange
<1>3. FamiliesIn(g)
  BY <1>1, <1>2 DEF Sound, FamiliesIn
<1>4. RangesIn(g, n)
  BY <1>1, <1>2 DEF Sound, RangesIn
<1>5. CoverIn(g, n)
  BY <1>1, <1>2 DEF Sound, CoverIn, Span
<1>6. WinnersIn(g)
  BY <1>1, <1>2 DEF Sound, WinnersIn
<1>7. ApartIn(g)
  BY <1>1, <1>2 DEF Sound, ApartIn
<1> QED
  BY <1>3, <1>4, <1>5, <1>6, <1>7 DEF Sound

\* Mirrors look both ways.
LEMMA MirrorSymmetric ==
  ASSUME NEW f, NEW g, Mirror(f, g)  PROVE  Mirror(g, f)
BY DEF Mirror, SameRange

\* A row that agrees with a task is its mirror.
LEMMA AgreeMirrors ==
  ASSUME NEW f, NEW g, \A t \in TaskIds : g[t] \in TaskRecord /\ Settled(g[t]),
         \A t \in TaskIds : Agree(f[t], Row(g[t]))
  PROVE  Mirror(f, g)
<1> SUFFICES ASSUME NEW t \in TaskIds
             PROVE  /\ f[t].state = "Absent" <=> g[t].state = "Absent"
                    /\ f[t].state = "Accepted" <=> g[t].state = "Accepted"
                    /\ f[t].state = "Cancelled" <=> g[t].state = "Cancelled"
                    /\ f[t].state # "Absent" => SameRange(f[t], g[t])
  BY DEF Mirror
<1>1. Row(g[t]).state = g[t].state /\ SameRange(Row(g[t]), g[t]) /\ Agree(f[t], Row(g[t]))
  BY RowFields
<1> QED
  BY <1>1 DEF Agree, Pending, SameRange

\* The invariants of the job manager's proofs say of memory that it is sound.
LEMMA MemoryIsSound ==
  ASSUME IInv, KInv, Disjoint, AllListed  PROVE  Sound(task, nextUnit)
<1>1. Present(task) = Listed
  BY DEF Present, Listed, AllListed
<1>2. \A t \in Present(task) : t \in TaskIds /\ task[t].inJob /\ task[t] \in TaskRecord
  BY TaskFacts DEF Present, AllListed
<1>3. FamiliesIn(task)
  <2> SUFFICES ASSUME NEW r \in Present(task), task[r].replicaOf # Nil
               PROVE  /\ task[r].replicaOf \in Present(task)
                      /\ task[task[r].replicaOf].replicaOf = Nil
                      /\ task[r].start = task[task[r].replicaOf].start
                      /\ task[r].count = task[task[r].replicaOf].count
    BY DEF FamiliesIn
  <2>1. task[r].replicaOf \in TaskIds
    BY <1>2, TaskRecordFields
  <2> QED
    BY <1>1, <1>2, <2>1 DEF KInv, FamilyRange, Listed
<1>4. RangesIn(task, nextUnit)
  BY DEF RangesIn, Present, KInv, InKeyspace
<1>5. CoverIn(task, nextUnit)
  BY <1>1 DEF CoverIn, Span, KInv, Covered, Units
<1>6. WinnersIn(task)
  BY <1>1, <1>2 DEF WinnersIn, KInv, CancelledWon
<1>7. ApartIn(task)
  BY <1>2 DEF ApartIn, Disjoint, Original
<1> QED
  BY <1>3, <1>4, <1>5, <1>6, <1>7 DEF Sound

\* And the other way round.
LEMMA SoundIsMemory ==
  ASSUME IInv, BlankRows, AllListed, known = {}, Sound(task, nextUnit)
  PROVE  KInv /\ Disjoint /\ BlankIsEmpty
<1>1. Present(task) = Listed
  BY DEF Present, Listed, AllListed
<1>2. ASSUME NEW t \in TaskIds, task[t].state = "Absent"
      PROVE  task[t].count = 0 /\ task[t].replicaOf = Nil /\ ~task[t].inJob
  <2>1. Row(task[t]).count = NoRow.count /\ Row(task[t]).replicaOf = NoRow.replicaOf
    BY <1>2 DEF BlankRows
  <2>2. NoRow.count = 0 /\ NoRow.replicaOf = Nil
    BY DEF NoRow, Row, Absent
  <2> QED
    BY <1>2, <2>1, <2>2 DEF Row, AllListed
<1>3. BlankIsEmpty
  BY <1>2 DEF BlankIsEmpty
<1>4. FamilyRange
  BY <1>1, <1>2 DEF Sound, FamiliesIn, FamilyRange, Present, Listed
<1>5. InKeyspace
  BY DEF Sound, RangesIn, InKeyspace, Present
<1>6. Covered
  BY <1>1 DEF Sound, CoverIn, Span, Covered, Units
<1>7. CancelledWon
  BY <1>1 DEF Sound, WinnersIn, CancelledWon, Present
<1>8. Disjoint
  BY <1>1 DEF Sound, ApartIn, Disjoint, Original, Listed
<1> QED
  BY <1>3, <1>4, <1>5, <1>6, <1>7, <1>8 DEF KInv

\* MemoryIsSound after a step.
LEMMA MemoryIsSoundNext ==
  IInv' /\ KInv' /\ Disjoint' /\ AllListed' => Sound(task, nextUnit)'
<1>1. IInv /\ KInv /\ Disjoint /\ AllListed => Sound(task, nextUnit)
  BY MemoryIsSound
<1> QED
  BY <1>1, PTL

\* The pool stays empty.
LEMMA NothingLearnt ==
  ASSUME SpotChecks = FALSE, known = {}, [Next]_vars  PROVE  known' = {}
<1>1. \A r, a, agreeing : Remember(r, a, agreeing) = known
  BY DEF Remember
<1>2. ASSUME NEW w \in Workers, NEW t \in TaskIds, NEW a \in AnswersOf(w),
             AcceptResult(w, t, a)
      PROVE  known' = known
  BY <1>1, <1>2 DEF AcceptResult
<1> QED
  BY <1>2
  DEF Next, OnLeaseRequest, GrantQueued, CarveFresh, IssueSpeculative, SpotCheckQueued,
      SpotCheckFresh, Depart, Renew, OnRelease, ChecksumMismatch, Requeue, OnResultHeader,
      RequestReplica, RestartValidation, SweepExpiredLeases, Tick, judgeVars, vars

\* A step of the queue keeps memory sound.
LEMMA StepKeepsSound ==
  ASSUME FInv, known = {}, AllListed, Sound(task, nextUnit), Step
  PROVE  AllListed' /\ Sound(task', nextUnit')
<1>1. KInv /\ Disjoint /\ BlankIsEmpty /\ IInv /\ IInv'
  BY SoundIsMemory DEF FInv, Step
<1>2. KInv'
  BY <1>1, QuietKeepsKInv, CarvingKeepsKInv, AcceptingKeepsKInv DEF Step
<1>3. Disjoint'
  BY <1>1, StepKeepsDisjoint
<1>4. AllListed'
  <2> SUFFICES ASSUME NEW t \in TaskIds
               PROVE  task'[t].inJob <=> task'[t].state # "Absent"
    BY DEF AllListed
  <2>1. ~Probed(t)
    BY DEF Probed
  <2>2. CASE SameTask(task'[t], task[t])
             /\ (task'[t].state = "Absent" <=> task[t].state = "Absent")
    BY <2>2 DEF AllListed, SameTask
  <2>3. CASE Raced(t)
    BY <2>3 DEF Raced
  <2>4. CASE Carved(t)
    BY <2>4 DEF Carved
  <2> QED
    BY <2>1, <2>2, <2>3, <2>4, KindsOfTask
<1> QED
  BY <1>1, <1>2, <1>3, <1>4, MemoryIsSoundNext

\* Nothing is stored and nothing carved.
LEMMA InitDInv ==
  ASSUME DurableInit  PROVE  DInv
<1>1. FInv
  BY InitFInv
<1>2. \A t \in TaskIds : task[t] = Absent /\ row[t] = NoRow
  BY DEF DurableInit, Init
<1>3. Present(task) = {} /\ Present(row) = {}
  BY <1>2, AbsentRecord, NoRowFields DEF Present
<1>4. AllListed
  BY <1>2, AbsentRecord DEF AllListed
<1>5. ~(\E u : u \in 0 .. (0 - 1))
  OBVIOUS
<1>6. Cursor = 0 /\ nextUnit = 0 /\ known = {}
  BY DEF DurableInit, Init, Cursor
<1>7. ASSUME NEW f, Present(f) = {}  PROVE  Sound(f, 0)
  BY <1>5, <1>7 DEF Sound, FamiliesIn, RangesIn, CoverIn, WinnersIn, ApartIn
<1> QED
  BY <1>1, <1>3, <1>4, <1>6, <1>7 DEF DInv

\* Every step, flush and restart keeps memory and file sound.
LEMMA NextDInv ==
  ASSUME SpotChecks = FALSE, DInv, [DurableNext]_<<vars, storeVars>>  PROVE  DInv'
<1>1. FInv'
  BY NextFInv DEF DInv
<1>2. CASE [Next]_vars /\ UNCHANGED storeVars
  <2>1. Step
    BY <1>2, NextStep DEF DInv, FInv
  <2>2. AllListed' /\ Sound(task', nextUnit')
    BY <2>1, StepKeepsSound DEF DInv
  <2>3. known' = {}
    BY <1>2, NothingLearnt DEF DInv
  <2>4. row' = row /\ Cursor' = Cursor
    BY <1>2 DEF storeVars, Cursor
  <2> QED
    BY <1>1, <2>2, <2>3, <2>4 DEF DInv
<1>3. CASE SweepAndFlush
  <2>1. /\ Step /\ Quiet /\ rowUnit' = nextUnit'
        /\ \A t \in TaskIds : Agree(row'[t], Row(task'[t]))
    BY <1>3, FlushStep DEF DInv
  <2>2. AllListed' /\ Sound(task', nextUnit')
    BY <2>1, StepKeepsSound DEF DInv
  <2>3. known' = {}
    BY <2>1 DEF Quiet, DInv
  <2>4. Mirror(row', task')
    BY <1>1, <2>1, AgreeMirrors DEF FInv, IInv, TypeOK, Lifecycle
  <2>5. Sound(row', nextUnit')
    BY <2>2, <2>4, MirrorSymmetric, MirrorIsSound
  <2>6. Cursor' = nextUnit'
    BY <1>1, <2>1 DEF Cursor, NoJobRow, FInv, IInv, TypeOK
  <2> QED
    BY <1>1, <2>2, <2>3, <2>5, <2>6 DEF DInv
<1>4. CASE Restart
  <2>1. /\ row' = row /\ Cursor' = Cursor /\ nextUnit' = Cursor /\ known' = {}
        /\ \A t \in TaskIds : task'[t] = Recovered(row[t])
        /\ \A t \in TaskIds : Agree(row'[t], Row(task'[t]))
    BY <1>4, RestartStep DEF DInv, Restart, Cursor
  <2>2. AllListed'
    <3>1. \A t \in TaskIds : row[t] \in RowRecord
      BY DEF DInv, FInv, StoreOK
    <3> QED
      BY ZenonT(60), <2>1, <3>1, RecoveredFields, AbsentRecord DEF AllListed, RowRecord, Pending
  <2>3. Mirror(row', task')
    BY <1>1, <2>1, AgreeMirrors DEF FInv, IInv, TypeOK, Lifecycle
  <2>4. Sound(task', nextUnit')
    BY <2>1, <2>3, MirrorIsSound DEF DInv
  <2> QED
    BY <1>1, <2>1, <2>2, <2>4 DEF DInv
<1> QED
  BY <1>2, <1>3, <1>4 DEF DurableNext

\* The invariant in every reachable state.
LEMMA DurableInvariant ==
  ASSUME SpotChecks = FALSE  PROVE  DurableSpec => []DInv
<1>1. DurableInit => DInv
  BY InitDInv
<1>2. DInv /\ [DurableNext]_<<vars, storeVars>> => DInv'
  BY NextDInv
<1> QED
  BY <1>1, <1>2, PTL DEF DurableSpec

\* In a sound table a unit below n lies in exactly one original, any other in none.
LEMMA SoundTiles ==
  ASSUME NEW f, NEW n \in Nat, NEW u \in Nat, Sound(f, n),
         \A t \in TaskIds : f[t].start \in Nat /\ f[t].count \in Nat
  PROVE  Cardinality({t \in Present(f) : f[t].replicaOf = Nil /\ u \in Span(f[t])})
           = IF u < n THEN 1 ELSE 0
<1> DEFINE O == {t \in Present(f) : f[t].replicaOf = Nil /\ u \in Span(f[t])}
<1>1. \A t \in Present(f) : t \in TaskIds /\ f[t].start \in Nat /\ f[t].count \in Nat
  BY DEF Present
<1>2. \A t \in Present(f) : u \in Span(f[t]) <=> f[t].start <= u /\ u < f[t].start + f[t].count
  BY <1>1 DEF Span
<1>3. CASE u < n
  <2>1. PICK t \in Present(f) : u \in Span(f[t])
    <3>1. u \in 0 .. (n - 1)
      BY <1>3
    <3> QED
      BY <3>1 DEF Sound, CoverIn
  <2>2. PICK o \in Present(f) : f[o].replicaOf = Nil /\ u \in Span(f[o])
    <3>1. CASE f[t].replicaOf = Nil
      BY <2>1, <3>1
    <3>2. CASE f[t].replicaOf # Nil
      <4>1. /\ f[t].replicaOf \in Present(f) /\ f[f[t].replicaOf].replicaOf = Nil
            /\ f[t].start = f[f[t].replicaOf].start
            /\ f[t].count = f[f[t].replicaOf].count
        BY <2>1, <3>2 DEF Sound, FamiliesIn
      <4> QED
        BY <2>1, <4>1 DEF Span
    <3> QED
      BY <3>1, <3>2
  <2>3. ASSUME NEW s \in O  PROVE  s = o
    <3>1. s \in Present(f) /\ f[s].replicaOf = Nil /\ u \in Span(f[s])
      OBVIOUS
    <3>2. s # o => \/ f[s].start + f[s].count <= f[o].start
                   \/ f[o].start + f[o].count <= f[s].start
      BY <2>2, <3>1 DEF Sound, ApartIn
    <3> QED
      BY <1>1, <1>2, <2>2, <3>1, <3>2
  <2>4. O = {o}
    BY <2>2, <2>3
  <2> HIDE DEF O
  <2>5. Cardinality(O) = 1
    BY <2>4, FS_Singleton
  <2> QED
    BY <1>3, <2>5 DEF O
<1>4. CASE ~(u < n)
  <2>1. ASSUME NEW s \in O  PROVE  FALSE
    <3>1. s \in Present(f) /\ u \in Span(f[s])
      OBVIOUS
    <3>2. f[s].start + f[s].count <= n
      BY <3>1 DEF Sound, RangesIn
    <3> QED
      BY <1>1, <1>2, <1>4, <3>1, <3>2
  <2>2. O = {}
    BY <2>1
  <2> HIDE DEF O
  <2>3. Cardinality(O) = 0
    BY <2>2, FS_EmptySet
  <2> QED
    BY <1>4, <2>3 DEF O
<1> QED
  BY <1>3, <1>4

\* In any one state: a sound file can be restarted from.
LEMMA SoundFile ==
  ASSUME StoreOK, Sound(row, Cursor)  PROVE  FileIsConsistent
<1>1. Stored = Present(row)
  BY DEF Stored, Present
<1>2. Cursor \in Nat /\ rowUnit \in Int /\ \A u \in Nat : u < rowUnit <=> u < Cursor
  BY JobManagerAssumption DEF StoreOK, Cursor, NoJobRow
<1>3. \A t \in TaskIds : row[t].start \in Nat /\ row[t].count \in Nat
  BY DEF StoreOK, RowRecord
<1>4. ASSUME NEW u \in 0 .. (TotalUnits - 1)
      PROVE  Cardinality({t \in Stored : /\ row[t].replicaOf = Nil
                                         /\ u \in row[t].start .. (row[t].start + row[t].count - 1)})
               = IF u < rowUnit THEN 1 ELSE 0
  <2>1. u \in Nat
    BY JobManagerAssumption
  <2>2. Cardinality({t \in Present(row) : row[t].replicaOf = Nil /\ u \in Span(row[t])})
          = IF u < Cursor THEN 1 ELSE 0
    BY <1>2, <1>3, <2>1, SoundTiles
  <2> QED
    BY <1>1, <1>2, <2>1, <2>2 DEF Span
<1>5. FileCancelledHasWinner
  BY <1>1 DEF FileCancelledHasWinner, Sound, WinnersIn
<1> QED
  BY <1>4, <1>5 DEF FileIsConsistent, FileTilesKeyspace

\* At whatever instant the process dies, the file it leaves behind neither skips
\* nor repeats a unit, and calls none done that nobody answered.
THEOREM FileConsistent ==
  ASSUME SpotChecks = FALSE  PROVE  DurableSpec => []FileIsConsistent
<1>1. DInv => FileIsConsistent
  BY SoundFile DEF DInv, FInv
<1> QED
  BY <1>1, DurableInvariant, PTL

\* A coordinator restarted any number of times still completes only a job whose
\* every unit has an accepted answer.
THEOREM CompletionSurvivesRestart ==
  ASSUME SpotChecks = FALSE  PROVE  DurableSpec => []CompleteMeansComputed
<1>1. DInv => CompleteMeansComputed
  BY SoundIsMemory, CompleteIsComputed DEF DInv, FInv
<1> QED
  BY <1>1, DurableInvariant, PTL

\* Restarts leave no task wedged and none with a holder it does not have.
THEOREM LifecycleSurvivesRestart == DurableSpec => []LifecycleAtRest
<1>1. FInv => LifecycleAtRest
  BY DEF FInv, IInv, Lifecycle, Settled, LifecycleAtRest, NoWedge, HolderIffLeased
<1> QED
  BY <1>1, FileInvariant, PTL

\* The exclusions come back from the file and the answers do not, so a restart
\* gives no worker a second vote on the answers a task is judged on.
THEOREM OneVoteSurvivesRestart == DurableSpec => []NoSelfAgreement
<1>1. DurableInit => Ballots
  <2>1. Absent.subs = <<>> /\ Absent.holder = NoWorker /\ Absent.prior = {}
    BY DEF Absent
  <2> QED
    BY <2>1 DEF DurableInit, Init, Ballots, Ballot
<1>2. FInv /\ FInv' /\ Ballots /\ [DurableNext]_<<vars, storeVars>> => Ballots'
  <2> SUFFICES ASSUME FInv, FInv', Ballots, [DurableNext]_<<vars, storeVars>>
               PROVE  Ballots'
    OBVIOUS
  <2>1. CASE [Next]_vars
    BY <2>1, NextVote, VoteKeepsBallots DEF FInv
  <2>2. CASE SweepAndFlush
    <3>1. \A t \in TaskIds : VoteKept(t)
      BY <2>2, FlushStep
    <3> QED
      BY <3>1 DEF VoteKept, Ballots, Ballot
  <2>3. CASE Restart
    <3> SUFFICES ASSUME NEW t \in TaskIds  PROVE  Ballot(task'[t])
      BY DEF Ballots
    <3>1. task'[t].subs = <<>> /\ task'[t].holder = NoWorker
      BY <2>3, RecoveredFields DEF Restart, FInv, StoreOK
    <3>2. task'[t].prior \subseteq Workers
      BY TaskRecordFields DEF FInv, IInv, TypeOK
    <3> QED
      BY <3>1, <3>2, JobManagerAssumption DEF Ballot
  <2> QED
    BY <2>1, <2>2, <2>3 DEF DurableNext
<1>3. Ballots => NoSelfAgreement
  BY DEF Ballots, Ballot, NoSelfAgreement
<1> QED
  BY <1>1, <1>2, <1>3, FileInvariant, PTL DEF DurableSpec
=============================================================================
