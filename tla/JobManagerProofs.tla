-------------------------- MODULE JobManagerProofs --------------------------
(***************************************************************************)
(* Theorems about JobManager, for every value of its constants.            *)
(*                                                                         *)
(* 1. What the operations on one task record give back.                    *)
(* 2. The inductive invariant of tasks and queue, action by action; each   *)
(*    action is also classified as one of three kinds of step.             *)
(* 3. The invariants of the keyspace, from the kinds of step alone: every  *)
(*    unit is covered, and by one range.                                   *)
(* 4. The theorems.                                                        *)
(***************************************************************************)
EXTENDS JobManager, DataLemmas

(***************************************************************************)
(* Part 1: one record.                                                     *)
(***************************************************************************)

\* What never changes of a task once it exists.
SameTask(r, s) == /\ r.start = s.start /\ r.count = s.count
                  /\ r.replicaOf = s.replicaOf /\ r.inJob = s.inJob

\* A record between two handlers: not wedged, held exactly while leased.
Settled(r) ==
  /\ r.state \in {"Absent", "Queued", "Leased", "Accepted", "Cancelled"}
  /\ r.holder # NoWorker <=> r.state = "Leased"

\* The entries of the transition table the handlers rely on.
LEMMA AdvanceValues ==
  /\ Advance("Queued", "Grant") = "Leased"
  /\ Advance("Leased", "Renew") = "Leased"
  /\ Advance("Leased", "Submit") = "Validating"
  /\ Advance("Leased", "LeaseExpired") = "Queued"
  /\ Advance("Leased", "Release") = "Queued"
  /\ Advance("Leased", "Cancel") = "Cancelled"
  /\ Advance("Validating", "Accept") = "Accepted"
  /\ Advance("Validating", "Disagreement") = "NeedsReplica"
  /\ Advance("NeedsReplica", "IssueReplica") = "Queued"
BY DEF Advance

\* A grant is legal for a queued task only.
LEMMA LegalGrant ==
  ASSUME NEW s, Legal(s, "Grant")  PROVE  s = "Queued"
BY DEF Legal, Advance

\* A task between two handlers can be cancelled only while it is leased.
LEMMA LegalCancel ==
  ASSUME NEW s \in {"Absent", "Queued", "Leased", "Accepted", "Cancelled"},
         Legal(s, "Cancel")
  PROVE  s = "Leased"
BY DEF Legal, Advance, Illegal

\* The fields of a typed task record, and their types.
LEMMA TaskRecordFields ==
  ASSUME NEW r \in TaskRecord
  PROVE  /\ r.start \in Nat /\ r.count \in Nat
         /\ r.holder \in Workers \cup {NoWorker}
         /\ r.lease \in 0 .. LeaseTicks
         /\ r.replicaOf \in TaskIds \cup {Nil}
         /\ r.inJob \in BOOLEAN
         /\ r.prior \in SUBSET Workers
         /\ r.subs \in Seq([worker : Workers, answer : Answers])
BY DEF TaskRecord

\* The placeholder for an id not handed out yet is a typed record.
LEMMA AbsentRecord ==
  /\ Absent \in TaskRecord
  /\ Settled(Absent)
  /\ Absent.state = "Absent"
  /\ Absent.inJob = FALSE
  /\ Absent.replicaOf = Nil
BY JobManagerAssumption DEF Absent, TaskRecord, Settled

\* A task that is leased to a worker (grant_lease on a queued task).
LEMMA GrantedRecord ==
  ASSUME NEW r \in TaskRecord, r.state = "Queued", NEW w \in Workers
  PROVE  /\ Granted(r, w) \in TaskRecord
         /\ Settled(Granted(r, w))
         /\ Granted(r, w).state = "Leased"
         /\ SameTask(Granted(r, w), r)
<1>1. LeaseTicks \in 0 .. LeaseTicks /\ w # NoWorker
  BY JobManagerAssumption
<1> QED
  BY <1>1, AdvanceValues DEF Granted, TaskRecord, Settled, SameTask, TaskStates

\* A task that goes back to the queue.
LEMMA VacatedRecord ==
  ASSUME NEW r \in TaskRecord, r.state = "Leased", NEW ev \in {"Release", "LeaseExpired"}
  PROVE  /\ Vacated(r, ev) \in TaskRecord
         /\ Settled(Vacated(r, ev))
         /\ Vacated(r, ev).state = "Queued"
         /\ SameTask(Vacated(r, ev), r)
<1>1. 0 \in 0 .. LeaseTicks
  BY JobManagerAssumption
<1> QED
  BY <1>1, AdvanceValues DEF Vacated, TaskRecord, Settled, SameTask, TaskStates

\* A task that lost the race to its sibling.
LEMMA CancelledRecord ==
  ASSUME NEW r \in TaskRecord, r.state = "Leased"
  PROVE  /\ Vacated(r, "Cancel") \in TaskRecord
         /\ Settled(Vacated(r, "Cancel"))
         /\ Vacated(r, "Cancel").state = "Cancelled"
         /\ SameTask(Vacated(r, "Cancel"), r)
<1>1. 0 \in 0 .. LeaseTicks
  BY JobManagerAssumption
<1> QED
  BY <1>1, AdvanceValues DEF Vacated, TaskRecord, Settled, SameTask, TaskStates

\* A task whose lease was renewed: its state and its range are kept.
LEMMA RenewedRecord ==
  ASSUME NEW r \in TaskRecord, Settled(r), r.state = "Leased"
  PROVE  LET s == [r EXCEPT !.state = Advance(@, "Renew"), !.lease = LeaseTicks]
         IN  s \in TaskRecord /\ Settled(s) /\ s.state = "Leased" /\ SameTask(s, r)
<1>1. LeaseTicks \in 0 .. LeaseTicks
  BY JobManagerAssumption
<1> QED
  BY <1>1, AdvanceValues DEF TaskRecord, Settled, SameTask

\* A task one tick of the clock later.
LEMMA TickedRecord ==
  ASSUME NEW r \in TaskRecord, Settled(r)
  PROVE  LET s == [r EXCEPT !.lease = IF @ > 0 THEN @ - 1 ELSE 0]
         IN  s \in TaskRecord /\ Settled(s) /\ s.state = r.state /\ SameTask(s, r)
<1>1. (IF r.lease > 0 THEN r.lease - 1 ELSE 0) \in 0 .. LeaseTicks
  BY TaskRecordFields, JobManagerAssumption
<1> QED
  BY <1>1 DEF TaskRecord, Settled, SameTask

\* A task whose answer was just recorded: Validating, with no holder.
LEMMA SubmittedRecord ==
  ASSUME NEW w \in Workers, NEW t \in TaskIds, NEW a \in Answers,
         task[t] \in TaskRecord, task[t].state = "Leased"
  PROVE  LET r == Submitted(w, t, a)
         IN  /\ r \in TaskRecord
             /\ r.state = "Validating" /\ r.holder = NoWorker
             /\ SameTask(r, task[t])
<1>1. 0 \in 0 .. LeaseTicks
  BY JobManagerAssumption
<1>2. Append(task[t].subs, [worker |-> w, answer |-> a])
        \in Seq([worker : Workers, answer : Answers])
  <2>1. task[t].subs \in Seq([worker : Workers, answer : Answers])
    BY TaskRecordFields
  <2>2. [worker |-> w, answer |-> a] \in [worker : Workers, answer : Answers]
    OBVIOUS
  <2> QED
    BY <2>1, <2>2, AppendProperties
<1> QED
  BY <1>1, <1>2, AdvanceValues
  DEF Submitted, Vacated, TaskRecord, SameTask, TaskStates

\* A task whose votes do not agree goes back to the queue for one more replica.
LEMMA ReopenedRecord ==
  ASSUME NEW r \in TaskRecord, r.state = "Validating", r.holder = NoWorker
  PROVE  /\ Reopened(r) \in TaskRecord
         /\ Settled(Reopened(r))
         /\ Reopened(r).state = "Queued"
         /\ SameTask(Reopened(r), r)
BY AdvanceValues DEF Reopened, TaskRecord, Settled, SameTask, TaskStates

(***************************************************************************)
(* Part 2: the inductive invariant of the tasks and the queue.             *)
(***************************************************************************)

Lifecycle  == \A t \in TaskIds : Settled(task[t])
IdsInOrder == \A t \in TaskIds : t >= nextId => task[t] = Absent
Waiting    == {t \in TaskIds : task[t].state = "Queued"}

\* Queued tasks that no queue entry names.  There are none unless a restart
\* recovers one, and no step makes or rescues one.
Stray == Waiting \ ToSet(queue)

\* The queue invariant is not inductive by itself: that the id pushed is not in
\* the queue yet follows from the state of its task, that a new id is new from
\* the order in which ids are handed out, and that every requeue starts from a
\* lease from the lifecycle.  Strays are set apart so that the invariant also
\* holds of a coordinator that was restarted.
IInv == TypeOK /\ Lifecycle /\ IdsInOrder /\ Enumerates(queue, Waiting \ Stray)

(* The kinds of step.  A task is kept by a step that changes neither what it *)
(* is nor its outcome; new tasks are probes, replicas or fresh ranges.       *)

Kept(u) == /\ SameTask(task'[u], task[u])
           /\ task[u].state = "Absent" <=> task'[u].state = "Absent"
           /\ task[u].state = "Accepted" <=> task'[u].state = "Accepted"
           /\ task[u].state = "Cancelled" <=> task'[u].state = "Cancelled"

Probed(u) == /\ task[u] = Absent
             /\ task'[u].state = "Leased"
             /\ task'[u].replicaOf = Nil /\ task'[u].inJob = FALSE
             /\ \E k \in known : task'[u].start = k.start /\ task'[u].count = k.count

Raced(u) == /\ u = nextId /\ task[u] = Absent
            /\ task'[u].state = "Leased" /\ task'[u].inJob = TRUE
            /\ \E t \in Listed : /\ task[t].state = "Leased" /\ task[t].replicaOf = Nil
                               /\ task'[u].replicaOf = t
                               /\ task'[u].start = task[t].start
                               /\ task'[u].count = task[t].count
                               /\ \A r \in Listed : task[r].replicaOf = t => ~Live(r)

Carved(u) == /\ task[u] = Absent
             /\ task'[u].state \in {"Leased", "Queued"} /\ task'[u].inJob = TRUE
             /\ task'[u].replicaOf = Nil
             /\ task'[u].start = nextUnit
             /\ task'[u].count \in 1 .. (TotalUnits - nextUnit)
             /\ GroupSize # 0 => task'[u].count <= GroupSize - (nextUnit % GroupSize)
             /\ nextUnit' = nextUnit + task'[u].count

Beaten(u, t) == /\ u \in CancelledBy(t)
                /\ task[u].state = "Leased" /\ task'[u].state = "Cancelled"
                /\ SameTask(task'[u], task[u])

Quiet == /\ nextUnit' = nextUnit /\ known' = known
         /\ \A u \in TaskIds : Kept(u) \/ Probed(u) \/ Raced(u)

Carving == /\ known' = known
           /\ \E c \in TaskIds : /\ Carved(c)
                               /\ \A u \in TaskIds \ {c} : Kept(u) \/ Probed(u)

Accepting ==
  /\ nextUnit' = nextUnit
  /\ \E t \in TaskIds :
       /\ task[t].state = "Leased" /\ task'[t].state = "Accepted"
       /\ SameTask(task'[t], task[t])
       /\ \A u \in TaskIds \ {t} : Kept(u) \/ Beaten(u, t)
       /\ \A k \in known' :
            \/ k \in known
            \/ k.start = task[t].start /\ k.count = task[t].count

Step == IInv' /\ Stray' = Stray /\ (Quiet \/ Carving \/ Accepting)

\* What a typed state gives about one task.
LEMMA TaskFacts ==
  ASSUME IInv, NEW t \in TaskIds
  PROVE  /\ task[t] \in TaskRecord
         /\ Settled(task[t])
         /\ task[t].state # "Absent" => t < nextId
         /\ t >= nextId => task[t] = Absent
<1>1. t \in Int /\ nextId \in Int
  BY DEF IInv, TypeOK, TaskIds
<1> QED
  BY <1>1, AbsentRecord DEF IInv, TypeOK, Lifecycle, IdsInOrder

\* A queue entry is the id of a queued task.
LEMMA EntryIsWaiting ==
  ASSUME IInv, NEW i \in DOMAIN queue
  PROVE  queue[i] \in TaskIds /\ task[queue[i]].state = "Queued"
BY DEF IInv, Enumerates, ToSet, Waiting, Stray

\* A queue that follows the tasks which are not astray leaves the strays alone.
LEMMA QueueFollows ==
  ASSUME Stray \subseteq Waiting', Enumerates(queue', Waiting' \ Stray)
  PROVE  Stray' = Stray /\ Enumerates(queue', Waiting' \ Stray')
<1>1. ToSet(queue') = Waiting' \ Stray
  BY DEF Enumerates
<1>2. Stray' = Waiting' \ ToSet(queue')
  BY DEF Stray
<1>3. Stray' = Stray
  BY <1>1, <1>2
<1> QED
  BY <1>3

\* Nothing joins or leaves the queue.
LEMMA QueueUntouched ==
  ASSUME IInv, Waiting' = Waiting, queue' = queue
  PROVE  Stray' = Stray /\ Enumerates(queue', Waiting' \ Stray')
BY DEF IInv, Stray

\* Every other task is kept when it is left as it was.
LEMMA UntouchedIsKept ==
  ASSUME NEW u, task'[u] = task[u]  PROVE  Kept(u)
BY DEF Kept, SameTask

\* Ids handed out now are below the next one.
LEMMA IdsStayInOrder ==
  ASSUME IInv, nextId' \in Nat, nextId' >= nextId,
         \A u \in TaskIds : u >= nextId' => task'[u] = task[u]
  PROVE  IdsInOrder'
<1> SUFFICES ASSUME NEW u \in TaskIds, u >= nextId'  PROVE  task'[u] = Absent
  BY DEF IdsInOrder
<1>1. u \in Int /\ nextId \in Int
  BY DEF IInv, TypeOK, TaskIds
<1>2. u >= nextId
  BY <1>1
<1> QED
  BY <1>2 DEF IInv, IdsInOrder

(* One lemma per action: it preserves the invariant and is a step of one kind. *)

\* Leasing the first suitable queued task takes exactly its entry off the queue.
LEMMA GrantQueuedStep ==
  ASSUME IInv, NEW w \in Workers, GrantQueued(w)  PROVE  Step
<1>1. PICK i \in DOMAIN queue :
        /\ task' = [task EXCEPT ![queue[i]] = Granted(@, w)]
        /\ queue' = RemoveAt(queue, i)
        /\ dirtyTasks' = dirtyTasks \cup {queue[i]}
        /\ UNCHANGED <<nextId, nextUnit, judgeVars, dirtyJob>>
  BY DEF GrantQueued, Dequeue
<1> DEFINE t == queue[i]
           x == Granted(task[t], w)
<1>2. /\ t \in TaskIds /\ task[t].state = "Queued"
      /\ t < nextId
      /\ x \in TaskRecord /\ Settled(x) /\ x.state = "Leased" /\ SameTask(x, task[t])
  BY EntryIsWaiting, TaskFacts, GrantedRecord
<1>3. /\ task' \in [TaskIds -> TaskRecord]
      /\ task'[t] = x
      /\ \A u \in TaskIds \ {t} : task'[u] = task[u]
  BY <1>1, <1>2 DEF IInv, TypeOK
<1> HIDE DEF x
<1>4. /\ queue' \in Seq(TaskIds)
      /\ Enumerates(queue', (Waiting \ Stray) \ {t})
  BY <1>1, EnumeratesRemoveAt DEF IInv, TypeOK
<1>5. /\ Waiting' = Waiting \ {t}
      /\ (Waiting \ Stray) \ {t} = Waiting' \ Stray
      /\ Stray \subseteq Waiting'
  <2>1. Waiting' = Waiting \ {t}
    BY <1>2, <1>3 DEF Waiting
  <2>2. t \notin Stray
    BY DEF Stray, ToSet
  <2> QED
    BY <2>1, <2>2 DEF Stray
<1>6. TypeOK'
  BY <1>1, <1>2, <1>3, <1>4 DEF IInv, TypeOK, judgeVars
<1>7. Lifecycle'
  BY <1>2, <1>3 DEF IInv, Lifecycle
<1>8. IdsInOrder'
  BY <1>1, <1>2, <1>3, TaskFacts DEF IdsInOrder, IInv, TypeOK, TaskIds
<1>9. Quiet
  <2>1. Kept(t)
    BY <1>2, <1>3 DEF Kept
  <2>2. \A u \in TaskIds \ {t} : Kept(u)
    BY <1>3, UntouchedIsKept
  <2> QED
    BY <1>1, <2>1, <2>2 DEF Quiet, judgeVars
<1> QED
  BY <1>4, <1>5, <1>6, <1>7, <1>8, <1>9, QueueFollows DEF Step, IInv

\* A fresh task never reaches past the end of the keyspace, nor of its group.
LEMMA CarveSizeFits ==
  ASSUME TypeOK, NEW units \in Sizes
  PROVE  /\ CarveSize(units) <= TotalUnits - nextUnit
         /\ GroupSize # 0 => CarveSize(units) <= GroupSize - (nextUnit % GroupSize)
<1>1. /\ units \in Int /\ nextUnit \in Int /\ TotalUnits \in Int
      /\ GroupSize \in Nat
  BY JobManagerAssumption DEF TypeOK
<1> DEFINE Least(a, b) == IF a <= b THEN a ELSE b
           capped == Least(units, TotalUnits - nextUnit)
<1>2. capped \in Int /\ capped <= TotalUnits - nextUnit
  BY <1>1
<1>3. CASE GroupSize = 0
  BY <1>2, <1>3 DEF CarveSize
<1>4. CASE GroupSize # 0
  <2> DEFINE room == GroupSize - (nextUnit % GroupSize)
  <2>1. room \in Int
    BY <1>1, <1>4
  <2> HIDE DEF capped, room
  <2>2. Least(capped, room) <= TotalUnits - nextUnit /\ Least(capped, room) <= room
    BY <1>1, <1>2, <2>1
  <2> QED
    BY <2>2, <1>4 DEF CarveSize, capped, room
<1> QED
  BY <1>3, <1>4

\* Carving hands out the next id and the next units of the keyspace.
LEMMA CarveFreshStep ==
  ASSUME IInv, NEW w \in Workers, CarveFresh(w)  PROVE  Step
<1>1. PICK units \in Sizes, count \in 1 .. TotalUnits :
        /\ nextId \in TaskIds
        /\ count = CarveSize(units)
        /\ task' = [task EXCEPT ![nextId] = Issued(w, nextUnit, count, Nil, TRUE)]
        /\ nextId' = nextId + 1
        /\ nextUnit' = nextUnit + count
        /\ dirtyTasks' = dirtyTasks \cup {nextId}
        /\ dirtyJob' = TRUE
        /\ UNCHANGED <<queue, judgeVars>>
  BY DEF CarveFresh
<1> DEFINE x == Issued(w, nextUnit, count, Nil, TRUE)
<1>2. /\ nextUnit \in 0 .. TotalUnits /\ nextUnit \in Nat /\ TotalUnits \in Nat
      /\ nextId \in Nat /\ nextId + 1 \in 1 .. (MaxTasks + 1) /\ count \in Nat
  BY <1>1, JobManagerAssumption DEF IInv, TypeOK, TaskIds
<1>3. /\ x \in TaskRecord /\ Settled(x) /\ x.state = "Leased"
      /\ x.start = nextUnit /\ x.count = count
      /\ x.replicaOf = Nil /\ x.inJob = TRUE
  <2>1. LeaseTicks \in 0 .. LeaseTicks /\ w # NoWorker
    BY JobManagerAssumption
  <2> QED
    BY <1>2, <2>1 DEF Issued, TaskRecord, Settled, TaskStates
<1>4. /\ count \in 1 .. (TotalUnits - nextUnit) /\ nextUnit + count \in 0 .. TotalUnits
      /\ GroupSize # 0 => count <= GroupSize - (nextUnit % GroupSize)
  BY <1>1, <1>2, CarveSizeFits DEF IInv
<1>5. task[nextId] = Absent
  BY <1>1, <1>2, TaskFacts
<1>6. /\ task' \in [TaskIds -> TaskRecord]
      /\ task'[nextId] = x
      /\ \A u \in TaskIds \ {nextId} : task'[u] = task[u]
  BY <1>1, <1>3 DEF IInv, TypeOK
<1> HIDE DEF x
<1>7. Waiting' = Waiting
  BY <1>3, <1>5, <1>6, AbsentRecord DEF Waiting
<1>8. TypeOK'
  BY <1>1, <1>2, <1>4, <1>6 DEF IInv, TypeOK, judgeVars
<1>9. Lifecycle'
  BY <1>3, <1>6 DEF IInv, Lifecycle
<1>10. IdsInOrder'
  <2>1. nextId' \in Nat /\ nextId' > nextId
    BY <1>1, <1>2
  <2>2. \A u \in TaskIds : u >= nextId' => task'[u] = task[u]
    BY <1>2, <1>6, <2>1
  <2> QED
    BY <1>2, <2>1, <2>2, IdsStayInOrder
<1>11. Carving
  <2>1. Carved(nextId)
    BY <1>1, <1>2, <1>3, <1>4, <1>5, <1>6 DEF Carved
  <2>2. \A u \in TaskIds \ {nextId} : Kept(u)
    BY <1>6, UntouchedIsKept
  <2> QED
    BY <1>1, <2>1, <2>2 DEF Carving, judgeVars
<1> QED
  BY <1>1, <1>7, <1>8, <1>9, <1>10, <1>11, QueueUntouched DEF Step, IInv

\* A speculative replica is a new leased task over its original's range.
LEMMA IssueSpeculativeStep ==
  ASSUME IInv, NEW w \in Workers, IssueSpeculative(w)  PROVE  Step
<1>1. PICK t \in TaskIds :
        /\ Raceable(w, t)
        /\ nextId \in TaskIds
        /\ task' = [task EXCEPT
             ![nextId] = Issued(w, task[t].start, task[t].count, t, TRUE)]
        /\ nextId' = nextId + 1
        /\ dirtyTasks' = dirtyTasks \cup {nextId}
        /\ UNCHANGED <<queue, nextUnit, judgeVars, dirtyJob>>
  BY DEF IssueSpeculative
<1> DEFINE x == Issued(w, task[t].start, task[t].count, t, TRUE)
<1>2. nextId \in Nat /\ nextId + 1 \in 1 .. (MaxTasks + 1)
  BY <1>1, JobManagerAssumption DEF IInv, TypeOK, TaskIds
<1>3. /\ x \in TaskRecord /\ Settled(x) /\ x.state = "Leased"
      /\ x.start = task[t].start /\ x.count = task[t].count
      /\ x.replicaOf = t /\ x.inJob = TRUE
  <2>1. task[t].start \in Nat /\ task[t].count \in Nat /\ t \in TaskIds \cup {Nil}
    BY TaskFacts, TaskRecordFields
  <2>2. LeaseTicks \in 0 .. LeaseTicks /\ w # NoWorker
    BY JobManagerAssumption
  <2> QED
    BY <2>1, <2>2 DEF Issued, TaskRecord, Settled, TaskStates
<1>4. task[nextId] = Absent
  BY <1>1, <1>2, TaskFacts
<1>5. /\ task' \in [TaskIds -> TaskRecord]
      /\ task'[nextId] = x
      /\ \A u \in TaskIds \ {nextId} : task'[u] = task[u]
  BY <1>1, <1>3 DEF IInv, TypeOK
<1> HIDE DEF x
<1>6. Waiting' = Waiting
  BY <1>3, <1>4, <1>5, AbsentRecord DEF Waiting
<1>7. TypeOK'
  BY <1>1, <1>2, <1>5 DEF IInv, TypeOK, judgeVars
<1>8. Lifecycle'
  BY <1>3, <1>5 DEF IInv, Lifecycle
<1>9. IdsInOrder'
  <2>1. nextId' \in Nat /\ nextId' > nextId
    BY <1>1, <1>2
  <2>2. \A u \in TaskIds : u >= nextId' => task'[u] = task[u]
    BY <1>2, <1>5, <2>1
  <2> QED
    BY <1>2, <2>1, <2>2, IdsStayInOrder
<1>10. Quiet
  <2>1. Raced(nextId)
    <3>1. /\ t \in Listed /\ task[t].state = "Leased" /\ task[t].replicaOf = Nil
          /\ \A r \in Listed : task[r].replicaOf = t => ~Live(r)
      BY <1>1 DEF Raceable
    <3>2. /\ task'[nextId].state = "Leased" /\ task'[nextId].inJob = TRUE
          /\ task'[nextId].replicaOf = t
          /\ task'[nextId].start = task[t].start /\ task'[nextId].count = task[t].count
      BY <1>3, <1>5
    <3> QED
      BY <1>4, <3>1, <3>2 DEF Raced
  <2>2. \A u \in TaskIds \ {nextId} : Kept(u)
    BY <1>5, UntouchedIsKept
  <2> QED
    BY <1>1, <2>1, <2>2 DEF Quiet, judgeVars
<1> QED
  BY <1>1, <1>6, <1>7, <1>8, <1>9, <1>10, QueueUntouched DEF Step, IInv

\* A probe covers the range of a known answer.
LEMMA ProbeRecord ==
  ASSUME TypeOK, NEW w \in Workers, NEW k \in known
  PROVE  /\ Probe(w, k) \in TaskRecord
         /\ Settled(Probe(w, k))
         /\ Probe(w, k).state = "Leased"
         /\ Probe(w, k).start = k.start /\ Probe(w, k).count = k.count
         /\ Probe(w, k).replicaOf = Nil /\ Probe(w, k).inJob = FALSE
<1>1. LeaseTicks \in 0 .. LeaseTicks /\ w # NoWorker
  BY JobManagerAssumption
<1>2. k.start \in Nat /\ k.count \in Nat
  BY DEF TypeOK
<1> QED
  BY <1>1, <1>2 DEF Probe, Issued, TaskRecord, Settled, TaskStates

\* A probe takes the place of a queued task, which goes to the back of the queue.
LEMMA SpotCheckQueuedStep ==
  ASSUME IInv, NEW w \in Workers, SpotCheckQueued(w)  PROVE  Step
<1>1. PICK i \in DOMAIN queue, k \in known :
        /\ nextId \in TaskIds
        /\ task' = [task EXCEPT
             ![queue[i]] = Vacated(Granted(@, w), "Release"),
             ![nextId]   = Probe(w, k)]
        /\ queue' = Append(RemoveAt(queue, i), queue[i])
        /\ nextId' = nextId + 1
        /\ expected' = [expected EXCEPT ![nextId] = k.answer]
        /\ dirtyTasks' = dirtyTasks \cup {queue[i], nextId}
        /\ UNCHANGED <<nextUnit, known, verdict, charged, dirtyJob>>
  BY DEF SpotCheckQueued, Dequeue
<1> DEFINE t == queue[i]
           x == Vacated(Granted(task[t], w), "Release")
           y == Probe(w, k)
<1>2. /\ t \in TaskIds /\ task[t].state = "Queued" /\ task[t] \in TaskRecord
      /\ task[nextId] = Absent /\ t # nextId
  <2>1. t \in TaskIds /\ task[t].state = "Queued" /\ task[t] \in TaskRecord
    BY EntryIsWaiting, TaskFacts
  <2>2. nextId >= nextId
    BY DEF IInv, TypeOK
  <2> QED
    BY <1>1, <2>1, <2>2, TaskFacts, AbsentRecord
<1>3. x \in TaskRecord /\ Settled(x) /\ x.state = "Queued" /\ SameTask(x, task[t])
  <2>1. /\ Granted(task[t], w) \in TaskRecord /\ Granted(task[t], w).state = "Leased"
        /\ SameTask(Granted(task[t], w), task[t])
    BY <1>2, GrantedRecord
  <2> QED
    BY <2>1, VacatedRecord DEF SameTask
<1>4. /\ y \in TaskRecord /\ Settled(y) /\ y.state = "Leased"
      /\ y.start = k.start /\ y.count = k.count
      /\ y.replicaOf = Nil /\ y.inJob = FALSE
  BY ProbeRecord DEF IInv
<1>5. nextId \in Nat /\ nextId + 1 \in 1 .. (MaxTasks + 1) /\ k.answer \in Answers
  BY <1>1, JobManagerAssumption DEF IInv, TypeOK, TaskIds
<1> HIDE DEF y
<1>6. /\ task' \in [TaskIds -> TaskRecord]
      /\ task'[t] = x /\ task'[nextId] = y
      /\ \A u \in TaskIds \ {t, nextId} : task'[u] = task[u]
  BY <1>1, <1>2, <1>3, <1>4 DEF IInv, TypeOK, y
<1> HIDE DEF x
<1>7. Waiting' = Waiting
  BY <1>1, <1>2, <1>3, <1>4, <1>6, AbsentRecord DEF Waiting
<1>8. queue' \in Seq(TaskIds) /\ Enumerates(queue', Waiting \ Stray)
  <2>1. /\ RemoveAt(queue, i) \in Seq(TaskIds)
        /\ Enumerates(RemoveAt(queue, i), (Waiting \ Stray) \ {t})
    BY EnumeratesRemoveAt DEF IInv, TypeOK
  <2> DEFINE q == RemoveAt(queue, i)
             Q == (Waiting \ Stray) \ {t}
  <2>2. Q \cup {t} = Waiting \ Stray /\ t \notin Q
    <3>1. t \in Waiting /\ t \notin Stray
      BY <1>2 DEF Waiting, Stray, ToSet
    <3> QED
      BY <3>1
  <2>3. queue' = Append(q, t)
    BY <1>1
  <2> HIDE DEF q, Q, t
  <2>4. Append(q, t) \in Seq(TaskIds) /\ Enumerates(Append(q, t), Q \cup {t})
    BY <1>2, <2>1, <2>2, EnumeratesAppend DEF q, Q
  <2> QED
    BY <2>2, <2>3, <2>4 DEF Q
<1>9. TypeOK'
  BY <1>1, <1>2, <1>5, <1>6, <1>8 DEF IInv, TypeOK
<1>10. Lifecycle'
  BY <1>3, <1>4, <1>6 DEF IInv, Lifecycle
<1>11. IdsInOrder'
  <2>1. nextId' \in Nat /\ nextId' > nextId
    BY <1>1, <1>5
  <2>2. t < nextId
    BY <1>2, TaskFacts
  <2>3. t \in Int
    BY <1>2 DEF TaskIds
  <2>4. \A u \in TaskIds : u >= nextId' => task'[u] = task[u]
    BY <1>5, <1>6, <2>1, <2>2, <2>3
  <2> QED
    BY <1>5, <2>1, <2>4, IdsStayInOrder
<1>12. Quiet
  <2>1. Kept(t)
    BY <1>2, <1>3, <1>6 DEF Kept
  <2>2. Probed(nextId)
    BY <1>2, <1>4, <1>6 DEF Probed
  <2>3. \A u \in TaskIds \ {t, nextId} : Kept(u)
    BY <1>6, UntouchedIsKept
  <2> QED
    BY <1>1, <2>1, <2>2, <2>3 DEF Quiet
<1> QED
  BY <1>7, <1>8, <1>9, <1>10, <1>11, <1>12, QueueFollows DEF Step, IInv, Stray

\* A probe takes the place of a task just carved, which is queued instead.
LEMMA SpotCheckFreshStep ==
  ASSUME IInv, NEW w \in Workers, SpotCheckFresh(w)  PROVE  Step
<1>1. PICK units \in Sizes, count \in 1 .. TotalUnits, k \in known :
        /\ nextId \in TaskIds /\ nextId + 1 \in TaskIds
        /\ count = CarveSize(units)
        /\ task' = [task EXCEPT
             ![nextId]     = Vacated(Issued(w, nextUnit, count, Nil, TRUE), "Release"),
             ![nextId + 1] = Probe(w, k)]
        /\ queue' = Append(queue, nextId)
        /\ nextId' = nextId + 2
        /\ nextUnit' = nextUnit + count
        /\ expected' = [expected EXCEPT ![nextId + 1] = k.answer]
        /\ dirtyTasks' = dirtyTasks \cup {nextId, nextId + 1}
        /\ dirtyJob' = TRUE
        /\ UNCHANGED <<known, verdict, charged>>
  BY DEF SpotCheckFresh
<1> DEFINE n == nextId + 1
           z == Issued(w, nextUnit, count, Nil, TRUE)
           x == Vacated(z, "Release")
           y == Probe(w, k)
<1>2. /\ nextUnit \in 0 .. TotalUnits /\ nextUnit \in Nat /\ TotalUnits \in Nat
      /\ nextId \in Nat /\ nextId + 2 \in 1 .. (MaxTasks + 1) /\ count \in Nat
      /\ nextId # n /\ n \in TaskIds /\ n > nextId /\ k.answer \in Answers
  BY <1>1, JobManagerAssumption DEF IInv, TypeOK, TaskIds
<1>3. /\ z \in TaskRecord /\ z.state = "Leased"
      /\ z.start = nextUnit /\ z.count = count
      /\ z.replicaOf = Nil /\ z.inJob = TRUE
  <2>1. LeaseTicks \in 0 .. LeaseTicks /\ w # NoWorker
    BY JobManagerAssumption
  <2> QED
    BY <1>2, <2>1 DEF Issued, TaskRecord, TaskStates
<1> HIDE DEF z
<1>4. /\ x \in TaskRecord /\ Settled(x) /\ x.state = "Queued"
      /\ x.start = nextUnit /\ x.count = count
      /\ x.replicaOf = Nil /\ x.inJob = TRUE
  BY <1>3, VacatedRecord DEF SameTask
<1>5. /\ y \in TaskRecord /\ Settled(y) /\ y.state = "Leased"
      /\ y.start = k.start /\ y.count = k.count
      /\ y.replicaOf = Nil /\ y.inJob = FALSE
  BY ProbeRecord DEF IInv
<1>6. /\ count \in 1 .. (TotalUnits - nextUnit) /\ nextUnit + count \in 0 .. TotalUnits
      /\ GroupSize # 0 => count <= GroupSize - (nextUnit % GroupSize)
  BY <1>1, <1>2, CarveSizeFits DEF IInv
<1>7. task[nextId] = Absent /\ task[n] = Absent
  BY <1>1, <1>2, TaskFacts
<1> HIDE DEF x, y, n
<1>8. /\ task' \in [TaskIds -> TaskRecord]
      /\ task'[nextId] = x /\ task'[n] = y
      /\ \A u \in TaskIds \ {nextId, n} : task'[u] = task[u]
  <2>1. task' = [task EXCEPT ![nextId] = x, ![n] = y]
    BY <1>1 DEF n, x, y, z
  <2> QED
    BY ZenonT(60), <1>1, <1>2, <1>4, <1>5, <2>1 DEF IInv, TypeOK
<1>9. /\ Waiting' = Waiting \cup {nextId} /\ nextId \notin Waiting
      /\ Stray \subseteq Waiting
      /\ (Waiting \ Stray) \cup {nextId} = Waiting' \ Stray
  <2>1. Waiting' = Waiting \cup {nextId} /\ nextId \notin Waiting
    BY ZenonT(60), <1>1, <1>2, <1>4, <1>5, <1>7, <1>8, AbsentRecord DEF Waiting
  <2> QED
    BY <2>1 DEF Stray
<1>10. queue' \in Seq(TaskIds) /\ Enumerates(queue', (Waiting \ Stray) \cup {nextId})
  BY <1>1, <1>9, EnumeratesAppend DEF IInv, TypeOK
<1>11. TypeOK'
  BY <1>1, <1>2, <1>6, <1>8, <1>10 DEF IInv, TypeOK, n
<1>12. Lifecycle'
  BY <1>4, <1>5, <1>8 DEF IInv, Lifecycle
<1>13. IdsInOrder'
  <2>1. nextId' \in Nat /\ nextId' > nextId /\ nextId' > n
    BY <1>1, <1>2 DEF n
  <2>2. n \in Int
    BY <1>2 DEF n
  <2>3. \A u \in TaskIds : u >= nextId' => task'[u] = task[u]
    BY <1>2, <1>8, <2>1, <2>2
  <2> QED
    BY <1>2, <2>1, <2>3, IdsStayInOrder
<1>14. Carving
  <2>1. Carved(nextId)
    BY <1>1, <1>4, <1>6, <1>7, <1>8 DEF Carved
  <2>2. Probed(n)
    BY <1>5, <1>7, <1>8 DEF Probed
  <2>3. \A u \in TaskIds \ {nextId, n} : Kept(u)
    BY <1>8, UntouchedIsKept
  <2> QED
    BY <1>1, <2>1, <2>2, <2>3 DEF Carving
<1> QED
  BY <1>9, <1>10, <1>11, <1>12, <1>13, <1>14, QueueFollows DEF Step, IInv

\* A heartbeat renews leases and moves no task to another state.
LEMMA RenewStep ==
  ASSUME IInv, NEW w \in Workers, NEW t \in TaskIds, Renew(w, t)  PROVE  Step
<1> DEFINE x == [task[t] EXCEPT !.state = Advance(@, "Renew"), !.lease = LeaseTicks]
<1>1. /\ task[t].state = "Leased"
      /\ task' = [task EXCEPT ![t] = x]
      /\ dirtyTasks' = dirtyTasks \cup {t}
      /\ UNCHANGED <<queue, nextId, nextUnit, judgeVars, dirtyJob>>
  BY DEF Renew, CheckLease
<1>2. x \in TaskRecord /\ Settled(x) /\ x.state = "Leased" /\ SameTask(x, task[t])
  BY <1>1, TaskFacts, RenewedRecord
<1> HIDE DEF x
<1>3. /\ task' \in [TaskIds -> TaskRecord]
      /\ task'[t] = x
      /\ \A u \in TaskIds \ {t} : task'[u] = task[u]
  BY <1>1, <1>2 DEF IInv, TypeOK
<1>4. Waiting' = Waiting
  BY <1>1, <1>2, <1>3 DEF Waiting
<1>5. TypeOK'
  BY <1>1, <1>3 DEF IInv, TypeOK, judgeVars
<1>6. Lifecycle'
  BY <1>2, <1>3 DEF IInv, Lifecycle
<1>7. IdsInOrder'
  BY <1>1, <1>3, TaskFacts, AbsentRecord DEF IInv, IdsInOrder
<1>8. Quiet
  <2>1. Kept(t)
    BY <1>1, <1>2, <1>3 DEF Kept
  <2> QED
    BY <1>1, <1>3, <2>1, UntouchedIsKept DEF Quiet, judgeVars
<1> QED
  BY <1>1, <1>4, <1>5, <1>6, <1>7, <1>8, QueueUntouched DEF Step, IInv

\* Leases go back to the queue, whatever becomes of the marks of the next flush.
LEMMA LeasesGoBack ==
  ASSUME IInv, NEW S \in SUBSET TaskIds, \A t \in S : task[t].state = "Leased",
         NEW ev \in {"Release", "LeaseExpired"},
         task' = [t \in TaskIds |-> IF t \in S THEN Vacated(task[t], ev) ELSE task[t]],
         \E order \in SetToSeqs(S) : queue' = queue \o order,
         dirtyTasks' \subseteq TaskIds, dirtyJob' \in BOOLEAN,
         UNCHANGED <<nextId, nextUnit, judgeVars>>
  PROVE  Step /\ Quiet
<1>1. PICK order \in SetToSeqs(S) :
        /\ task' = [t \in TaskIds |-> IF t \in S THEN Vacated(task[t], ev) ELSE task[t]]
        /\ queue' = queue \o order
        /\ dirtyTasks' \subseteq TaskIds /\ dirtyJob' \in BOOLEAN
        /\ UNCHANGED <<nextId, nextUnit, judgeVars>>
  OBVIOUS
<1>2. \A t \in S : /\ Vacated(task[t], ev) \in TaskRecord
                   /\ Settled(Vacated(task[t], ev))
                   /\ Vacated(task[t], ev).state = "Queued"
                   /\ SameTask(Vacated(task[t], ev), task[t])
  BY TaskFacts, VacatedRecord
<1>3. /\ task' \in [TaskIds -> TaskRecord]
      /\ \A t \in S : /\ Settled(task'[t]) /\ task'[t].state = "Queued"
                      /\ SameTask(task'[t], task[t])
      /\ \A t \in TaskIds \ S : task'[t] = task[t]
  BY <1>1, <1>2 DEF IInv, TypeOK
<1>4. /\ Waiting' = Waiting \cup S /\ S \cap Waiting = {}
      /\ Stray \subseteq Waiting
      /\ (Waiting \ Stray) \cup S = Waiting' \ Stray
  <2>1. Waiting' = Waiting \cup S /\ S \cap Waiting = {}
    BY <1>3 DEF Waiting
  <2> QED
    BY <2>1 DEF Stray
<1>5. queue' \in Seq(TaskIds) /\ Enumerates(queue', (Waiting \ Stray) \cup S)
  <2>1. IsFiniteSet(S)
    <3>1. 1 \in Int /\ MaxTasks \in Int
      BY JobManagerAssumption
    <3>2. IsFiniteSet(TaskIds)
      BY <3>1, FS_Interval DEF TaskIds
    <3> QED
      BY <3>2, FS_Subset
  <2>2. order \in Seq(S) /\ Enumerates(order, S)
    BY <2>1, EnumeratesSetToSeqs
  <2>3. order \in Seq(TaskIds)
    BY <2>2
  <2> DEFINE Q == Waiting \ Stray
  <2>4. queue \in Seq(TaskIds) /\ Enumerates(queue, Q) /\ Q \cap S = {}
    BY <1>4 DEF IInv, TypeOK
  <2> HIDE DEF Q
  <2>5. queue' \in Seq(TaskIds) /\ Enumerates(queue', Q \cup S)
    BY <1>1, <2>2, <2>3, <2>4, EnumeratesConcat
  <2> QED
    BY <2>5 DEF Q
<1>6. TypeOK'
  BY <1>1, <1>3, <1>5 DEF IInv, TypeOK, judgeVars
<1>7. Lifecycle'
  BY <1>3 DEF IInv, Lifecycle
<1>8. IdsInOrder'
  BY <1>1, <1>3, TaskFacts, AbsentRecord DEF IInv, IdsInOrder
<1>9. Quiet
  <2>1. \A t \in S : Kept(t)
    BY <1>3 DEF Kept
  <2> QED
    BY <1>1, <1>3, <2>1, UntouchedIsKept DEF Quiet, judgeVars
<1> QED
  BY <1>4, <1>5, <1>6, <1>7, <1>8, <1>9, QueueFollows DEF Step, IInv

\* Release, departure, expiry and a corrupted payload: leases go back to the queue.
LEMMA RequeueStep ==
  ASSUME IInv, NEW S \in SUBSET TaskIds, \A t \in S : task[t].state = "Leased",
         NEW ev \in {"Release", "LeaseExpired"}, Requeue(S, ev)
  PROVE  Step
<1>1. dirtyTasks' \subseteq TaskIds /\ dirtyJob' \in BOOLEAN
  BY DEF Requeue, IInv, TypeOK
<1> QED
  BY <1>1, LeasesGoBack DEF Requeue

\* Time passes: only the ages of leases change.
LEMMA TickStep ==
  ASSUME IInv, Tick  PROVE  Step
<1> DEFINE x(t) == [task[t] EXCEPT !.lease = IF @ > 0 THEN @ - 1 ELSE 0]
<1>1. /\ task' = [t \in TaskIds |-> x(t)]
      /\ UNCHANGED <<queue, nextId, nextUnit, judgeVars, dirtyTasks, dirtyJob>>
  BY DEF Tick
<1>2. \A t \in TaskIds : /\ x(t) \in TaskRecord /\ Settled(x(t))
                         /\ x(t).state = task[t].state /\ SameTask(x(t), task[t])
  BY TaskFacts, TickedRecord
<1>3. \A t \in TaskIds : task[t] = Absent => x(t) = Absent
  <2>1. Absent.lease = 0
    BY DEF Absent
  <2>2. [Absent EXCEPT !.lease = 0] = Absent
    <3>1. \A r \in TaskRecord : r.lease = 0 => [r EXCEPT !.lease = 0] = r
      BY DEF TaskRecord
    <3> QED
      BY <2>1, <3>1, AbsentRecord
  <2>3. ~(0 > 0)
    OBVIOUS
  <2> QED
    BY <2>1, <2>2, <2>3
<1> HIDE DEF x
<1>4. /\ task' \in [TaskIds -> TaskRecord]
      /\ \A t \in TaskIds : task'[t] = x(t)
  BY <1>1, <1>2
<1>5. Waiting' = Waiting
  BY <1>2, <1>4 DEF Waiting
<1>6. TypeOK'
  BY <1>1, <1>4 DEF IInv, TypeOK, judgeVars
<1>7. Lifecycle'
  BY <1>2, <1>4 DEF Lifecycle
<1>8. IdsInOrder'
  BY <1>1, <1>3, <1>4 DEF IInv, IdsInOrder
<1>9. Quiet
  <2>1. \A t \in TaskIds : Kept(t)
    BY <1>2, <1>4 DEF Kept
  <2> QED
    BY <1>1, <2>1 DEF Quiet, judgeVars
<1> QED
  BY <1>1, <1>5, <1>6, <1>7, <1>8, <1>9, QueueUntouched DEF Step, IInv

\* A result that asks for another opinion, or that restarts the vote, sends its
\* task back to the queue.
LEMMA ReopenStep ==
  ASSUME IInv, NEW w \in Workers, NEW t \in TaskIds, NEW a \in Answers,
         RequestReplica(w, t, a) \/ RestartValidation(w, t, a)
  PROVE  Step
<1>1. PICK x \in {Reopened(Submitted(w, t, a)),
                  [Reopened(Submitted(w, t, a)) EXCEPT !.subs = <<>>]} :
        /\ task[t].state = "Leased"
        /\ task' = [task EXCEPT ![t] = x]
        /\ queue' = Append(queue, t)
        /\ charged' = charged \cup ProbeFailure(w, t, a)
        /\ Judged(t)
        /\ dirtyTasks' = dirtyTasks \cup {t}
        /\ UNCHANGED <<nextId, nextUnit, known, verdict, dirtyJob>>
  BY DEF RequestReplica, RestartValidation, CheckLease
<1>2. x \in TaskRecord /\ Settled(x) /\ x.state = "Queued" /\ SameTask(x, task[t])
  <2> DEFINE r == Submitted(w, t, a)
             q == Reopened(r)
  <2>1. r \in TaskRecord /\ r.state = "Validating" /\ r.holder = NoWorker
        /\ SameTask(r, task[t])
    BY <1>1, TaskFacts, SubmittedRecord
  <2> HIDE DEF r
  <2>2. q \in TaskRecord /\ Settled(q) /\ q.state = "Queued" /\ SameTask(q, r)
    BY <2>1, ReopenedRecord
  <2>3. x \in {q, [q EXCEPT !.subs = <<>>]}
    BY DEF r
  <2> HIDE DEF q
  <2> DEFINE z == [q EXCEPT !.subs = <<>>]
  <2>4. z \in TaskRecord /\ Settled(z) /\ z.state = "Queued" /\ SameTask(z, q)
    <3>1. <<>> \in Seq([worker : Workers, answer : Answers])
      OBVIOUS
    <3> QED
      BY <2>2, <3>1 DEF TaskRecord, Settled, SameTask
  <2> QED
    BY <2>1, <2>2, <2>3, <2>4 DEF SameTask
<1>3. /\ task' \in [TaskIds -> TaskRecord]
      /\ task'[t] = x
      /\ \A u \in TaskIds \ {t} : task'[u] = task[u]
  BY <1>1, <1>2 DEF IInv, TypeOK
<1>4. /\ Waiting' = Waiting \cup {t} /\ t \notin Waiting
      /\ Stray \subseteq Waiting
      /\ (Waiting \ Stray) \cup {t} = Waiting' \ Stray
  <2>1. Waiting' = Waiting \cup {t} /\ t \notin Waiting
    BY <1>1, <1>2, <1>3 DEF Waiting
  <2> QED
    BY <2>1 DEF Stray
<1>5. queue' \in Seq(TaskIds) /\ Enumerates(queue', (Waiting \ Stray) \cup {t})
  BY <1>1, <1>4, EnumeratesAppend DEF IInv, TypeOK
<1>6. TypeOK'
  <2>1. charged' \subseteq Workers
    BY <1>1 DEF IInv, TypeOK, ProbeFailure
  <2>2. expected' \in [TaskIds -> Answers \cup {NoAnswer}]
    BY <1>1 DEF IInv, TypeOK, Judged
  <2> QED
    BY <1>1, <1>3, <1>5, <2>1, <2>2 DEF IInv, TypeOK
<1>7. Lifecycle'
  BY <1>2, <1>3 DEF IInv, Lifecycle
<1>8. IdsInOrder'
  BY <1>1, <1>3, TaskFacts, AbsentRecord DEF IInv, IdsInOrder
<1>9. Quiet
  <2>1. Kept(t)
    BY <1>1, <1>2, <1>3 DEF Kept
  <2> QED
    BY <1>1, <1>3, <2>1, UntouchedIsKept DEF Quiet
<1> QED
  BY <1>4, <1>5, <1>6, <1>7, <1>8, <1>9, QueueFollows DEF Step, IInv

\* Whoever is credited or charged for a vote submitted an answer.
LEMMA VotersAreWorkers ==
  ASSUME NEW subs \in Seq([worker : Workers, answer : Answers])
  PROVE  Agreeing(subs) \subseteq Workers /\ Dissenting(subs) \subseteq Workers
<1>1. \A i \in DOMAIN subs : subs[i].worker \in Workers
  <2>1. \A i \in DOMAIN subs : subs[i] \in [worker : Workers, answer : Answers]
    BY LenProperties, ElementOfSeq
  <2> QED
    BY <2>1
<1>2. \A a : Cluster(subs, a) \subseteq DOMAIN subs
  BY DEF Cluster
<1> QED
  BY <1>1, <1>2 DEF Agreeing, Dissenting

\* The pool only learns the range of the task that was accepted.
LEMMA RememberAdds ==
  ASSUME NEW r \in TaskRecord, NEW a \in Answers, NEW W,
         NEW k \in Remember(r, a, W), k \notin known
  PROVE  k = [start |-> r.start, count |-> r.count, answer |-> a]
BY DEF Remember

\* An accepted result ends its task and the siblings it beats, which were leased.
LEMMA AcceptResultStep ==
  ASSUME IInv, NEW w \in Workers, NEW t \in TaskIds, NEW a \in Answers,
         AcceptResult(w, t, a)
  PROVE  Step
<1> DEFINE r == Submitted(w, t, a)
           losers == CancelledBy(t)
           x == [r EXCEPT !.state = Advance(@, "Accept"), !.subs = <<>>]
<1>1. /\ task[t].state = "Leased"
      /\ task' = [u \in TaskIds |->
           IF u = t THEN x ELSE IF u \in losers THEN Vacated(task[u], "Cancel") ELSE task[u]]
      /\ queue' = Erase(losers)
      /\ verdict' = [verdict EXCEPT
           ![t] = [from |-> w, answer |-> a, agreeing |-> Agreeing(r.subs)]]
      /\ known' = Remember(r, a, Agreeing(r.subs))
      /\ charged' = charged \cup Dissenting(r.subs) \cup ProbeFailure(w, t, a)
      /\ Judged(t)
      /\ dirtyTasks' = dirtyTasks \cup {t} \cup losers
      /\ UNCHANGED <<nextId, nextUnit, dirtyJob>>
  BY DEF AcceptResult, CheckLease
<1>2. r \in TaskRecord /\ r.state = "Validating" /\ r.holder = NoWorker
      /\ SameTask(r, task[t])
  BY <1>1, TaskFacts, SubmittedRecord
<1> HIDE DEF r
<1>3. x \in TaskRecord /\ Settled(x) /\ x.state = "Accepted" /\ SameTask(x, task[t])
  <2>1. <<>> \in Seq([worker : Workers, answer : Answers])
    OBVIOUS
  <2> QED
    BY <1>2, <2>1, AdvanceValues DEF TaskRecord, Settled, SameTask, TaskStates
<1>4. /\ losers \subseteq TaskIds \ {t}
      /\ \A u \in losers : task[u].state = "Leased"
  <2>1. \A u \in losers : u \in TaskIds \ {t} /\ Legal(task[u].state, "Cancel")
    BY DEF CancelledBy, Listed
  <2> QED
    BY <2>1, TaskFacts, LegalCancel DEF Settled
<1> HIDE DEF losers, x
<1>5. /\ task' \in [TaskIds -> TaskRecord]
      /\ task'[t] = x
      /\ \A u \in losers : /\ Settled(task'[u]) /\ task'[u].state = "Cancelled"
                          /\ SameTask(task'[u], task[u])
      /\ \A u \in TaskIds : u # t /\ u \notin losers => task'[u] = task[u]
  <2>1. \A u \in losers : /\ Vacated(task[u], "Cancel") \in TaskRecord
                          /\ Settled(Vacated(task[u], "Cancel"))
                          /\ Vacated(task[u], "Cancel").state = "Cancelled"
                          /\ SameTask(Vacated(task[u], "Cancel"), task[u])
    BY <1>4, TaskFacts, CancelledRecord
  <2> QED
    BY <1>1, <1>3, <1>4, <2>1 DEF IInv, TypeOK
<1>6. Waiting' = Waiting
  BY <1>1, <1>3, <1>4, <1>5 DEF Waiting
<1>7. queue' = queue
  <2>1. losers \cap ToSet(queue) = {}
    BY <1>4 DEF IInv, Enumerates, Waiting
  <2> QED
    BY <1>1, <2>1 DEF Erase, Erased, ToSet
<1>8. \A k \in known' : \/ k \in known
                       \/ /\ k \in [start : Nat, count : Nat, answer : Answers]
                          /\ k.start = task[t].start /\ k.count = task[t].count
  <2> SUFFICES ASSUME NEW k \in known', k \notin known
               PROVE  /\ k \in [start : Nat, count : Nat, answer : Answers]
                      /\ k.start = task[t].start /\ k.count = task[t].count
    OBVIOUS
  <2>1. k = [start |-> r.start, count |-> r.count, answer |-> a]
    BY <1>1, <1>2, RememberAdds
  <2>2. r.start \in Nat /\ r.count \in Nat
    BY <1>2, TaskRecordFields
  <2> QED
    BY <1>2, <2>1, <2>2 DEF SameTask
<1>9. TypeOK'
  <2>1. Agreeing(r.subs) \subseteq Workers /\ Dissenting(r.subs) \subseteq Workers
    BY <1>2, TaskRecordFields, VotersAreWorkers
  <2>2. charged' \subseteq Workers
    BY <1>1, <2>1 DEF IInv, TypeOK, ProbeFailure
  <2>3. expected' \in [TaskIds -> Answers \cup {NoAnswer}]
    BY <1>1 DEF IInv, TypeOK, Judged
  <2>4. verdict' \in [TaskIds -> [from : Workers \cup {NoWorker},
                                 answer : Answers \cup {NoAnswer},
                                 agreeing : SUBSET Workers]]
    BY <1>1, <2>1 DEF IInv, TypeOK
  <2>5. known' \subseteq [start : Nat, count : Nat, answer : Answers]
    BY <1>8 DEF IInv, TypeOK
  <2>6. dirtyTasks' \subseteq TaskIds
    BY <1>1, <1>4 DEF IInv, TypeOK
  <2> QED
    BY <1>1, <1>5, <1>7, <2>2, <2>3, <2>4, <2>5, <2>6 DEF IInv, TypeOK
<1>10. Lifecycle'
  BY <1>3, <1>5 DEF IInv, Lifecycle
<1>11. IdsInOrder'
  <2>1. \A u \in TaskIds : u >= nextId => u # t /\ u \notin losers
    BY <1>1, <1>4, TaskFacts, AbsentRecord
  <2> QED
    BY <1>1, <1>5, <2>1 DEF IInv, IdsInOrder
<1>12. Accepting
  <2>1. \A u \in TaskIds \ {t} : Kept(u) \/ Beaten(u, t)
    <3>1. \A u \in losers : Beaten(u, t)
      BY <1>4, <1>5 DEF Beaten, losers
    <3> QED
      BY <1>5, <3>1, UntouchedIsKept
  <2> QED
    BY <1>1, <1>3, <1>5, <1>8, <2>1 DEF Accepting
<1> QED
  BY <1>6, <1>7, <1>9, <1>10, <1>11, <1>12, QueueUntouched DEF Step, IInv

\* Every step of the specification preserves the invariant and has a kind.
LEMMA NextStep ==
  ASSUME IInv, [Next]_vars  PROVE  Step
<1>1. ASSUME NEW w \in Workers, OnLeaseRequest(w)  PROVE  Step
  BY <1>1, GrantQueuedStep, CarveFreshStep, IssueSpeculativeStep,
     SpotCheckQueuedStep, SpotCheckFreshStep DEF OnLeaseRequest
<1>2. ASSUME NEW w \in Workers, Depart(w)  PROVE  Step
  BY <1>2, RequeueStep DEF Depart, HeldBy
<1>3. ASSUME NEW w \in Workers, NEW t \in TaskIds, OnRelease(w, t) \/ ChecksumMismatch(w, t)
      PROVE  Step
  BY <1>3, RequeueStep DEF OnRelease, ChecksumMismatch, CheckLease
<1>4. ASSUME NEW w \in Workers, NEW t \in TaskIds, NEW a \in AnswersOf(w),
             OnResultHeader(w, t, a)
      PROVE  Step
  <2>1. a \in Answers
    BY JobManagerAssumption DEF AnswersOf
  <2> QED
    BY <1>4, <2>1, ReopenStep, AcceptResultStep DEF OnResultHeader
<1>5. CASE SweepExpiredLeases
  BY <1>5, RequeueStep DEF SweepExpiredLeases, Expired
<1>6. CASE UNCHANGED vars
  <2>1. IInv' /\ Stray' = Stray
    BY <1>6 DEF vars, IInv, TypeOK, Lifecycle, IdsInOrder, Waiting, Stray, Settled
  <2>2. Quiet
    BY <1>6, UntouchedIsKept DEF vars, Quiet
  <2> QED
    BY <2>1, <2>2 DEF Step
<1> QED
  BY <1>1, <1>2, <1>3, <1>4, <1>5, <1>6, RenewStep, TickStep DEF Next

\* A job just submitted has no tasks, so the invariant holds of it.
LEMMA InitIInv ==
  ASSUME Init  PROVE  IInv
<1>1. TypeOK
  <2>1. <<>> \in Seq(TaskIds) /\ 1 \in 1 .. (MaxTasks + 1) /\ 0 \in 0 .. TotalUnits
    BY JobManagerAssumption
  <2>2. task \in [TaskIds -> TaskRecord]
    BY AbsentRecord DEF Init
  <2> QED
    BY <2>1, <2>2 DEF Init, TypeOK, NoVerdict
<1>2. Lifecycle /\ IdsInOrder
  BY AbsentRecord DEF Init, Lifecycle, IdsInOrder
<1>3. Enumerates(queue, Waiting \ Stray)
  <2>1. Waiting \ Stray = {}
    BY AbsentRecord DEF Init, Waiting
  <2> QED
    BY <2>1 DEF Init, Enumerates, ToSet
<1> QED
  BY <1>1, <1>2, <1>3 DEF IInv

\* The strengthening holds in every reachable state.
LEMMA InductiveInvariant == Spec => []IInv
<1>1. Init => IInv
  BY InitIInv
<1>2. IInv /\ [Next]_vars => IInv'
  BY NextStep DEF Step
<1> QED
  BY <1>1, <1>2, PTL DEF Spec

\* While the process runs, no queued task is missing from the queue.
LEMMA NothingAstray == Spec => [](Stray = {})
<1>1. Init => Stray = {}
  BY AbsentRecord DEF Init, Stray, Waiting
<1>2. IInv /\ Stray = {} /\ [Next]_vars => (Stray = {})'
  BY NextStep DEF Step
<1> QED
  BY <1>1, <1>2, InductiveInvariant, PTL DEF Spec

(***************************************************************************)
(* Part 3: the invariant of the keyspace, from the kinds of step.          *)
(***************************************************************************)

\* A replica covers the range of a listed original.
FamilyRange ==
  \A r \in TaskIds :
    task[r].replicaOf # Nil =>
      /\ task[r].inJob
      /\ task[task[r].replicaOf].inJob
      /\ task[task[r].replicaOf].replicaOf = Nil
      /\ task[r].start = task[task[r].replicaOf].start
      /\ task[r].count = task[task[r].replicaOf].count

\* Ranges are not empty and lie below the cursor, those of the pool too.
InKeyspace ==
  /\ \A t \in TaskIds :
       task[t].state # "Absent" =>
         task[t].count >= 1 /\ task[t].start + task[t].count <= nextUnit
  /\ \A k \in known : k.count >= 1 /\ k.start + k.count <= nextUnit

\* Every carved unit lies in the range of a listed task.
Covered == \A u \in 0 .. (nextUnit - 1) : \E t \in Listed : u \in Units(t)

\* The range of a cancelled task was accepted from another.
CancelledWon ==
  \A t \in TaskIds :
    task[t].state = "Cancelled" =>
      \E w \in Listed : /\ task[w].state = "Accepted"
                        /\ task[w].start = task[t].start
                        /\ task[w].count = task[t].count

KInv == FamilyRange /\ InKeyspace /\ Covered /\ CancelledWon

\* A listed or replica id is not a blank one.
LEMMA BlankFacts ==
  ASSUME NEW t, task[t] = Absent
  PROVE  /\ task[t].state = "Absent" /\ task[t].inJob = FALSE
         /\ task[t].replicaOf = Nil
BY AbsentRecord

\* A loser covers the winner's range, and the winner is listed.
LEMMA BeatenByFamily ==
  ASSUME IInv, FamilyRange, NEW t \in TaskIds, NEW u \in CancelledBy(t)
  PROVE  /\ task[t].inJob
         /\ task[u].start = task[t].start /\ task[u].count = task[t].count
<1>1. /\ u \in TaskIds /\ u # t
      /\ u = Root(t) \/ task[u].replicaOf = Root(t)
  BY DEF CancelledBy, Listed
<1>2. t # Nil
  BY DEF TaskIds, Nil
<1>3. CASE task[t].replicaOf = Nil
  <2>1. task[u].replicaOf = t
    BY <1>1, <1>3 DEF Root
  <2> QED
    BY <1>1, <1>2, <2>1 DEF FamilyRange
<1>4. CASE task[t].replicaOf # Nil
  <2>1. u = task[t].replicaOf \/ task[u].replicaOf = task[t].replicaOf
    BY <1>1, <1>4 DEF Root
  <2> QED
    BY <1>1, <1>4, <2>1 DEF FamilyRange
<1> QED
  BY <1>3, <1>4

\* A step that neither carves nor accepts keeps the keyspace accounted for.
LEMMA QuietKeepsKInv ==
  ASSUME IInv, KInv, Quiet  PROVE  KInv'
<1>1. ASSUME NEW t \in TaskIds, task[t] # Absent  PROVE  Kept(t)
  BY <1>1 DEF Quiet, Probed, Raced
<1>2. ASSUME NEW t \in TaskIds, task[t].inJob  PROVE  Kept(t) /\ task'[t].inJob
  <2>1. task[t] # Absent
    BY <1>2, BlankFacts
  <2> QED
    BY <1>1, <1>2, <2>1 DEF Kept, SameTask
<1>3. ASSUME NEW t \in TaskIds  PROVE  task[t].replicaOf \in TaskIds \cup {Nil}
  BY TaskFacts, TaskRecordFields
<1>4. FamilyRange'
  <2> SUFFICES ASSUME NEW r \in TaskIds, task'[r].replicaOf # Nil
               PROVE  LET o == task'[r].replicaOf
                      IN  /\ task'[r].inJob /\ task'[o].inJob
                          /\ task'[o].replicaOf = Nil
                          /\ task'[r].start = task'[o].start
                          /\ task'[r].count = task'[o].count
    BY DEF FamilyRange
  <2>1. CASE Kept(r)
    <3> DEFINE o == task[r].replicaOf
    <3>1. task'[r].replicaOf = o /\ o \in TaskIds
      BY <2>1, <1>3 DEF Kept, SameTask
    <3>2. /\ task[r].inJob /\ task[o].inJob /\ task[o].replicaOf = Nil
          /\ task[r].start = task[o].start /\ task[r].count = task[o].count
      BY <3>1 DEF KInv, FamilyRange
    <3>3. Kept(o) /\ task'[o].inJob /\ task'[r].inJob
      BY <1>2, <3>1, <3>2
    <3> QED
      BY <2>1, <3>1, <3>2, <3>3 DEF Kept, SameTask
  <2>2. CASE Raced(r)
    <3>1. PICK o \in Listed : /\ task[o].replicaOf = Nil /\ task'[r].replicaOf = o
                              /\ task'[r].start = task[o].start
                              /\ task'[r].count = task[o].count
      BY <2>2 DEF Raced
    <3>2. o \in TaskIds /\ task[o].inJob
      BY DEF Listed
    <3>3. Kept(o) /\ task'[o].inJob
      BY <1>2, <3>2
    <3> QED
      BY <2>2, <3>1, <3>3 DEF Raced, Kept, SameTask
  <2> QED
    BY <2>1, <2>2 DEF Quiet, Probed
<1>5. InKeyspace'
  <2>1. ASSUME NEW t \in TaskIds, task'[t].state # "Absent"
        PROVE  task'[t].count >= 1 /\ task'[t].start + task'[t].count <= nextUnit
    <3>1. CASE Kept(t)
      BY <2>1, <3>1 DEF KInv, InKeyspace, Kept, SameTask
    <3>2. CASE Probed(t)
      BY <3>2 DEF KInv, InKeyspace, Probed
    <3>3. CASE Raced(t)
      BY <3>3 DEF KInv, InKeyspace, Raced, Listed
    <3> QED
      BY <3>1, <3>2, <3>3 DEF Quiet
  <2> QED
    BY <2>1 DEF InKeyspace, KInv, Quiet
<1>6. Covered'
  <2> SUFFICES ASSUME NEW u \in 0 .. (nextUnit - 1)
               PROVE  \E t \in Listed' : u \in Units(t)'
    BY DEF Covered, Quiet
  <2>1. PICK t \in Listed : u \in Units(t)
    BY DEF KInv, Covered
  <2>2. t \in TaskIds /\ Kept(t) /\ task'[t].inJob
    BY <1>2 DEF Listed
  <2> QED
    BY <2>1, <2>2 DEF Listed, Units, Kept, SameTask
<1>7. CancelledWon'
  <2> SUFFICES ASSUME NEW t \in TaskIds, task'[t].state = "Cancelled"
               PROVE  \E w \in Listed' : /\ task'[w].state = "Accepted"
                                         /\ task'[w].start = task'[t].start
                                         /\ task'[w].count = task'[t].count
    BY DEF CancelledWon
  <2>1. Kept(t)
    BY DEF Quiet, Probed, Raced
  <2>2. PICK w \in Listed : /\ task[w].state = "Accepted"
                            /\ task[w].start = task[t].start
                            /\ task[w].count = task[t].count
    BY <2>1 DEF KInv, CancelledWon, Kept
  <2>3. w \in TaskIds /\ Kept(w) /\ task'[w].inJob
    BY <1>2 DEF Listed
  <2> QED
    BY <2>1, <2>2, <2>3 DEF Listed, Kept, SameTask
<1> QED
  BY <1>4, <1>5, <1>6, <1>7 DEF KInv

\* Carving extends the covered part of the keyspace by exactly the new range.
LEMMA CarvingKeepsKInv ==
  ASSUME IInv, KInv, Carving  PROVE  KInv'
<1>1. PICK c \in TaskIds : Carved(c) /\ \A u \in TaskIds \ {c} : Kept(u) \/ Probed(u)
  BY DEF Carving
<1>2. ASSUME NEW t \in TaskIds, task[t] # Absent  PROVE  Kept(t)
  BY <1>1, <1>2 DEF Probed, Carved
<1>3. ASSUME NEW t \in TaskIds, task[t].inJob  PROVE  Kept(t) /\ task'[t].inJob
  <2>1. task[t] # Absent
    BY <1>3, BlankFacts
  <2> QED
    BY <1>2, <1>3, <2>1 DEF Kept, SameTask
<1>4. nextUnit \in Nat /\ nextUnit' \in Nat /\ nextUnit' > nextUnit
  BY <1>1, JobManagerAssumption DEF Carved, IInv, TypeOK
<1>5. ASSUME NEW t \in TaskIds
      PROVE  task[t].replicaOf \in TaskIds \cup {Nil} /\ task[t].start \in Nat
             /\ task[t].count \in Nat
  BY TaskFacts, TaskRecordFields
<1>6. FamilyRange'
  <2> SUFFICES ASSUME NEW r \in TaskIds, task'[r].replicaOf # Nil
               PROVE  LET o == task'[r].replicaOf
                      IN  /\ task'[r].inJob /\ task'[o].inJob
                          /\ task'[o].replicaOf = Nil
                          /\ task'[r].start = task'[o].start
                          /\ task'[r].count = task'[o].count
    BY DEF FamilyRange
  <2> DEFINE o == task[r].replicaOf
  <2>1. Kept(r)
    BY <1>1 DEF Carved, Probed
  <2>2. task'[r].replicaOf = o /\ o \in TaskIds
    BY <2>1, <1>5 DEF Kept, SameTask
  <2>3. /\ task[r].inJob /\ task[o].inJob /\ task[o].replicaOf = Nil
        /\ task[r].start = task[o].start /\ task[r].count = task[o].count
    BY <2>2 DEF KInv, FamilyRange
  <2>4. Kept(o) /\ task'[o].inJob /\ task'[r].inJob
    BY <1>3, <2>2, <2>3
  <2> QED
    BY <2>1, <2>2, <2>3, <2>4 DEF Kept, SameTask
<1>7. InKeyspace'
  <2>1. ASSUME NEW t \in TaskIds, task'[t].state # "Absent"
        PROVE  task'[t].count >= 1 /\ task'[t].start + task'[t].count <= nextUnit'
    <3>1. CASE Kept(t)
      <4>1. /\ task'[t].start = task[t].start /\ task'[t].count = task[t].count
            /\ task[t].state # "Absent"
        BY <2>1, <3>1 DEF Kept, SameTask
      <4>2. task[t].count >= 1 /\ task[t].start + task[t].count <= nextUnit
        BY <4>1 DEF KInv, InKeyspace
      <4> QED
        BY <1>4, <1>5, <4>1, <4>2
    <3>2. CASE Probed(t)
      <4>1. PICK k \in known : task'[t].start = k.start /\ task'[t].count = k.count
        BY <3>2 DEF Probed
      <4>2. /\ k.start \in Nat /\ k.count \in Nat
            /\ k.count >= 1 /\ k.start + k.count <= nextUnit
        BY DEF KInv, InKeyspace, IInv, TypeOK
      <4> QED
        BY <1>4, <4>1, <4>2
    <3>3. CASE t = c
      BY <1>1, <1>4, <3>3, JobManagerAssumption DEF Carved, IInv, TypeOK
    <3> QED
      BY <1>1, <3>1, <3>2, <3>3
  <2>2. ASSUME NEW k \in known'  PROVE  k.count >= 1 /\ k.start + k.count <= nextUnit'
    <3>1. /\ k.start \in Nat /\ k.count \in Nat
          /\ k.count >= 1 /\ k.start + k.count <= nextUnit
      BY DEF Carving, KInv, InKeyspace, IInv, TypeOK
    <3> QED
      BY <1>4, <3>1
  <2> QED
    BY <2>1, <2>2 DEF InKeyspace
<1>8. Covered'
  <2> SUFFICES ASSUME NEW u \in 0 .. (nextUnit' - 1)
               PROVE  \E t \in Listed' : u \in Units(t)'
    BY DEF Covered
  <2>1. CASE u < nextUnit
    <3>1. u \in 0 .. (nextUnit - 1)
      BY <1>4, <2>1
    <3>2. PICK t \in Listed : u \in Units(t)
      BY <3>1 DEF KInv, Covered
    <3>3. t \in TaskIds /\ Kept(t) /\ task'[t].inJob
      BY <1>3 DEF Listed
    <3> QED
      BY <3>2, <3>3 DEF Listed, Units, Kept, SameTask
  <2>2. CASE u >= nextUnit
    <3>1. c \in Listed'
      BY <1>1 DEF Carved, Listed
    <3>2. /\ task'[c].start = nextUnit /\ task'[c].count \in Int
          /\ nextUnit' = nextUnit + task'[c].count
      BY <1>1 DEF Carved
    <3>3. u \in Units(c)'
      BY <1>4, <2>2, <3>2 DEF Units
    <3> QED
      BY <3>1, <3>3
  <2> QED
    BY <1>4, <2>1, <2>2
<1>9. CancelledWon'
  <2> SUFFICES ASSUME NEW t \in TaskIds, task'[t].state = "Cancelled"
               PROVE  \E w \in Listed' : /\ task'[w].state = "Accepted"
                                         /\ task'[w].start = task'[t].start
                                         /\ task'[w].count = task'[t].count
    BY DEF CancelledWon
  <2>1. Kept(t)
    BY <1>1 DEF Carved, Probed
  <2>2. PICK w \in Listed : /\ task[w].state = "Accepted"
                            /\ task[w].start = task[t].start
                            /\ task[w].count = task[t].count
    BY <2>1 DEF KInv, CancelledWon, Kept
  <2>3. w \in TaskIds /\ Kept(w) /\ task'[w].inJob
    BY <1>3 DEF Listed
  <2> QED
    BY <2>1, <2>2, <2>3 DEF Listed, Kept, SameTask
<1> QED
  BY <1>6, <1>7, <1>8, <1>9 DEF KInv

\* Accepting an answer, with the siblings it cancels, keeps every unit covered.
LEMMA AcceptingKeepsKInv ==
  ASSUME IInv, KInv, Accepting  PROVE  KInv'
<1>1. PICK t \in TaskIds :
        /\ task[t].state = "Leased" /\ task'[t].state = "Accepted"
        /\ SameTask(task'[t], task[t])
        /\ \A u \in TaskIds \ {t} : Kept(u) \/ Beaten(u, t)
        /\ \A k \in known' :
             \/ k \in known
             \/ k.start = task[t].start /\ k.count = task[t].count
  BY DEF Accepting
<1>2. /\ nextUnit' = nextUnit
      /\ \A u \in TaskIds : /\ SameTask(task'[u], task[u])
                            /\ task'[u].state # "Absent" => task[u].state # "Absent"
  BY <1>1 DEF Accepting, Kept, Beaten
<1>3. FamilyRange'
  <2> SUFFICES ASSUME NEW r \in TaskIds, task'[r].replicaOf # Nil
               PROVE  LET o == task'[r].replicaOf
                      IN  /\ task'[r].inJob /\ task'[o].inJob
                          /\ task'[o].replicaOf = Nil
                          /\ task'[r].start = task'[o].start
                          /\ task'[r].count = task'[o].count
    BY DEF FamilyRange
  <2> DEFINE o == task[r].replicaOf
  <2>1. task'[r].replicaOf = o /\ o \in TaskIds
    BY <1>2, TaskFacts, TaskRecordFields DEF SameTask
  <2>2. /\ task[r].inJob /\ task[o].inJob /\ task[o].replicaOf = Nil
        /\ task[r].start = task[o].start /\ task[r].count = task[o].count
    BY <2>1 DEF KInv, FamilyRange
  <2> QED
    BY <1>2, <2>1, <2>2 DEF SameTask
<1>4. InKeyspace'
  BY <1>1, <1>2 DEF KInv, InKeyspace, SameTask
<1>5. Covered'
  BY <1>2 DEF KInv, Covered, Listed, Units, SameTask
<1>6. CancelledWon'
  <2> SUFFICES ASSUME NEW u \in TaskIds, task'[u].state = "Cancelled"
               PROVE  \E w \in Listed' : /\ task'[w].state = "Accepted"
                                         /\ task'[w].start = task'[u].start
                                         /\ task'[w].count = task'[u].count
    BY DEF CancelledWon
  <2>1. CASE Kept(u)
    <3>1. PICK w \in Listed : /\ task[w].state = "Accepted"
                              /\ task[w].start = task[u].start
                              /\ task[w].count = task[u].count
      BY <2>1 DEF KInv, CancelledWon, Kept
    <3>2. w \in TaskIds /\ Kept(w)
      BY <1>1, <3>1 DEF Listed, Beaten
    <3> QED
      BY <2>1, <3>1, <3>2 DEF Listed, Kept, SameTask
  <2>2. CASE Beaten(u, t)
    <3>1. /\ task[t].inJob
          /\ task[u].start = task[t].start /\ task[u].count = task[t].count
      BY <2>2, BeatenByFamily DEF KInv, Beaten
    <3> QED
      BY <1>1, <1>2, <3>1 DEF Listed, SameTask
  <2> QED
    BY <1>1, <2>1, <2>2
<1> QED
  BY <1>3, <1>4, <1>5, <1>6 DEF KInv

\* The keyspace part of the invariant holds in every reachable state.
LEMMA KeyspaceInvariant == Spec => []KInv
<1>1. Init => KInv
  <2> SUFFICES ASSUME Init  PROVE  KInv
    OBVIOUS
  <2>1. \A t \in TaskIds : task[t] = Absent
    BY DEF Init
  <2>2. ~(\E u : u \in 0 .. (0 - 1))
    OBVIOUS
  <2> QED
    BY <2>1, <2>2, AbsentRecord
    DEF Init, KInv, FamilyRange, InKeyspace, Covered, CancelledWon
<1>2. IInv /\ KInv /\ [Next]_vars => KInv'
  BY NextStep, QuietKeepsKInv, CarvingKeepsKInv, AcceptingKeepsKInv DEF Step
<1> QED
  BY <1>1, <1>2, InductiveInvariant, PTL DEF Spec

\* An id that was not handed out stands for no range.
BlankIsEmpty ==
  \A t \in TaskIds : task[t].state = "Absent" => ~task[t].inJob /\ task[t].count = 0

Original(t) == task[t].inJob /\ task[t].replicaOf = Nil

\* The ranges of two originals do not overlap.
Disjoint ==
  \A s, t \in TaskIds :
    Original(s) /\ Original(t) /\ s # t =>
      \/ task[s].start + task[s].count <= task[t].start
      \/ task[t].start + task[t].count <= task[s].start

\* A range that stays in the group it begins in.
FitsGroup(r) == GroupSize # 0 => (r.start % GroupSize) + r.count <= GroupSize

InGroups == /\ \A t \in TaskIds : task[t].state # "Absent" => FitsGroup(task[t])
            /\ \A k \in known : FitsGroup(k)

\* That nothing is carved twice is not seen from the units covered: it needs the
\* ranges themselves, and the group of a range that a probe takes from the pool.
TInv == BlankIsEmpty /\ Disjoint /\ InGroups

\* Whatever the kind of step, a task is kept, or it is new, or it just ended.
LEMMA KindsOfTask ==
  ASSUME Step, NEW t \in TaskIds
  PROVE  \/ SameTask(task'[t], task[t])
            /\ (task'[t].state = "Absent" <=> task[t].state = "Absent")
         \/ Probed(t) \/ Raced(t) \/ Carved(t)
BY DEF Step, Quiet, Carving, Accepting, Kept, Beaten

\* The pool only learns ranges of tasks.
LEMMA KnownRanges ==
  ASSUME Step, NEW k \in known'
  PROVE  \/ k \in known
         \/ \E t \in TaskIds : /\ task[t].state # "Absent"
                               /\ k.start = task[t].start /\ k.count = task[t].count
BY DEF Step, Quiet, Carving, Accepting

\* Originals are new only when they are carved, and then they lie beyond the cursor.
LEMMA StepKeepsDisjoint ==
  ASSUME IInv, KInv, BlankIsEmpty, Disjoint, Step  PROVE  Disjoint'
<1> SUFFICES ASSUME NEW s \in TaskIds, NEW t \in TaskIds,
                    Original(s)', Original(t)', s # t
             PROVE  \/ task'[s].start + task'[s].count <= task'[t].start
                    \/ task'[t].start + task'[t].count <= task'[s].start
  BY DEF Disjoint
<1>1. ASSUME NEW u \in TaskIds, Original(u)'
      PROVE  \/ Original(u) /\ task'[u].start = task[u].start
                            /\ task'[u].count = task[u].count
             \/ Carved(u)
  <2>1. ~Probed(u)
    BY <1>1 DEF Probed, Original
  <2>2. ~Raced(u)
    BY <1>1 DEF Raced, Original, Listed, TaskIds, Nil
  <2> QED
    BY <1>1, <2>1, <2>2, KindsOfTask DEF SameTask, Original
<1>2. ASSUME NEW u \in TaskIds, Original(u)
      PROVE  /\ task[u].start \in Nat /\ task[u].count \in Nat
             /\ task[u].start + task[u].count <= nextUnit
  BY <1>2, TaskFacts, TaskRecordFields DEF Original, BlankIsEmpty, KInv, InKeyspace
<1>3. ~(Carved(s) /\ Carved(t))
  <2> SUFFICES ASSUME Carved(s), Carved(t)  PROVE  FALSE
    OBVIOUS
  <2>1. ~Quiet
    BY DEF Quiet, Carved, IInv, TypeOK
  <2>2. ~Accepting
    BY DEF Accepting, Carved, IInv, TypeOK
  <2>3. PICK c \in TaskIds : \A u \in TaskIds \ {c} : Kept(u) \/ Probed(u)
    BY <2>1, <2>2 DEF Step, Carving
  <2>4. \A u \in TaskIds \ {c} : ~Carved(u)
    BY <2>3, BlankFacts DEF Carved, Kept, Probed
  <2> QED
    BY <2>4
<1>4. \A u \in TaskIds : Carved(u) => task'[u].start = nextUnit
  BY DEF Carved
<1>5. CASE Carved(s)
  BY <1>1, <1>2, <1>3, <1>4, <1>5
<1>6. CASE Carved(t)
  BY <1>1, <1>2, <1>3, <1>4, <1>6
<1>7. CASE ~Carved(s) /\ ~Carved(t)
  BY <1>1, <1>7 DEF Disjoint
<1> QED
  BY <1>5, <1>6, <1>7

\* A new range is cut at the boundary of its group, or taken from one that was.
LEMMA StepKeepsInGroups ==
  ASSUME IInv, InGroups, Step  PROVE  InGroups'
<1>1. ASSUME NEW r, NEW s, r.start = s.start, r.count = s.count, FitsGroup(s)
      PROVE  FitsGroup(r)
  BY <1>1 DEF FitsGroup
<1>2. ASSUME NEW t \in TaskIds, task'[t].state # "Absent"  PROVE  FitsGroup(task'[t])
  <2>1. CASE SameTask(task'[t], task[t]) /\ (task'[t].state = "Absent" <=> task[t].state = "Absent")
    BY <1>1, <1>2, <2>1 DEF SameTask, InGroups
  <2>2. CASE Probed(t)
    BY <1>1, <2>2 DEF Probed, InGroups
  <2>3. CASE Raced(t)
    BY <1>1, <2>3 DEF Raced, InGroups, Listed
  <2>4. CASE Carved(t)
    <3> SUFFICES ASSUME GroupSize # 0
                 PROVE  (task'[t].start % GroupSize) + task'[t].count <= GroupSize
      BY DEF FitsGroup
    <3> DEFINE m == nextUnit % GroupSize
    <3>1. m \in Int /\ GroupSize \in Int
      BY JobManagerAssumption DEF IInv, TypeOK
    <3>2. task'[t].start % GroupSize = m /\ task'[t].count \in Int
          /\ task'[t].count <= GroupSize - m
      BY <2>4 DEF Carved
    <3> HIDE DEF m
    <3> QED
      BY <3>1, <3>2
  <2> QED
    BY <2>1, <2>2, <2>3, <2>4, KindsOfTask
<1>3. ASSUME NEW k \in known'  PROVE  FitsGroup(k)
  BY <1>1, KnownRanges DEF InGroups
<1> QED
  BY <1>2, <1>3 DEF InGroups, FitsGroup

\* A task that was never carved stays blank.
LEMMA StepKeepsBlank ==
  ASSUME BlankIsEmpty, Step  PROVE  BlankIsEmpty'
BY KindsOfTask DEF BlankIsEmpty, SameTask, Probed, Raced, Carved

\* Ranges are cut once and in one group, in every reachable state.
LEMMA TilingInvariant == Spec => []TInv
<1>1. Init => TInv
  <2> SUFFICES ASSUME Init  PROVE  TInv
    OBVIOUS
  <2>1. \A t \in TaskIds : task[t] = Absent
    BY DEF Init
  <2>2. Absent.count = 0
    BY DEF Absent
  <2> QED
    BY <2>1, <2>2, AbsentRecord DEF Init, TInv, BlankIsEmpty, Disjoint, InGroups, Original
<1>2. IInv /\ KInv /\ TInv /\ [Next]_vars => TInv'
  BY NextStep, StepKeepsBlank, StepKeepsDisjoint, StepKeepsInGroups DEF TInv
<1> QED
  BY <1>1, <1>2, InductiveInvariant, KeyspaceInvariant, PTL DEF Spec

(***************************************************************************)
(* Part 4: the theorems.                                                   *)
(***************************************************************************)

\* The queue, the tasks and the bookkeeping of job.cpp stay well typed: no handler
\* applies an event the transition table refuses.
THEOREM TypeCorrect == Spec => []TypeOK
BY InductiveInvariant, PTL DEF IInv

\* queue_ holds the Queued tasks, each once, whatever releases, expiries, probes
\* and votes push and erase.
THEOREM QueueCorrect == Spec => []QueueHoldsExactlyTheQueued
<1>1. IInv /\ Stray = {} => QueueHoldsExactlyTheQueued
  BY DEF IInv, Enumerates, Waiting, QueueHoldsExactlyTheQueued
<1> QED
  BY <1>1, InductiveInvariant, NothingAstray, PTL

\* No handler leaves a task in Validating, NeedsReplica or Rejected.
THEOREM NeverWedged == Spec => []NoWedge
<1>1. IInv => NoWedge
  BY DEF IInv, Lifecycle, Settled, NoWedge
<1> QED
  BY <1>1, InductiveInvariant, PTL

\* Task::holder is set exactly while the task is leased.
THEOREM HolderCorrect == Spec => []HolderIffLeased
<1>1. IInv => HolderIffLeased
  BY DEF IInv, Lifecycle, Settled, HolderIffLeased
<1> QED
  BY <1>1, InductiveInvariant, PTL

\* Both together: what a task is between two handlers, whatever happened to it.
THEOREM LifecycleCorrect == Spec => []LifecycleAtRest
<1>1. NoWedge /\ HolderIffLeased => LifecycleAtRest
  BY DEF LifecycleAtRest
<1> QED
  BY <1>1, NeverWedged, HolderCorrect, PTL

\* A finished task between two handlers was accepted or cancelled.
LEMMA TerminalStates ==
  ASSUME IInv, NEW t \in TaskIds
  PROVE  IsTerminal(task[t].state) <=> task[t].state \in {"Accepted", "Cancelled"}
BY TaskFacts DEF Settled, IsTerminal

\* In any one state, a complete job has an accepted answer for every unit.
LEMMA CompleteIsComputed ==
  ASSUME IInv, KInv  PROVE  CompleteMeansComputed
<1> SUFFICES ASSUME JobComplete, NEW u \in 0 .. (TotalUnits - 1)
             PROVE  \E t \in Listed : task[t].state = "Accepted" /\ u \in Units(t)
  BY DEF CompleteMeansComputed
<1>1. u \in 0 .. (nextUnit - 1)
  BY JobManagerAssumption DEF JobComplete, KeyspaceExhausted, IInv, TypeOK
<1>2. PICK t \in Listed : u \in Units(t)
  BY <1>1 DEF KInv, Covered
<1>3. t \in TaskIds /\ task[t].state \in {"Accepted", "Cancelled"}
  BY <1>2, TerminalStates DEF JobComplete, Listed
<1>4. CASE task[t].state = "Cancelled"
  <2>1. PICK w \in Listed : /\ task[w].state = "Accepted"
                            /\ task[w].start = task[t].start
                            /\ task[w].count = task[t].count
    BY <1>3, <1>4 DEF KInv, CancelledWon
  <2> QED
    BY <1>2, <2>1 DEF Units
<1> QED
  BY <1>2, <1>3, <1>4

\* A cancelled task counts as done, and yet no job completes with a unit nobody
\* answered.
THEOREM CompletionCorrect == Spec => []CompleteMeansComputed
BY CompleteIsComputed, InductiveInvariant, KeyspaceInvariant, PTL

\* In any one state: a carved unit lies in exactly one original, any other in none.
LEMMA OriginalsTile ==
  ASSUME IInv, KInv, TInv  PROVE  OriginalsTileKeyspace
<1> SUFFICES ASSUME NEW u \in 0 .. (TotalUnits - 1)
             PROVE  Cardinality({t \in Listed : task[t].replicaOf = Nil /\ u \in Units(t)})
                      = IF u < nextUnit THEN 1 ELSE 0
  BY DEF OriginalsTileKeyspace
<1> DEFINE O == {t \in Listed : task[t].replicaOf = Nil /\ u \in Units(t)}
<1>1. u \in Nat /\ nextUnit \in Nat
  BY JobManagerAssumption DEF IInv, TypeOK
<1>2. \A t \in TaskIds : task[t].start \in Nat /\ task[t].count \in Nat
  BY TaskFacts, TaskRecordFields
<1>3. CASE u < nextUnit
  <2>1. PICK t \in Listed : u \in Units(t)
    BY <1>1, <1>3 DEF KInv, Covered
  <2>2. t \in TaskIds /\ task[t].inJob /\ task[t].replicaOf \in TaskIds \cup {Nil}
    BY TaskFacts, TaskRecordFields DEF Listed
  <2>3. PICK o \in Listed : task[o].replicaOf = Nil /\ u \in Units(o)
    <3>1. CASE task[t].replicaOf = Nil
      BY <2>1, <3>1
    <3>2. CASE task[t].replicaOf # Nil
      <4> DEFINE o == task[t].replicaOf
      <4>1. o \in TaskIds
        BY <2>2, <3>2
      <4>2. /\ task[o].inJob /\ task[o].replicaOf = Nil
            /\ task[t].start = task[o].start /\ task[t].count = task[o].count
        BY <2>2, <3>2 DEF KInv, FamilyRange
      <4> QED
        BY <2>1, <4>1, <4>2 DEF Listed, Units
    <3> QED
      BY <3>1, <3>2
  <2>4. ASSUME NEW s \in O  PROVE  s = o
    <3>1. /\ s \in TaskIds /\ o \in TaskIds /\ Original(s) /\ Original(o)
          /\ u \in Units(s) /\ u \in Units(o)
      BY <2>3 DEF Listed, Original
    <3>2. s # o => \/ task[s].start + task[s].count <= task[o].start
                   \/ task[o].start + task[o].count <= task[s].start
      BY <3>1 DEF TInv, Disjoint
    <3>3. /\ task[s].start <= u /\ u < task[s].start + task[s].count
          /\ task[o].start <= u /\ u < task[o].start + task[o].count
      BY <1>1, <1>2, <3>1 DEF Units
    <3> QED
      BY <1>1, <1>2, <3>1, <3>2, <3>3
  <2>5. O = {o}
    BY <2>3, <2>4
  <2> HIDE DEF O
  <2>6. Cardinality(O) = 1
    BY <2>5, FS_Singleton
  <2> QED
    BY <1>3, <2>6 DEF O
<1>4. CASE ~(u < nextUnit)
  <2>1. ASSUME NEW s \in O  PROVE  FALSE
    <3>1. s \in TaskIds /\ task[s].inJob /\ u \in Units(s)
      BY DEF Listed
    <3>2. task[s].start + task[s].count <= nextUnit
      BY <3>1 DEF TInv, BlankIsEmpty, KInv, InKeyspace
    <3>3. u < task[s].start + task[s].count
      BY <1>1, <1>2, <3>1 DEF Units
    <3> QED
      BY <1>1, <1>2, <1>4, <3>1, <3>2, <3>3
  <2>2. O = {}
    BY <2>1
  <2> HIDE DEF O
  <2>3. Cardinality(O) = 0
    BY <2>2, FS_EmptySet
  <2> QED
    BY <1>4, <2>3 DEF O
<1> QED
  BY <1>3, <1>4

\* In any one state: a task lies in the group its first unit lies in.
LEMMA GroupsHold ==
  ASSUME IInv, TInv  PROVE  TasksStayInOneGroup
<1> SUFFICES ASSUME GroupSize # 0, NEW t \in TaskIds,
                    NEW u \in Units(t), NEW v \in Units(t)
             PROVE  u \div GroupSize = v \div GroupSize
  BY DEF TasksStayInOneGroup
<1> DEFINE s == task[t].start
           c == task[t].count
<1>1. s \in Nat /\ c \in Nat /\ GroupSize \in Nat \ {0}
  BY TaskFacts, TaskRecordFields, JobManagerAssumption
<1>2. (s % GroupSize) + c <= GroupSize /\ s % GroupSize \in Int
  <2>1. c # 0
    BY <1>1 DEF Units
  <2> QED
    BY <1>1, <2>1 DEF TInv, BlankIsEmpty, InGroups, FitsGroup
<1>3. ASSUME NEW x \in Units(t)  PROVE  x \div GroupSize = s \div GroupSize
  <2> DEFINE d == x - s
  <2>1. d \in Nat /\ d < c /\ x = s + d
    BY <1>1 DEF Units
  <2> HIDE DEF s, c, d
  <2>2. (s % GroupSize) + d < GroupSize
    BY <1>1, <1>2, <2>1
  <2> QED
    BY <1>1, <2>1, <2>2, SameQuotient
<1> QED
  BY <1>3

\* Requests of any size, probes, votes and races leave no unit out, cut none
\* twice, and mix no two groups in a task.
THEOREM CarvingCorrect == Spec => []CarvingIsExact
<1>1. IInv /\ KInv /\ TInv => CarvingIsExact
  BY OriginalsTile, GroupsHold DEF CarvingIsExact
<1> QED
  BY <1>1, InductiveInvariant, KeyspaceInvariant, TilingInvariant, PTL

\* A step leaves a live replica alone, or starts one where there is none.
LEMMA StepKeepsOneLive ==
  ASSUME IInv, OneLiveReplica, Step  PROVE  OneLiveReplica'
<1> SUFFICES ASSUME NEW r \in TaskIds, NEW s \in TaskIds,
                    task'[r].inJob, task'[s].inJob,
                    task'[r].replicaOf # Nil, task'[r].replicaOf = task'[s].replicaOf,
                    Live(r)', Live(s)'
             PROVE  r = s
  BY DEF OneLiveReplica, Listed
<1>1. ASSUME NEW u \in TaskIds, task'[u].inJob, task'[u].replicaOf # Nil, Live(u)',
             ~Raced(u)
      PROVE  u \in Listed /\ task[u].replicaOf = task'[u].replicaOf /\ Live(u)
  <2>1. ~Probed(u) /\ ~Carved(u)
    BY <1>1 DEF Probed, Carved
  <2>2. SameTask(task'[u], task[u])
    BY <1>1, <2>1, KindsOfTask
  <2>3. Live(u)
    <3>1. task'[u].state \in {"Queued", "Leased"}
      BY <1>1 DEF Live, IsTerminal, Step, IInv, Lifecycle, Settled
    <3>2. Kept(u)
      BY <1>1, <2>1, <3>1 DEF Step, Quiet, Carving, Accepting, Beaten
    <3>3. task[u].state \notin {"Absent", "Accepted", "Cancelled"}
      BY <3>1, <3>2 DEF Kept
    <3> QED
      BY <3>3, TaskFacts DEF Live, IsTerminal, Settled
  <2> QED
    BY <1>1, <2>2, <2>3 DEF SameTask, Listed
<1>2. CASE Raced(r) /\ Raced(s)
  BY <1>2 DEF Raced
<1>3. ASSUME NEW u \in TaskIds, NEW v \in TaskIds, Raced(u), ~Raced(v),
             task'[v].inJob, task'[v].replicaOf # Nil, Live(v)',
             task'[u].replicaOf = task'[v].replicaOf
      PROVE  FALSE
  <2>1. PICK t \in Listed : /\ task'[u].replicaOf = t
                            /\ \A x \in Listed : task[x].replicaOf = t => ~Live(x)
    BY <1>3 DEF Raced
  <2> QED
    BY <1>1, <1>3, <2>1
<1>4. CASE ~Raced(r) /\ ~Raced(s)
  BY <1>1, <1>4 DEF OneLiveReplica
<1> QED
  BY <1>2, <1>3, <1>4

\* However leases of the original and of the replica run out and are granted
\* again, an original is raced by one replica at a time.
THEOREM OneRaceAtATime == Spec => []OneLiveReplica
<1>1. Init => OneLiveReplica
  BY AbsentRecord DEF Init, OneLiveReplica, Listed
<1>2. IInv /\ OneLiveReplica /\ [Next]_vars => OneLiveReplica'
  BY NextStep, StepKeepsOneLive
<1> QED
  BY <1>1, <1>2, InductiveInvariant, PTL DEF Spec

\* No step takes completion back: nothing is carved from an exhausted keyspace,
\* nothing is raced when nothing is leased, and outcomes stand.
LEMMA CompleteStays ==
  ASSUME IInv, Step, JobComplete  PROVE  JobComplete'
<1>1. /\ nextUnit >= TotalUnits /\ nextUnit \in Nat /\ TotalUnits \in Nat
      /\ \A t \in Listed : task[t].state \in {"Accepted", "Cancelled"}
  BY TerminalStates, JobManagerAssumption
  DEF JobComplete, KeyspaceExhausted, Listed, IInv, TypeOK
<1>2. ~Carving
  BY <1>1 DEF Carving, Carved
<1>3. ASSUME NEW t \in TaskIds, task'[t].inJob
      PROVE  task'[t].state \in {"Accepted", "Cancelled"}
  <2>1. CASE Quiet
    <3>1. ~Raced(t)
      BY <1>1 DEF Raced
    <3>2. Kept(t)
      BY <1>3, <2>1, <3>1 DEF Quiet, Probed
    <3> QED
      BY <1>1, <1>3, <3>2 DEF Kept, SameTask, Listed
  <2>2. CASE Accepting
    BY <1>1, <1>3, <2>2 DEF Accepting, Kept, Beaten, SameTask, Listed
  <2> QED
    BY <1>2, <2>1, <2>2 DEF Step
<1>4. nextUnit' = nextUnit
  BY <1>2 DEF Step, Quiet, Accepting
<1> QED
  BY <1>1, <1>3, <1>4 DEF JobComplete, KeyspaceExhausted, Listed, IsTerminal

\* --exit-when-complete and the stall detector may act on completion.
THEOREM CompletionFinal == Spec => CompletionIsFinal
<1>1. IInv /\ [Next]_vars => [JobComplete => JobComplete']_vars
  BY NextStep, CompleteStays
<1> QED
  BY <1>1, InductiveInvariant, PTL DEF Spec, CompletionIsFinal

\* A step that accepts nothing leaves the answered units as they are.
LEMMA SameDoneUnits ==
  ASSUME \A t \in TaskIds : /\ task[t].state = "Accepted" <=> task'[t].state = "Accepted"
                            /\ task[t].state = "Accepted" => SameTask(task'[t], task[t])
  PROVE  DoneUnits' = DoneUnits
<1> DEFINE Done(u)  == \E t \in TaskIds : task[t].state = "Accepted" /\ u \in Units(t)
<1>1. \A u : Done(u) <=> Done(u)'
  BY DEF Units, SameTask
<1> HIDE DEF Done
<1>2. /\ DoneUnits = {u \in 0 .. (TotalUnits - 1) : Done(u)}
      /\ DoneUnits' = {u \in 0 .. (TotalUnits - 1) : Done(u)'}
  BY DEF DoneUnits, Done
<1> QED
  BY <1>1, <1>2

\* A quiet step leaves the abstract job as it is.
LEMMA QuietStutters ==
  ASSUME IInv, IInv', Quiet, JobComplete => JobComplete'
  PROVE  /\ nextUnit' = nextUnit /\ DoneUnits' = DoneUnits
         /\ JobComplete' <=> JobComplete
<1>1. \A t \in TaskIds :
        /\ task[t].state = "Accepted" <=> task'[t].state = "Accepted"
        /\ task[t].state = "Accepted" => SameTask(task'[t], task[t])
  BY BlankFacts DEF Quiet, Kept, Probed, Raced
<1>2. ASSUME JobComplete'  PROVE  JobComplete
  <2>1. nextUnit >= TotalUnits
    BY <1>2 DEF JobComplete, KeyspaceExhausted, Quiet
  <2>2. ASSUME NEW t \in TaskIds, task[t].inJob  PROVE  IsTerminal(task[t].state)
    <3>1. Kept(t)
      BY <2>2, BlankFacts DEF Quiet, Probed, Raced
    <3>2. task'[t].state \in {"Accepted", "Cancelled"}
      <4>1. IsTerminal(task'[t].state)
        BY <1>2, <2>2, <3>1 DEF JobComplete, Listed, Kept, SameTask
      <4>2. Settled(task'[t])
        BY DEF IInv, Lifecycle
      <4> QED
        BY <4>1, <4>2 DEF Settled, IsTerminal
    <3> QED
      BY <3>1, <3>2 DEF Kept, IsTerminal
  <2> QED
    BY <2>1, <2>2 DEF JobComplete, KeyspaceExhausted, Listed
<1> QED
  BY <1>1, <1>2, SameDoneUnits DEF Quiet

\* A carving step is a carving step of the abstract job.
LEMMA CarvingCarves ==
  ASSUME IInv, IInv', Carving
  PROVE  \E n \in 1 .. (TotalUnits - nextUnit) : Job!Carve(n)
<1>1. PICK c \in TaskIds : Carved(c) /\ \A u \in TaskIds \ {c} : Kept(u) \/ Probed(u)
  BY DEF Carving
<1>2. \A t \in TaskIds :
        /\ task[t].state = "Accepted" <=> task'[t].state = "Accepted"
        /\ task[t].state = "Accepted" => SameTask(task'[t], task[t])
  BY <1>1, BlankFacts DEF Carved, Kept, Probed
<1>3. DoneUnits' = DoneUnits
  BY <1>2, SameDoneUnits
<1>4. ~JobComplete
  BY <1>1, JobManagerAssumption DEF Carved, JobComplete, KeyspaceExhausted, IInv, TypeOK
<1>5. ~JobComplete'
  BY <1>1 DEF Carved, JobComplete, Listed, IsTerminal
<1>6. /\ task'[c].count \in 1 .. (TotalUnits - nextUnit)
      /\ nextUnit' = nextUnit + task'[c].count
  BY <1>1 DEF Carved
<1>7. JobComplete' = JobComplete
  BY <1>4, <1>5 DEF JobComplete
<1> QED
  BY <1>3, <1>6, <1>7 DEF Job!Carve

\* An accepting step finishes, in the abstract job, the range of its task.
LEMMA AcceptingFinishes ==
  ASSUME IInv, KInv, CompleteMeansComputed', Accepting,
         JobComplete => JobComplete'
  PROVE  \E lo, hi \in Job!Keyspace : Job!Finish(lo, hi)
<1>1. PICK t \in TaskIds :
        /\ task[t].state = "Leased" /\ task'[t].state = "Accepted"
        /\ SameTask(task'[t], task[t])
        /\ \A u \in TaskIds \ {t} : Kept(u) \/ Beaten(u, t)
  BY DEF Accepting
<1> DEFINE lo == task[t].start
           hi == task[t].start + task[t].count - 1
           Done(u)  == \E s \in TaskIds : task[s].state = "Accepted" /\ u \in Units(s)
<1>2. /\ lo \in Nat /\ hi \in Int /\ lo <= hi /\ hi < nextUnit
      /\ nextUnit \in 0 .. TotalUnits /\ TotalUnits \in Nat
  <2>1. task[t].start \in Nat /\ task[t].count \in Nat
    BY TaskFacts, TaskRecordFields
  <2>2. task[t].count >= 1 /\ task[t].start + task[t].count <= nextUnit
    BY <1>1 DEF KInv, InKeyspace
  <2> QED
    BY <2>1, <2>2, JobManagerAssumption DEF IInv, TypeOK
<1>3. lo \in Job!Keyspace /\ hi \in Job!Keyspace
  BY <1>2 DEF Job!Keyspace
<1>4. \A u : Done(u)' <=> Done(u) \/ u \in lo .. hi
  <2>1. \A u : u \in Units(t)' <=> u \in lo .. hi
    BY <1>1 DEF Units, SameTask
  <2>2. \A s \in TaskIds \ {t} :
          /\ task'[s].state = "Accepted" <=> task[s].state = "Accepted"
          /\ Units(s)' = Units(s)
    BY <1>1 DEF Kept, Beaten, SameTask, Units
  <2>3. task[t].state # "Accepted"
    BY <1>1
  <2> HIDE DEF lo, hi
  <2> QED
    BY <1>1, <2>1, <2>2, <2>3
<1> HIDE DEF Done, lo, hi
<1>5. DoneUnits' = DoneUnits \cup lo .. hi
  <2>1. /\ DoneUnits = {u \in 0 .. (TotalUnits - 1) : Done(u)}
        /\ DoneUnits' = {u \in 0 .. (TotalUnits - 1) : Done(u)'}
    BY DEF DoneUnits, Done
  <2>2. lo .. hi \subseteq 0 .. (TotalUnits - 1)
    BY <1>2
  <2> QED
    BY <1>4, <2>1, <2>2
<1>6. JobComplete' => DoneUnits' = Job!Keyspace
  BY DEF CompleteMeansComputed, DoneUnits, Listed, Job!Keyspace
<1>7. JobComplete' \in BOOLEAN
  BY DEF JobComplete
<1> QED
  BY <1>2, <1>3, <1>5, <1>6, <1>7 DEF Job!Finish, Accepting

\* What the coordinator does with leases, replicas, probes and votes is, to whoever
\* submitted the job, carving, accepting for good and one truthful completion.
THEOREM JobImplemented == Spec => ImplementsKeyspaceJob
<1>1. Init => Job!Init
  <2> SUFFICES ASSUME Init  PROVE  Job!Init
    OBVIOUS
  <2>1. \A t \in TaskIds : task[t].state = "Absent"
    BY AbsentRecord DEF Init
  <2>2. DoneUnits = {}
    BY <2>1 DEF DoneUnits
  <2>3. JobComplete = FALSE
    BY JobManagerAssumption DEF Init, JobComplete, KeyspaceExhausted
  <2> QED
    BY <2>2, <2>3 DEF Init, Job!Init
<1>2. IInv /\ KInv /\ CompleteMeansComputed' /\ [Next]_vars
        => [Job!Next]_<<nextUnit, DoneUnits, JobComplete>>
  <2> SUFFICES ASSUME IInv, KInv, CompleteMeansComputed', [Next]_vars
               PROVE  [Job!Next]_<<nextUnit, DoneUnits, JobComplete>>
    OBVIOUS
  <2>1. Step /\ IInv'
    BY NextStep DEF Step
  <2>2. JobComplete => JobComplete'
    BY <2>1, CompleteStays
  <2>3. CASE Quiet
    <3>1. /\ nextUnit' = nextUnit /\ DoneUnits' = DoneUnits
          /\ JobComplete' <=> JobComplete
      BY <2>1, <2>2, <2>3, QuietStutters
    <3>2. JobComplete' = JobComplete
      BY <3>1 DEF JobComplete
    <3> QED
      BY <3>1, <3>2
  <2>4. CASE Carving
    BY <2>1, <2>4, CarvingCarves DEF Job!Next
  <2>5. CASE Accepting
    BY <2>1, <2>2, <2>5, AcceptingFinishes DEF Job!Next
  <2> QED
    BY <2>1, <2>3, <2>4, <2>5 DEF Step
<1> QED
  BY <1>1, <1>2, InductiveInvariant, KeyspaceInvariant, CompletionCorrect, PTL
  DEF Spec, ImplementsKeyspaceJob, Job!Spec
=============================================================================
