----------------------------- MODULE JobManager -----------------------------
(***************************************************************************)
(* The task queue of the coordinator (src/coordinator/job.cpp), driven by  *)
(* the session handlers and the sweep timer that call it (session.cpp,     *)
(* net.cpp).  The coordinator is one event loop: a frame handler and a     *)
(* tick of the timer each run to completion, so each is one action here.   *)
(*                                                                         *)
(* One job is modelled.  Its keyspace is 0 .. TotalUnits-1, carved into    *)
(* tasks on demand; a task is a range, leased to one worker at a time,     *)
(* answered by one or more workers, and finally accepted or cancelled.     *)
(*                                                                         *)
(* Time.  A lease deadline is kept as the number of ticks left of it, so   *)
(* "now >= lease_expires_at_ms" is lease = 0; the field means something    *)
(* only while the task is leased and is 0 otherwise.  MaxTasks is the one  *)
(* bound of the model: the number of task ids it may hand out.             *)
(***************************************************************************)
EXTENDS Erasing, SequencesExt, TaskState, QuorumDecide

CONSTANTS
  Workers,       \* identities the coordinator has handshaked
  Liars,         \* the workers that may return any answer
  NoWorker,      \* the nil WorkerId
  Answers,       \* checksums a result can carry
  Truth,         \* the one an honest worker computes
  NoAnswer,      \* absence of an answer
  TotalUnits,    \* Job::total_units
  Sizes,         \* the sizes ComputeTaskSize may ask for
  GroupSize,     \* Job::units_per_group, 0 for none
  LeaseTicks,    \* lease_ms, in ticks
  Agreement,     \* the values RequiredAgreementFor may return
  Speculation,   \* Session::speculation_
  SpotChecks,    \* Session::spot_checks_ is set
  MaxTasks       \* bound: task ids handed out

ASSUME JobManagerAssumption ==
  /\ Liars \subseteq Workers
  /\ NoWorker \notin Workers
  /\ Truth \in Answers
  /\ NoAnswer \notin Answers
  /\ TotalUnits \in Nat \ {0}
  /\ Sizes \subseteq Nat \ {0}
  /\ GroupSize \in Nat
  /\ LeaseTicks \in Nat \ {0}
  /\ Agreement \subseteq Nat \ {0}
  /\ Speculation \in BOOLEAN
  /\ SpotChecks \in BOOLEAN
  /\ MaxTasks \in Nat

VARIABLES
  task,        \* tasks_: the record of every task id
  queue,       \* queue_: the ids waiting to be granted, oldest first
  nextId,      \* next_id_
  nextUnit,    \* Job::next_unit, the carving cursor
  known,       \* SpotCheckPool::known_
  expected,    \* SpotCheckPool::issued_: the answer a probe must return
  verdict,     \* what the acceptance of a task composited and credited
  charged,     \* workers ReputationTable::RecordRejected was called for
  dirtyTasks,  \* dirty_tasks_
  dirtyJob     \* the job is in dirty_jobs_

poolVars  == <<known, expected>>
judgeVars == <<known, expected, verdict, charged>>
vars == <<task, queue, nextId, nextUnit, known, expected, verdict, charged,
          dirtyTasks, dirtyJob>>

-----------------------------------------------------------------------------
(* Tasks.                                                                  *)

TaskIds == 1 .. MaxTasks
Nil     == 0                 \* the nil TaskId, in replicaOf

\* struct Task.  inJob: the id is listed in Job::tasks.
TaskRecord ==
  [state     : TaskStates \cup {"Absent"},
   start     : Nat,
   count     : Nat,
   holder    : Workers \cup {NoWorker},
   lease     : 0 .. LeaseTicks,
   replicaOf : TaskIds \cup {Nil},
   inJob     : BOOLEAN,
   prior     : SUBSET Workers,
   subs      : Seq([worker : Workers, answer : Answers])]

\* An id that has not been handed out.
Absent == [state |-> "Absent", start |-> 0, count |-> 0, holder |-> NoWorker,
           lease |-> 0, replicaOf |-> Nil, inJob |-> FALSE, prior |-> {},
           subs |-> <<>>]

\* A task as the three issuing paths create it: leased at once.
Issued(w, start, count, original, listed) ==
  [state |-> "Leased", start |-> start, count |-> count, holder |-> w,
   lease |-> LeaseTicks, replicaOf |-> original, inJob |-> listed,
   prior |-> {}, subs |-> <<>>]

Granted(r, w)   == [r EXCEPT !.state = Advance(@, "Grant"),
                             !.holder = w, !.lease = LeaseTicks]

Vacated(r, ev)  == [r EXCEPT !.state = Advance(@, ev),
                             !.holder = NoWorker, !.lease = 0]

Units(t)   == task[t].start .. (task[t].start + task[t].count - 1)
Listed     == {t \in TaskIds : task[t].inJob}
Live(t)    == task[t].state # "Absent" /\ ~IsTerminal(task[t].state)
HeldBy(w)  == {t \in TaskIds : task[t].state = "Leased" /\ task[t].holder = w}

\* JobManager::CheckLease, invariant 5 of the protocol.
CheckLease(w, t) == task[t].state = "Leased" /\ task[t].holder = w

\* Mutant of CheckReplicaAssignment: only the current holder is barred.
CheckHolderAssignment(w, t) == w # task[t].holder

\* protocol::CheckReplicaAssignment, invariant 6.
CheckReplicaAssignment(w, t) == w \notin task[t].prior

KeyspaceExhausted == nextUnit >= TotalUnits

\* Mutant of JobComplete: the queue is looked at in place of the tasks.
JobCompleteQueueEmpty == KeyspaceExhausted /\ queue = <<>>

JobComplete == /\ KeyspaceExhausted
               /\ \A t \in Listed : IsTerminal(task[t].state)

\* Units of accepted originals: the numerator of CompletionFraction.
CompletedUnits ==
  LET Done == {t \in Listed : task[t].state = "Accepted" /\ task[t].replicaOf = Nil}
  IN  MapThenSumSet(LAMBDA t : task[t].count, Done)

\* CompletionFraction(job) >= 0.95, the default threshold of IssueSpeculative.
NearlyDone == 100 * CompletedUnits >= 95 * TotalUnits

-----------------------------------------------------------------------------
(* Granting: one turn of the loop in Session::OnLeaseRequest.  A request   *)
(* for several tasks is as many consecutive turns.                         *)

Grantable(w, i) == /\ CheckReplicaAssignment(w, queue[i])
                   /\ Legal(task[queue[i]].state, "Grant")

\* The queue entry Grant picks for w.  With one job the cache-affinity
\* preference names the head of the queue or nothing, so the scan is in order.
FirstGrantable(w, i) == /\ i \in DOMAIN queue
                        /\ Grantable(w, i)
                        /\ \A j \in 1 .. (i - 1) : ~Grantable(w, j)

NothingQueued(w) == \A i \in DOMAIN queue : ~Grantable(w, i)

\* queue_.erase(it) once the scan has settled on entry i.
Dequeue(i) == RemoveAt(queue, i)

GrantQueued(w) ==
  \E i \in DOMAIN queue :
    /\ FirstGrantable(w, i)
    /\ task' = [task EXCEPT ![queue[i]] = Granted(@, w)]
    /\ queue' = Dequeue(i)
    /\ dirtyTasks' = dirtyTasks \cup {queue[i]}
    /\ UNCHANGED <<nextId, nextUnit, judgeVars, dirtyJob>>

\* The size of a fresh task: what was asked for, cut at the end of the
\* keyspace and at the next group boundary.
CarveSize(units) ==
  LET Least(a, b) == IF a <= b THEN a ELSE b
      capped == Least(units, TotalUnits - nextUnit)
  IN  IF GroupSize = 0 THEN capped
      ELSE Least(capped, GroupSize - (nextUnit % GroupSize))

CarveFresh(w) ==
  \E units \in Sizes, count \in 1 .. TotalUnits :
    /\ NothingQueued(w)
    /\ ~KeyspaceExhausted
    /\ nextId \in TaskIds
    /\ count = CarveSize(units)
    /\ task' = [task EXCEPT ![nextId] = Issued(w, nextUnit, count, Nil, TRUE)]
    /\ nextId' = nextId + 1
    /\ nextUnit' = nextUnit + count
    /\ dirtyTasks' = dirtyTasks \cup {nextId}
    /\ dirtyJob' = TRUE
    /\ UNCHANGED <<queue, judgeVars>>

\* Mutant of Raceable: an original may be raced by any number of replicas.
RaceableAgain(w, t) ==
  /\ t \in Listed
  /\ task[t].state = "Leased"
  /\ task[t].replicaOf = Nil
  /\ task[t].holder # w
  /\ CheckReplicaAssignment(w, t)

\* IssueSpeculative: race the holder of an outstanding original.
Raceable(w, t) ==
  /\ t \in Listed
  /\ task[t].state = "Leased"
  /\ task[t].replicaOf = Nil
  /\ task[t].holder # w
  /\ CheckReplicaAssignment(w, t)
  /\ \A r \in Listed : task[r].replicaOf = t => ~Live(r)

IssueSpeculative(w) ==
  \E t \in TaskIds :
    /\ Speculation
    /\ NothingQueued(w)
    /\ KeyspaceExhausted
    /\ NearlyDone
    /\ Raceable(w, t)
    /\ nextId \in TaskIds
    /\ task' = [task EXCEPT
         ![nextId] = Issued(w, task[t].start, task[t].count, t, TRUE)]
    /\ nextId' = nextId + 1
    /\ dirtyTasks' = dirtyTasks \cup {nextId}
    /\ UNCHANGED <<queue, nextUnit, judgeVars, dirtyJob>>

-----------------------------------------------------------------------------
(* Spot-checks: the task Grant produced is handed back and a range whose   *)
(* answer is known is leased in its place (IssueKnownRange, then Requeue,  *)
(* then MarkIssued).  The probe is not listed in the job.                  *)

\* Mutant of Probe: the probe joins the job's tasks.
ProbeListed(w, k) == Issued(w, k.start, k.count, Nil, TRUE)

Probe(w, k) == Issued(w, k.start, k.count, Nil, FALSE)

\* The displaced task came from the queue: it goes to the back.
SpotCheckQueued(w) ==
  \E i \in DOMAIN queue, k \in known :
    /\ SpotChecks
    /\ FirstGrantable(w, i)
    /\ nextId \in TaskIds
    /\ task' = [task EXCEPT
         ![queue[i]] = Vacated(Granted(@, w), "Release"),
         ![nextId]   = Probe(w, k)]
    /\ queue' = Append(Dequeue(i), queue[i])
    /\ nextId' = nextId + 1
    /\ expected' = [expected EXCEPT ![nextId] = k.answer]
    /\ dirtyTasks' = dirtyTasks \cup {queue[i], nextId}
    /\ UNCHANGED <<nextUnit, known, verdict, charged, dirtyJob>>

\* The displaced task was carved for the occasion: the cursor has moved.
SpotCheckFresh(w) ==
  \E units \in Sizes, count \in 1 .. TotalUnits, k \in known :
    /\ SpotChecks
    /\ NothingQueued(w)
    /\ ~KeyspaceExhausted
    /\ nextId \in TaskIds /\ nextId + 1 \in TaskIds
    /\ count = CarveSize(units)
    /\ task' = [task EXCEPT
         ![nextId]     = Vacated(Issued(w, nextUnit, count, Nil, TRUE), "Release"),
         ![nextId + 1] = Probe(w, k)]
    /\ queue' = Append(queue, nextId)
    /\ nextId' = nextId + 2
    /\ nextUnit' = nextUnit + count
    /\ expected' = [expected EXCEPT ![nextId + 1] = k.answer]
    /\ dirtyTasks' = dirtyTasks \cup {nextId, nextId + 1}
    /\ dirtyJob' = TRUE
    /\ UNCHANGED <<known, verdict, charged>>

-----------------------------------------------------------------------------
(* Leases: renewal, voluntary release, departure, expiry.                  *)

\* OnProgress with request_renew; RecordPartial renews in the same way.
Renew(w, t) ==
  /\ CheckLease(w, t)
  /\ task' = [task EXCEPT ![t].state = Advance(@, "Renew"), ![t].lease = LeaseTicks]
  /\ dirtyTasks' = dirtyTasks \cup {t}
  /\ UNCHANGED <<queue, nextId, nextUnit, judgeVars, dirtyJob>>

\* Mutant of Requeue: the tasks change state but join no queue.
RequeueWithoutPush(S, ev) ==
  /\ task' = [t \in TaskIds |-> IF t \in S THEN Vacated(task[t], ev) ELSE task[t]]
  /\ dirtyTasks' = dirtyTasks \cup S
  /\ UNCHANGED <<queue, nextId, nextUnit, judgeVars, dirtyJob>>

\* Requeue every member of S.  A pass over tasks_ meets them in the order of a
\* hash table, so the order in which they join the queue is arbitrary.
Requeue(S, ev) ==
  /\ task' = [t \in TaskIds |-> IF t \in S THEN Vacated(task[t], ev) ELSE task[t]]
  /\ \E order \in SetToSeqs(S) : queue' = queue \o order
  /\ dirtyTasks' = dirtyTasks \cup S
  /\ UNCHANGED <<nextId, nextUnit, judgeVars, dirtyJob>>

OnRelease(w, t) == CheckLease(w, t) /\ Requeue({t}, "Release")

\* Mutant of ChecksumMismatch, the order session.cpp:1162-1168 says it once had:
\* the task is submitted first, and the requeue is then refused.
MismatchAfterSubmit(w, t) ==
  /\ CheckLease(w, t)
  /\ task' = [task EXCEPT ![t] = Vacated(@, "Submit")]
  /\ dirtyTasks' = dirtyTasks \cup {t}
  /\ UNCHANGED <<queue, nextId, nextUnit, judgeVars, dirtyJob>>

\* OnResultHeader, a payload whose checksum does not match: handed back before
\* Submit, and w is not recorded as having computed the task.
ChecksumMismatch(w, t) == CheckLease(w, t) /\ Requeue({t}, "Release")

\* OnDisconnect, OnGoodbye, and a worker the sweep declares lost.
Depart(w) == HeldBy(w) # {} /\ Requeue(HeldBy(w), "Release")

Expired == {t \in TaskIds : task[t].state = "Leased" /\ task[t].lease = 0}

\* The timer fires whether or not a lease has run out.
SweepExpiredLeases == Requeue(Expired, "LeaseExpired")

Tick ==
  /\ \E t \in TaskIds : task[t].lease > 0
  /\ task' = [t \in TaskIds |->
       [task[t] EXCEPT !.lease = IF @ > 0 THEN @ - 1 ELSE 0]]
  /\ UNCHANGED <<queue, nextId, nextUnit, judgeVars, dirtyTasks, dirtyJob>>

-----------------------------------------------------------------------------
(* Results: Session::OnResultHeader on a complete, intact payload.         *)

\* What worker w may answer.
AnswersOf(w) == IF w \in Liars THEN Answers ELSE {Truth}

\* The record after Submit and RecordSubmission.
Submitted(w, t, a) ==
  [Vacated(task[t], "Submit") EXCEPT
     !.prior = @ \cup {w}, !.subs = Append(@, [worker |-> w, answer |-> a])]

\* The worker charged because t was a probe and a is not the known answer.
ProbeFailure(w, t, a) == IF expected[t] \in {NoAnswer, a} THEN {} ELSE {w}

Judged(t) == expected' = [expected EXCEPT ![t] = NoAnswer]

\* Validating -> NeedsReplica -> Queued.
Reopened(r) ==
  [r EXCEPT !.state = Advance(Advance(@, "Disagreement"), "IssueReplica")]

RequestReplica(w, t, a) ==
  LET r == Submitted(w, t, a)
  IN  /\ CheckLease(w, t)
      /\ \E required \in Agreement : Decide(r.subs, required) = "NeedMoreReplicas"
      /\ task' = [task EXCEPT ![t] = Reopened(r)]
      /\ queue' = Append(queue, t)
      /\ charged' = charged \cup ProbeFailure(w, t, a)
      /\ Judged(t)
      /\ dirtyTasks' = dirtyTasks \cup {t}
      /\ UNCHANGED <<nextId, nextUnit, known, verdict, dirtyJob>>

\* No majority at the cap: the answers are dropped, the exclusions stay.
RestartValidation(w, t, a) ==
  LET r == Submitted(w, t, a)
  IN  /\ CheckLease(w, t)
      /\ \E required \in Agreement : Decide(r.subs, required) = "Inconclusive"
      /\ task' = [task EXCEPT ![t] = [Reopened(r) EXCEPT !.subs = <<>>]]
      /\ queue' = Append(queue, t)
      /\ charged' = charged \cup ProbeFailure(w, t, a)
      /\ Judged(t)
      /\ dirtyTasks' = dirtyTasks \cup {t}
      /\ UNCHANGED <<nextId, nextUnit, known, verdict, dirtyJob>>

\* CancelSiblingsOf: the other tasks of t's family that Cancel is legal for.
Root(t) == IF task[t].replicaOf = Nil THEN t ELSE task[t].replicaOf

\* Mutant of CancelledBy: every live task of the job is taken for a sibling.
CancelledByAnyFamily(t) ==
  {u \in Listed \ {t} : ~IsTerminal(task[u].state) /\ Legal(task[u].state, "Cancel")}

CancelledBy(t) ==
  {u \in Listed \ {t} : /\ u = Root(t) \/ task[u].replicaOf = Root(t)
                        /\ ~IsTerminal(task[u].state)
                        /\ Legal(task[u].state, "Cancel")}

\* std::erase(queue_, id) for every id of S.
Erase(S) == Erased(queue, S)

\* Mutant of Remember: an answer nobody confirmed is good enough.
RememberUnconfirmed(r, a, agreeing) ==
  LET k == [start |-> r.start, count |-> r.count, answer |-> a]
  IN  IF SpotChecks /\ \A j \in known : j.start # k.start \/ j.count # k.count
      THEN known \cup {k}
      ELSE known

\* SpotCheckPool::Remember: only an answer two workers gave, once per range.
\* The pool's cap of 256 ranges is not reached.
Remember(r, a, agreeing) ==
  LET k == [start |-> r.start, count |-> r.count, answer |-> a]
  IN  IF /\ SpotChecks
         /\ Cardinality(agreeing) >= 2
         /\ \A j \in known : j.start # k.start \/ j.count # k.count
      THEN known \cup {k}
      ELSE known

\* The payload that reaches the image and the pool is the last one to arrive.
AcceptResult(w, t, a) ==
  LET r      == Submitted(w, t, a)
      losers == CancelledBy(t)
  IN  /\ CheckLease(w, t)
      /\ \E required \in Agreement : Decide(r.subs, required) = "Accept"
      /\ task' = [u \in TaskIds |->
           IF u = t THEN [r EXCEPT !.state = Advance(@, "Accept"), !.subs = <<>>]
           ELSE IF u \in losers THEN Vacated(task[u], "Cancel")
           ELSE task[u]]
      /\ queue' = Erase(losers)
      /\ verdict' = [verdict EXCEPT
           ![t] = [from |-> w, answer |-> a, agreeing |-> Agreeing(r.subs)]]
      /\ known' = Remember(r, a, Agreeing(r.subs))
      /\ charged' = charged \cup Dissenting(r.subs) \cup ProbeFailure(w, t, a)
      /\ Judged(t)
      /\ dirtyTasks' = dirtyTasks \cup {t} \cup losers
      /\ UNCHANGED <<nextId, nextUnit, dirtyJob>>

-----------------------------------------------------------------------------
(* Specification.                                                          *)

NoVerdict == [from |-> NoWorker, answer |-> NoAnswer, agreeing |-> {}]

\* After CreateJob: nothing is carved yet.
Init ==
  /\ task = [t \in TaskIds |-> Absent]
  /\ queue = <<>>
  /\ nextId = 1
  /\ nextUnit = 0
  /\ known = {}
  /\ expected = [t \in TaskIds |-> NoAnswer]
  /\ verdict = [t \in TaskIds |-> NoVerdict]
  /\ charged = {}
  /\ dirtyTasks = {}
  /\ dirtyJob = TRUE

OnLeaseRequest(w) ==
  \/ GrantQueued(w)
  \/ CarveFresh(w)
  \/ IssueSpeculative(w)
  \/ SpotCheckQueued(w)
  \/ SpotCheckFresh(w)

OnResultHeader(w, t, a) ==
  \/ RequestReplica(w, t, a)
  \/ RestartValidation(w, t, a)
  \/ AcceptResult(w, t, a)

Next ==
  \/ \E w \in Workers : OnLeaseRequest(w) \/ Depart(w)
  \/ \E w \in Workers, t \in TaskIds :
       Renew(w, t) \/ OnRelease(w, t) \/ ChecksumMismatch(w, t)
  \/ \E w \in Workers, t \in TaskIds : \E a \in AnswersOf(w) :
       OnResultHeader(w, t, a)
  \/ SweepExpiredLeases
  \/ Tick

Spec == Init /\ [][Next]_vars

-----------------------------------------------------------------------------
(* Fairness.  The sweep and the clock never stop, a connected worker keeps *)
(* asking for work, and a worker that is given a task again and again      *)
(* delivers a result for one of its leases in the end (strong: a lease may *)
(* run out each time before that).  Nothing obliges a worker to renew, to  *)
(* release, to corrupt a payload or to leave.                              *)

Fairness ==
  /\ WF_vars(SweepExpiredLeases)
  /\ WF_vars(Tick)
  /\ \A w \in Workers : WF_vars(OnLeaseRequest(w))
  /\ \A w \in Workers : SF_vars(\E t \in TaskIds : \E a \in AnswersOf(w) :
                                  OnResultHeader(w, t, a))

FairSpec == Spec /\ Fairness

-----------------------------------------------------------------------------
(* Properties.                                                             *)

\* The state of the queue is well typed, with no result of an illegal
\* transition (Advance never answers Illegal to an action that is taken).
TypeOK ==
  /\ task \in [TaskIds -> TaskRecord]
  /\ queue \in Seq(TaskIds)
  /\ nextId \in 1 .. (MaxTasks + 1)
  /\ nextUnit \in 0 .. TotalUnits
  /\ known \subseteq [start : Nat, count : Nat, answer : Answers]
  /\ expected \in [TaskIds -> Answers \cup {NoAnswer}]
  /\ verdict \in [TaskIds -> [from : Workers \cup {NoWorker},
                              answer : Answers \cup {NoAnswer},
                              agreeing : SUBSET Workers]]
  /\ charged \subseteq Workers
  /\ dirtyTasks \subseteq TaskIds
  /\ dirtyJob \in BOOLEAN

\* queue_ holds exactly the Queued tasks, each once: five paths push an id and
\* two erase one, a missing push loses the task ("lost work that looks fine in
\* a dump", tests/unit/test_store.cpp:104-106) and a double push grants it twice.
QueueHoldsExactlyTheQueued ==
  /\ \A t \in TaskIds : task[t].state = "Queued" <=> t \in ToSet(queue)
  /\ \A i, j \in DOMAIN queue : queue[i] = queue[j] => i = j

\* Between two handlers no task is left in Validating or NeedsReplica, where no
\* lease can run out to rescue it: the wedge session.cpp:1162-1168 describes.
NoWedge ==
  \A t \in TaskIds :
    task[t].state \in {"Absent", "Queued", "Leased", "Accepted", "Cancelled"}

\* A task has a holder exactly while it is leased ("Nil unless state ==
\* Leased", job.hpp:43); a holder left behind would be told to stop, or be
\* refused its own race, for work it no longer has.
HolderIffLeased ==
  \A t \in TaskIds : task[t].holder # NoWorker <=> task[t].state = "Leased"

\* At rest, between two handlers, a task is somewhere the coordinator can move
\* it on from, and somebody's exactly while it is leased: no order of expiry,
\* release, corrupt payload, lost race and departure leaves it wedged, or
\* bound to a worker that no longer has it.
LifecycleAtRest == NoWedge /\ HolderIffLeased

\* The answers a task is judged on come from different workers, none of which
\* holds it again: a worker agreeing with itself is not evidence (invariant 6).
NoSelfAgreement ==
  \A t \in TaskIds :
    LET subs == task[t].subs
    IN  /\ \A i, j \in DOMAIN subs : subs[i].worker = subs[j].worker => i = j
        /\ \A i \in DOMAIN subs : subs[i].worker # task[t].holder

\* The originals cut [0, next_unit) into disjoint ranges: a hole would never be
\* searched and an overlap would be counted twice, and neither is ever detected.
OriginalsTileKeyspace ==
  \A u \in 0 .. (TotalUnits - 1) :
    Cardinality({t \in Listed : task[t].replicaOf = Nil /\ u \in Units(t)})
      = IF u < nextUnit THEN 1 ELSE 0

\* No task crosses a group boundary: "a task spanning two tiles would carry a
\* single set of tile coordinates" and "nothing downstream could detect it"
\* (job.hpp:135-138), whatever was requeued or probed in between.
TasksStayInOneGroup ==
  GroupSize # 0 =>
    \A t \in TaskIds : \A u, v \in Units(t) : u \div GroupSize = v \div GroupSize

\* Carving is exact: no unit is skipped, none is cut twice and none shares a
\* task with another group's, with ranges given back, restarted and probed in
\* between.
CarvingIsExact == OriginalsTileKeyspace /\ TasksStayInOneGroup

\* At most one live replica races an original ("one race is enough",
\* job.cpp:729), however leases of either side run out and are granted again.
OneLiveReplica ==
  \A r, s \in Listed :
    /\ task[r].replicaOf # Nil
    /\ task[r].replicaOf = task[s].replicaOf
    /\ Live(r) /\ Live(s)
    => r = s

\* When the job reports completion every unit of the keyspace lies in an
\* accepted range: a cancelled task counts as done, so some sibling of it must
\* have been accepted.
CompleteMeansComputed ==
  JobComplete =>
    \A u \in 0 .. (TotalUnits - 1) :
      \E t \in Listed : task[t].state = "Accepted" /\ u \in Units(t)

\* Completion is final: --exit-when-complete and the stall detector act on it.
CompletionIsFinal == [][JobComplete => JobComplete']_vars

\* The payload that is composited belongs to a worker whose answer was accepted
\* ("Only a VALIDATED result reaches here", session.cpp:1474).
PayloadIsValidated ==
  \A t \in TaskIds :
    task[t].state = "Accepted" => verdict[t].from \in verdict[t].agreeing

\* No accepted range carries an answer that an honest worker would not give.
NoWrongAnswerAccepted ==
  \A t \in TaskIds : task[t].state = "Accepted" => verdict[t].answer = Truth

\* Reputation is lowered only for workers that lie: not for absence, corruption
\* on the wire, a lost race, a lost vote or a spot-check.
HonestNeverCharged == charged \subseteq Liars

\* A spot-check is issued against a true answer ("Seeding it from a single
\* unvalidated result would enshrine one worker's answer as ground truth",
\* spot_check.hpp:57-59).
KnownAnswersAreTrue == \A k \in known : k.answer = Truth

\* A range whose result was accepted is not handed out again for the race it
\* belonged to ("putting it back would hand already-finished work to somebody
\* else", job.cpp:797-798).
FinishedRangeStaysFinished ==
  [][\A t, u \in TaskIds :
       /\ task[t].state = "Queued" /\ task'[t].state = "Leased"
       /\ task[u].state = "Accepted"
       => Root(t) # Root(u)]_vars

\* The units an accepted result covers.
DoneUnits == {u \in 0 .. (TotalUnits - 1) :
                \E t \in TaskIds : task[t].state = "Accepted" /\ u \in Units(t)}

Job == INSTANCE KeyspaceJob
         WITH carved <- nextUnit, done <- DoneUnits, complete <- JobComplete

\* What JobManager promises, in the terms of the abstract job: the keyspace is
\* carved upwards, an accepted unit is never lost, and completion is announced
\* once and only when every unit has an accepted answer.
ImplementsKeyspaceJob == Job!Spec

\* The job is finished in the end.
JobEventuallyCompletes == <>JobComplete
=============================================================================
