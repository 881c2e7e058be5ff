----------------------------- MODULE VoteProofs -----------------------------
(***************************************************************************)
(* Theorems about the validation of answers: who may vote, what a verdict  *)
(* is worth, and whom it charges, for any number of workers, liars and     *)
(* answers.                                                                *)
(*                                                                         *)
(* 1. Counting votes.                                                      *)
(* 2. What each action does to the votes of each task.                     *)
(* 3. No worker votes twice: the ballots of a task.                        *)
(* 4. With one fixed requirement of agreement, a verdict is the answer     *)
(*    that was just given, and with fewer liars than that it is true.      *)
(* 5. With the adaptive requirement of one or two, what the spot-check     *)
(*    pool holds is still true if there is at most one liar.               *)
(***************************************************************************)
EXTENDS JobManagerProofs

Submission == [worker : Workers, answer : Answers]

(***************************************************************************)
(* Part 1: counting votes.                                                 *)
(***************************************************************************)

\* The votes for an answer are finitely many, and no more than the submissions.
LEMMA VotesAreFinite ==
  ASSUME NEW subs \in Seq(Submission), NEW a
  PROVE  /\ IsFiniteSet(Cluster(subs, a))
         /\ Votes(subs, a) \in 0 .. Len(subs)
<1>1. Len(subs) \in Nat /\ DOMAIN subs = 1 .. Len(subs)
  OBVIOUS
<1>2. IsFiniteSet(1 .. Len(subs)) /\ Cardinality(1 .. Len(subs)) = Len(subs)
  <2>1. Len(subs) \in Int /\ 1 \in Int
    BY <1>1
  <2>2. /\ IsFiniteSet(1 .. Len(subs))
        /\ Cardinality(1 .. Len(subs)) = IF 1 > Len(subs) THEN 0 ELSE Len(subs) - 1 + 1
    BY <2>1, FS_Interval
  <2> QED
    BY <1>1, <2>2
<1>3. Cluster(subs, a) \in SUBSET (1 .. Len(subs))
  BY <1>1 DEF Cluster
<1>4. /\ IsFiniteSet(Cluster(subs, a))
      /\ Cardinality(Cluster(subs, a)) <= Cardinality(1 .. Len(subs))
  BY <1>2, <1>3, FS_Subset
<1>5. Cardinality(Cluster(subs, a)) \in Nat
  BY <1>4, FS_CardinalityType
<1> QED
  BY <1>1, <1>2, <1>4, <1>5 DEF Votes

\* A new submission is one more vote for its answer and for no other.
LEMMA OneMoreVote ==
  ASSUME NEW subs \in Seq(Submission), NEW s \in Submission, NEW a
  PROVE  Votes(Append(subs, s), a)
           = IF a = s.answer THEN Votes(subs, a) + 1 ELSE Votes(subs, a)
<1> DEFINE n == Len(subs) + 1
           new == Append(subs, s)
<1>1. /\ Len(subs) \in Nat /\ DOMAIN subs = 1 .. Len(subs)
      /\ DOMAIN new = 1 .. n
      /\ \A i \in DOMAIN subs : new[i] = subs[i]
      /\ new[n] = s
  OBVIOUS
<1> HIDE DEF new
<1>2. IsFiniteSet(Cluster(subs, a)) /\ n \notin Cluster(subs, a)
  <2>1. n \notin DOMAIN subs
    BY <1>1
  <2> QED
    BY <2>1, VotesAreFinite DEF Cluster
<1>3. Cluster(new, a) = IF a = s.answer THEN Cluster(subs, a) \cup {n} ELSE Cluster(subs, a)
  <2>1. \A i : i \in DOMAIN new <=> i \in DOMAIN subs \/ i = n
    BY <1>1
  <2> QED
    BY <1>1, <2>1 DEF Cluster
<1>4. Cardinality(Cluster(subs, a) \cup {n}) = Cardinality(Cluster(subs, a)) + 1
  BY <1>2, FS_AddElement
<1> QED
  BY <1>3, <1>4 DEF Votes, new

\* The leading answer was given by somebody, and none has more votes.
LEMMA LeadingLeads ==
  ASSUME NEW subs \in Seq(Submission), subs # <<>>
  PROVE  /\ \E i \in DOMAIN subs : subs[i].answer = Leading(subs)
         /\ \A j \in DOMAIN subs : Votes(subs, subs[j].answer) <= Votes(subs, Leading(subs))
<1> DEFINE V(i) == Votes(subs, subs[i].answer)
           Largest == {i \in DOMAIN subs : \A j \in DOMAIN subs : V(j) <= V(i)}
<1>1. /\ Len(subs) \in Nat /\ DOMAIN subs = 1 .. Len(subs)
      /\ 1 \in DOMAIN subs
  OBVIOUS
<1>2. \A i \in DOMAIN subs : V(i) \in 0 .. Len(subs)
  BY VotesAreFinite
<1> HIDE DEF V
<1>3. PICK m \in DOMAIN subs : \A j \in DOMAIN subs : V(j) <= V(m)
  <2> DEFINE Gaps == {Len(subs) - V(i) : i \in DOMAIN subs}
  <2>1. Gaps \in SUBSET Nat /\ Gaps # {}
    BY <1>1, <1>2
  <2>2. PICK g \in Gaps : \A h \in Gaps : g <= h
    BY <2>1, LeastMember
  <2>3. PICK i \in DOMAIN subs : g = Len(subs) - V(i)
    BY <2>2
  <2>4. \A j \in DOMAIN subs : g <= Len(subs) - V(j)
    BY <2>2
  <2>5. \A j \in DOMAIN subs : V(j) <= V(i)
    BY <1>1, <1>2, <2>3, <2>4
  <2> QED
    BY <2>5
<1>4. Largest \in SUBSET Nat /\ Largest # {}
  BY <1>1, <1>3
<1>5. \E i \in Largest : \A j \in Largest : i <= j
  BY <1>4, LeastMember
<1> DEFINE f == CHOOSE i \in Largest : \A j \in Largest : i <= j
<1>6. f \in Largest
  BY <1>5
<1>7. Leading(subs) = subs[f].answer
  BY DEF Leading, V
<1> HIDE DEF f
<1> QED
  BY <1>6, <1>7 DEF V

\* Nobody leads with fewer votes than any answer has.
LEMMA NoneBeatsLeading ==
  ASSUME NEW subs \in Seq(Submission), subs # <<>>, NEW a
  PROVE  Votes(subs, a) <= Votes(subs, Leading(subs))
<1>1. Votes(subs, a) \in Nat /\ Votes(subs, Leading(subs)) \in Nat
  BY VotesAreFinite
<1>2. CASE \E j \in DOMAIN subs : subs[j].answer = a
  BY <1>2, LeadingLeads
<1>3. CASE ~ \E j \in DOMAIN subs : subs[j].answer = a
  <2>1. Cluster(subs, a) = {}
    BY <1>3 DEF Cluster
  <2>2. Votes(subs, a) = 0
    BY <2>1, FS_EmptySet DEF Votes
  <2> QED
    BY <1>1, <2>2
<1> QED
  BY <1>2, <1>3

\* Distinct workers, as many as agree on an answer or more of them than there are
\* liars: one of them is honest.
LEMMA HonestAmongMany ==
  ASSUME NEW subs \in Seq(Submission), NEW a,
         \A i, j \in DOMAIN subs : subs[i].worker = subs[j].worker => i = j,
         IsFiniteSet(Liars), Cardinality(Liars) < Votes(subs, a)
  PROVE  \E i \in DOMAIN subs : subs[i].answer = a /\ subs[i].worker \notin Liars
<1> SUFFICES ASSUME \A i \in Cluster(subs, a) : subs[i].worker \in Liars  PROVE  FALSE
  BY DEF Cluster
<1> DEFINE C == Cluster(subs, a)
           f == [i \in C |-> subs[i].worker]
<1>1. f \in [C -> Liars]
  OBVIOUS
<1>2. IsFiniteSet(C) /\ Cardinality(Liars) < Cardinality(C)
  BY VotesAreFinite DEF Votes
<1> HIDE DEF C, f
<1>3. PICK x \in C, y \in C : x # y /\ f[x] = f[y]
  BY <1>1, <1>2, FS_PigeonHole
<1>4. subs[x].worker = subs[y].worker /\ x \in DOMAIN subs /\ y \in DOMAIN subs
  BY <1>3 DEF f, C, Cluster
<1> QED
  BY <1>3, <1>4
(***************************************************************************)
(* Part 2: what each action does to the votes.                             *)
(***************************************************************************)

\* A task whose votes, and what hangs on them, a step leaves alone.  It may change
\* hands, but not to somebody who has computed it.
VoteKept(u) ==
  /\ task'[u].subs = task[u].subs /\ task'[u].prior = task[u].prior
  /\ task'[u].holder \in task[u].prior => task'[u].holder = task[u].holder
  /\ task'[u].state = "Accepted" => task[u].state = "Accepted"
  /\ expected'[u] = expected[u] /\ verdict'[u] = verdict[u]

\* A task that is new, as work or as a probe.
VoteFresh(u) ==
  /\ task[u] = Absent
  /\ task'[u].subs = <<>> /\ task'[u].prior = {}
  /\ task'[u].state # "Accepted"
  /\ expected'[u] = expected[u] \/ \E k \in known : expected'[u] = k.answer

NoVote == /\ known' = known /\ charged' = charged
          /\ \A u \in TaskIds : VoteKept(u) \/ VoteFresh(u)

\* The submissions of t with worker w's answer a.
With(w, t, a) == Append(task[t].subs, [worker |-> w, answer |-> a])

Reconsidered(w, t, a) ==
  /\ \/ /\ \E required \in Agreement : Decide(With(w, t, a), required) = "NeedMoreReplicas"
        /\ task'[t].subs = With(w, t, a)
     \/ task'[t].subs = <<>>
  /\ task'[t].state # "Accepted"
  /\ known' = known /\ verdict'[t] = verdict[t]
  /\ charged' = charged \cup ProbeFailure(w, t, a)

Decided(w, t, a) ==
  /\ \E required \in Agreement : Decide(With(w, t, a), required) = "Accept"
  /\ task'[t].subs = <<>>
  /\ verdict'[t] = [from |-> w, answer |-> a, agreeing |-> Agreeing(With(w, t, a))]
  /\ \A k \in known' : \/ k \in known
                       \/ k.answer = a /\ Cardinality(Agreeing(With(w, t, a))) >= 2
  /\ charged' = charged \cup Dissenting(With(w, t, a)) \cup ProbeFailure(w, t, a)

Vote(w, t, a) ==
  /\ CheckLease(w, t)
  /\ \A u \in TaskIds \ {t} : VoteKept(u)
  /\ task'[t].prior = task[t].prior \cup {w} /\ task'[t].holder = NoWorker
  /\ expected'[t] = NoAnswer
  /\ Reconsidered(w, t, a) \/ Decided(w, t, a)

VoteStep == NoVote \/ \E w \in Workers, t \in TaskIds : \E a \in AnswersOf(w) : Vote(w, t, a)

\* Nobody who holds a task, or who holds nothing, is barred by being nobody.
LEMMA NobodyIsNotPrior ==
  ASSUME IInv, NEW t \in TaskIds
  PROVE  NoWorker \notin task[t].prior /\ task[t] \in TaskRecord
BY TaskFacts, TaskRecordFields, JobManagerAssumption

\* A task that is left as it is keeps its votes.
LEMMA UntouchedVote ==
  ASSUME NEW u, task'[u] = task[u], expected'[u] = expected[u], verdict'[u] = verdict[u]
  PROVE  VoteKept(u)
BY DEF VoteKept

\* A queued replica goes to a worker that has not answered it.
LEMMA GrantQueuedVote ==
  ASSUME IInv, NEW w \in Workers, GrantQueued(w)  PROVE  NoVote
<1>1. PICK i \in DOMAIN queue :
        /\ Grantable(w, i)
        /\ task' = [task EXCEPT ![queue[i]] = Granted(@, w)]
        /\ UNCHANGED judgeVars
  BY DEF GrantQueued, FirstGrantable
<1> DEFINE t == queue[i]
<1>2. t \in TaskIds /\ task[t].state = "Queued" /\ task[t] \in TaskRecord
  BY EntryIsWaiting, TaskFacts
<1>3. /\ task'[t] = Granted(task[t], w)
      /\ \A u \in TaskIds \ {t} : task'[u] = task[u]
      /\ known' = known /\ charged' = charged
      /\ expected' = expected /\ verdict' = verdict
  BY <1>1, <1>2 DEF IInv, TypeOK, judgeVars
<1>4. w \notin task[t].prior
  BY <1>1 DEF Grantable, CheckReplicaAssignment
<1> HIDE DEF t
<1>5. /\ task'[t].subs = task[t].subs /\ task'[t].prior = task[t].prior
      /\ task'[t].holder = w /\ task'[t].state = "Leased"
  BY <1>2, <1>3, AdvanceValues DEF Granted, TaskRecord
<1>6. VoteKept(t)
  BY <1>3, <1>4, <1>5 DEF VoteKept
<1> QED
  BY <1>3, <1>6, UntouchedVote DEF NoVote

\* An id not handed out yet is blank.
LEMMA NewIdIsBlank ==
  ASSUME IInv, NEW u \in TaskIds, u = nextId \/ u = nextId + 1
  PROVE  task[u] = Absent
<1>1. u >= nextId
  BY DEF IInv, TypeOK
<1> QED
  BY <1>1, TaskFacts

\* The three ways a task is issued.
LEMMA FreshVote ==
  ASSUME NEW u, NEW w, NEW start, NEW count, NEW original, NEW listed,
         task[u] = Absent, task'[u] = Issued(w, start, count, original, listed),
         expected'[u] = expected[u] \/ \E k \in known : expected'[u] = k.answer
  PROVE  VoteFresh(u)
BY DEF VoteFresh, Issued

\* New ranges and races have no answers yet.
LEMMA IssueVote ==
  ASSUME IInv, NEW w \in Workers, CarveFresh(w) \/ IssueSpeculative(w)  PROVE  NoVote
<1>1. \E start, count, original :
        /\ nextId \in TaskIds
        /\ task' = [task EXCEPT ![nextId] = Issued(w, start, count, original, TRUE)]
        /\ UNCHANGED judgeVars
  BY DEF CarveFresh, IssueSpeculative
<1>2. PICK start, count, original :
        /\ nextId \in TaskIds
        /\ task' = [task EXCEPT ![nextId] = Issued(w, start, count, original, TRUE)]
        /\ UNCHANGED judgeVars
  BY <1>1
<1>3. /\ task'[nextId] = Issued(w, start, count, original, TRUE)
      /\ \A u \in TaskIds \ {nextId} : task'[u] = task[u]
      /\ known' = known /\ charged' = charged
      /\ expected' = expected /\ verdict' = verdict
  BY <1>2 DEF IInv, TypeOK, judgeVars
<1>4. VoteFresh(nextId)
  BY <1>2, <1>3, FreshVote, NewIdIsBlank
<1> QED
  BY <1>3, <1>4, UntouchedVote DEF NoVote

\* A probe put before a queued task has no answers yet.
LEMMA SpotCheckQueuedVote ==
  ASSUME IInv, NEW w \in Workers, SpotCheckQueued(w)  PROVE  NoVote
<1>1. PICK i \in DOMAIN queue, k \in known :
        /\ nextId \in TaskIds
        /\ task' = [task EXCEPT
             ![queue[i]] = Vacated(Granted(@, w), "Release"),
             ![nextId]   = Probe(w, k)]
        /\ expected' = [expected EXCEPT ![nextId] = k.answer]
        /\ UNCHANGED <<known, verdict, charged>>
  BY DEF SpotCheckQueued
<1> DEFINE t == queue[i]
           x == Vacated(Granted(task[t], w), "Release")
           y == Probe(w, k)
<1>2. t \in TaskIds /\ task[t].state = "Queued" /\ task[t] \in TaskRecord
  BY EntryIsWaiting, TaskFacts
<1>3. t # nextId
  BY <1>1, <1>2, NewIdIsBlank, AbsentRecord
<1>4. /\ x.subs = task[t].subs /\ x.prior = task[t].prior /\ x.holder = NoWorker
      /\ x.state = "Queued"
  BY <1>2, AdvanceValues DEF Vacated, Granted, TaskRecord
<1> HIDE DEF x, y
<1>5. /\ task'[t] = x /\ task'[nextId] = y
      /\ \A u \in TaskIds \ {t, nextId} : task'[u] = task[u]
      /\ expected'[nextId] = k.answer
      /\ \A u \in TaskIds \ {nextId} : expected'[u] = expected[u]
      /\ known' = known /\ charged' = charged /\ verdict' = verdict
  BY <1>1, <1>2, <1>3 DEF IInv, TypeOK, x, y
<1>6. VoteKept(t)
  BY <1>2, <1>3, <1>4, <1>5, NobodyIsNotPrior DEF VoteKept
<1>7. VoteFresh(nextId)
  <2>1. task[nextId] = Absent
    BY <1>1, NewIdIsBlank
  <2> QED
    BY <1>5, <2>1, FreshVote DEF y, Probe
<1> QED
  BY <1>5, <1>6, <1>7, UntouchedVote DEF NoVote

\* So has one put before a new range.
LEMMA SpotCheckFreshVote ==
  ASSUME IInv, NEW w \in Workers, SpotCheckFresh(w)  PROVE  NoVote
<1>1. PICK units \in Sizes, count \in 1 .. TotalUnits, k \in known :
        /\ nextId \in TaskIds /\ nextId + 1 \in TaskIds
        /\ task' = [task EXCEPT
             ![nextId]     = Vacated(Issued(w, nextUnit, count, Nil, TRUE), "Release"),
             ![nextId + 1] = Probe(w, k)]
        /\ expected' = [expected EXCEPT ![nextId + 1] = k.answer]
        /\ UNCHANGED <<known, verdict, charged>>
  BY DEF SpotCheckFresh
<1> DEFINE n == nextId + 1
           x == Vacated(Issued(w, nextUnit, count, Nil, TRUE), "Release")
           y == Probe(w, k)
<1>2. n # nextId /\ n \in TaskIds /\ nextId \in TaskIds
  BY <1>1 DEF TaskIds
<1>3. /\ x.subs = <<>> /\ x.prior = {} /\ x.state = "Queued"
      /\ task[nextId] = Absent /\ task[n] = Absent
  BY <1>2, NewIdIsBlank, AdvanceValues DEF Vacated, Issued
<1> HIDE DEF n, x, y
<1>4. /\ task'[nextId] = x /\ task'[n] = y
      /\ \A u \in TaskIds \ {nextId, n} : task'[u] = task[u]
      /\ expected'[n] = k.answer
      /\ \A u \in TaskIds \ {n} : expected'[u] = expected[u]
      /\ known' = known /\ charged' = charged /\ verdict' = verdict
  <2>1. task' = [task EXCEPT ![nextId] = x, ![n] = y]
        /\ expected' = [expected EXCEPT ![n] = k.answer]
    BY <1>1 DEF n, x, y
  <2> QED
    BY <1>1, <1>2, <2>1 DEF IInv, TypeOK
<1>5. VoteFresh(nextId)
  BY <1>2, <1>3, <1>4 DEF VoteFresh
<1>6. VoteFresh(n)
  <2>1. task[n] = Absent /\ expected'[n] = k.answer
    BY <1>3, <1>4
  <2>2. task'[n] = Issued(w, k.start, k.count, Nil, FALSE)
    BY <1>4 DEF y, Probe
  <2> QED
    BY <2>1, <2>2, FreshVote
<1> QED
  BY <1>4, <1>5, <1>6, UntouchedVote DEF NoVote

\* A heartbeat is no answer.
LEMMA RenewVote ==
  ASSUME IInv, NEW w \in Workers, NEW t \in TaskIds, Renew(w, t)  PROVE  NoVote
<1> DEFINE x == [task[t] EXCEPT !.state = Advance(@, "Renew"), !.lease = LeaseTicks]
<1>1. /\ task[t].state = "Leased"
      /\ task' = [task EXCEPT ![t] = x]
      /\ UNCHANGED judgeVars
  BY DEF Renew, CheckLease
<1>2. /\ x.subs = task[t].subs /\ x.prior = task[t].prior /\ x.holder = task[t].holder
      /\ x.state = "Leased"
  BY <1>1, AdvanceValues, TaskFacts DEF TaskRecord
<1> HIDE DEF x
<1>3. /\ task'[t] = x
      /\ \A u \in TaskIds \ {t} : task'[u] = task[u]
      /\ known' = known /\ charged' = charged
      /\ expected' = expected /\ verdict' = verdict
  BY <1>1 DEF IInv, TypeOK, judgeVars
<1>4. VoteKept(t)
  BY <1>2, <1>3 DEF VoteKept
<1> QED
  BY <1>3, <1>4, UntouchedVote DEF NoVote

\* Leases that go back are no answers.
LEMMA RequeueVote ==
  ASSUME IInv, NEW S \in SUBSET TaskIds, \A t \in S : task[t].state = "Leased",
         NEW ev \in {"Release", "LeaseExpired"},
         task' = [t \in TaskIds |-> IF t \in S THEN Vacated(task[t], ev) ELSE task[t]],
         UNCHANGED judgeVars
  PROVE  NoVote
<1>1. /\ known' = known /\ charged' = charged
      /\ expected' = expected /\ verdict' = verdict
  BY DEF judgeVars
<1>2. ASSUME NEW t \in S  PROVE  VoteKept(t)
  <2>1. task[t] \in TaskRecord /\ task[t].state = "Leased" /\ NoWorker \notin task[t].prior
    BY NobodyIsNotPrior
  <2>2. task'[t] = Vacated(task[t], ev)
    OBVIOUS
  <2>3. /\ task'[t].subs = task[t].subs /\ task'[t].prior = task[t].prior
        /\ task'[t].holder = NoWorker /\ task'[t].state = "Queued"
    BY <2>1, <2>2, AdvanceValues DEF Vacated, TaskRecord
  <2> QED
    BY <1>1, <2>1, <2>3 DEF VoteKept
<1>3. ASSUME NEW t \in TaskIds \ S  PROVE  VoteKept(t)
  BY <1>1, UntouchedVote
<1> QED
  BY <1>1, <1>2, <1>3 DEF NoVote

\* The scan of the leases is no answer.
LEMMA TickVote ==
  ASSUME IInv, Tick  PROVE  NoVote
<1>1. /\ known' = known /\ charged' = charged
      /\ expected' = expected /\ verdict' = verdict
  BY DEF Tick, judgeVars
<1>2. ASSUME NEW t \in TaskIds  PROVE  VoteKept(t)
  <2>1. task'[t] = [task[t] EXCEPT !.lease = IF @ > 0 THEN @ - 1 ELSE 0]
    BY DEF Tick
  <2>2. /\ task'[t].subs = task[t].subs /\ task'[t].prior = task[t].prior
        /\ task'[t].holder = task[t].holder /\ task'[t].state = task[t].state
    BY <2>1, TaskFacts DEF TaskRecord
  <2> QED
    BY <1>1, <2>2 DEF VoteKept
<1> QED
  BY <1>1, <1>2 DEF NoVote
\* The record of t with the answer of w added to it.
LEMMA SubmittedVote ==
  ASSUME IInv, NEW w \in Workers, NEW t \in TaskIds, NEW a \in Answers,
         task[t].state = "Leased"
  PROVE  LET r == Submitted(w, t, a)
         IN  /\ r \in TaskRecord /\ r.state = "Validating" /\ r.holder = NoWorker
             /\ r.subs = With(w, t, a) /\ r.prior = task[t].prior \cup {w}
<1> DEFINE r == Submitted(w, t, a)
<1>1. task[t] \in TaskRecord
  BY TaskFacts
<1>2. r \in TaskRecord /\ r.state = "Validating" /\ r.holder = NoWorker
  BY <1>1, SubmittedRecord
<1>3. r.subs = With(w, t, a) /\ r.prior = task[t].prior \cup {w}
  BY <1>1 DEF Submitted, Vacated, With, TaskRecord
<1> QED
  BY <1>2, <1>3

\* An answer that does not decide goes to the ballots of its task.
LEMMA ReopenVote ==
  ASSUME IInv, NEW w \in Workers, NEW t \in TaskIds, NEW a \in Answers,
         RequestReplica(w, t, a) \/ RestartValidation(w, t, a)
  PROVE  Vote(w, t, a)
<1> DEFINE r == Submitted(w, t, a)
           q == Reopened(r)
<1>1. PICK x \in {q, [q EXCEPT !.subs = <<>>]} :
        /\ CheckLease(w, t)
        /\ \/ /\ \E required \in Agreement : Decide(r.subs, required) = "NeedMoreReplicas"
              /\ x = q
           \/ x = [q EXCEPT !.subs = <<>>]
        /\ task' = [task EXCEPT ![t] = x]
        /\ charged' = charged \cup ProbeFailure(w, t, a)
        /\ Judged(t)
        /\ known' = known /\ verdict' = verdict
  BY DEF RequestReplica, RestartValidation
<1>2. /\ r \in TaskRecord /\ r.state = "Validating" /\ r.holder = NoWorker
      /\ r.subs = With(w, t, a) /\ r.prior = task[t].prior \cup {w}
  BY <1>1, SubmittedVote DEF CheckLease
<1> HIDE DEF r
<1>3. /\ q \in TaskRecord /\ q.state = "Queued" /\ q.holder = NoWorker
      /\ q.subs = r.subs /\ q.prior = r.prior
  BY <1>2, AdvanceValues, ReopenedRecord DEF Reopened, TaskRecord
<1> HIDE DEF q
<1>4. /\ x.state = "Queued" /\ x.holder = NoWorker /\ x.prior = r.prior
      /\ x = [q EXCEPT !.subs = <<>>] => x.subs = <<>>
  BY <1>3 DEF TaskRecord
<1>5. /\ task'[t] = x
      /\ \A u \in TaskIds \ {t} : task'[u] = task[u]
      /\ expected'[t] = NoAnswer
      /\ \A u \in TaskIds \ {t} : expected'[u] = expected[u]
  BY <1>1 DEF IInv, TypeOK, Judged
<1>6. \A u \in TaskIds \ {t} : VoteKept(u)
  BY <1>1, <1>5, UntouchedVote
<1>7. Reconsidered(w, t, a)
  BY <1>1, <1>2, <1>3, <1>4, <1>5 DEF Reconsidered
<1> QED
  BY <1>1, <1>2, <1>4, <1>5, <1>6, <1>7 DEF Vote

\* The answer that decides: what is canonical had the votes.
LEMMA AcceptVote ==
  ASSUME IInv, NEW w \in Workers, NEW t \in TaskIds, NEW a \in Answers,
         AcceptResult(w, t, a)
  PROVE  Vote(w, t, a)
<1> DEFINE r == Submitted(w, t, a)
           losers == CancelledBy(t)
           x == [r EXCEPT !.state = Advance(@, "Accept"), !.subs = <<>>]
<1>1. /\ CheckLease(w, t)
      /\ \E required \in Agreement : Decide(r.subs, required) = "Accept"
      /\ task' = [u \in TaskIds |->
           IF u = t THEN x ELSE IF u \in losers THEN Vacated(task[u], "Cancel") ELSE task[u]]
      /\ verdict' = [verdict EXCEPT
           ![t] = [from |-> w, answer |-> a, agreeing |-> Agreeing(r.subs)]]
      /\ known' = Remember(r, a, Agreeing(r.subs))
      /\ charged' = charged \cup Dissenting(r.subs) \cup ProbeFailure(w, t, a)
      /\ Judged(t)
  BY DEF AcceptResult
<1>2. /\ r \in TaskRecord /\ r.state = "Validating" /\ r.holder = NoWorker
      /\ r.subs = With(w, t, a) /\ r.prior = task[t].prior \cup {w}
  BY <1>1, SubmittedVote DEF CheckLease
<1> HIDE DEF r
<1>3. x.holder = NoWorker /\ x.prior = r.prior /\ x.subs = <<>>
  BY <1>2 DEF TaskRecord
<1>4. \A u \in losers : /\ u \in TaskIds \ {t}
                       /\ task[u] \in TaskRecord /\ task[u].state = "Leased"
                       /\ NoWorker \notin task[u].prior
  <2>1. \A u \in losers : u \in TaskIds \ {t} /\ Legal(task[u].state, "Cancel")
    BY DEF CancelledBy, Listed
  <2> QED
    BY <2>1, TaskFacts, LegalCancel, NobodyIsNotPrior DEF Settled
<1> HIDE DEF losers, x
<1>5. /\ task'[t] = x
      /\ \A u \in losers : task'[u] = Vacated(task[u], "Cancel")
      /\ \A u \in TaskIds : u # t /\ u \notin losers => task'[u] = task[u]
  BY <1>1, <1>4
<1>6. /\ expected'[t] = NoAnswer
      /\ verdict'[t] = [from |-> w, answer |-> a, agreeing |-> Agreeing(r.subs)]
      /\ \A u \in TaskIds \ {t} : expected'[u] = expected[u] /\ verdict'[u] = verdict[u]
  BY <1>1 DEF IInv, TypeOK, Judged
<1>7. ASSUME NEW u \in losers  PROVE  VoteKept(u)
  <2>1. /\ task[u] \in TaskRecord /\ task[u].state = "Leased"
        /\ task'[u] = Vacated(task[u], "Cancel")
    BY <1>4, <1>5
  <2>2. /\ task'[u].subs = task[u].subs /\ task'[u].prior = task[u].prior
        /\ task'[u].holder = NoWorker /\ task'[u].state = "Cancelled"
    BY <2>1, AdvanceValues DEF Vacated, TaskRecord
  <2> QED
    BY <1>4, <1>6, <2>2 DEF VoteKept
<1>8. \A u \in TaskIds \ {t} : VoteKept(u)
  BY <1>5, <1>6, <1>7, UntouchedVote
<1>9. \A k \in known' : \/ k \in known
                        \/ k.answer = a /\ Cardinality(Agreeing(r.subs)) >= 2
  BY <1>1 DEF Remember
<1>10. Decided(w, t, a)
  BY <1>1, <1>2, <1>3, <1>5, <1>6, <1>9 DEF Decided
<1> QED
  BY <1>1, <1>2, <1>3, <1>5, <1>6, <1>8, <1>10 DEF Vote

\* Every step is a vote, or leaves all votes alone.
LEMMA NextVote ==
  ASSUME IInv, [Next]_vars  PROVE  VoteStep
<1>1. ASSUME NEW w \in Workers, OnLeaseRequest(w)  PROVE  NoVote
  BY <1>1, GrantQueuedVote, IssueVote, SpotCheckQueuedVote, SpotCheckFreshVote
  DEF OnLeaseRequest
<1>2. ASSUME NEW w \in Workers, Depart(w)  PROVE  NoVote
  BY <1>2, RequeueVote DEF Depart, HeldBy, Requeue
<1>3. ASSUME NEW w \in Workers, NEW t \in TaskIds, OnRelease(w, t) \/ ChecksumMismatch(w, t)
      PROVE  NoVote
  BY <1>3, RequeueVote DEF OnRelease, ChecksumMismatch, CheckLease, Requeue
<1>4. ASSUME NEW w \in Workers, NEW t \in TaskIds, NEW a \in AnswersOf(w),
             OnResultHeader(w, t, a)
      PROVE  Vote(w, t, a)
  <2>1. a \in Answers
    BY JobManagerAssumption DEF AnswersOf
  <2> QED
    BY <1>4, <2>1, ReopenVote, AcceptVote DEF OnResultHeader
<1>5. CASE SweepExpiredLeases
  BY <1>5, RequeueVote DEF SweepExpiredLeases, Expired, Requeue, VoteStep
<1>6. CASE UNCHANGED vars
  BY <1>6, UntouchedVote DEF vars, NoVote, VoteStep
<1> QED
  BY <1>1, <1>2, <1>3, <1>4, <1>5, <1>6, RenewVote, TickVote DEF Next, VoteStep

(***************************************************************************)
(* Part 3: the ballots of a task.                                          *)
(***************************************************************************)

\* Those who answered are distinct and remembered, each gave an answer that is his
\* to give, and none of them has the task in hand.
Ballot(r) ==
  /\ \A i, j \in DOMAIN r.subs : r.subs[i].worker = r.subs[j].worker => i = j
  /\ \A i \in DOMAIN r.subs : /\ r.subs[i].worker \in r.prior
                              /\ r.subs[i].answer \in AnswersOf(r.subs[i].worker)
  /\ r.holder \notin r.prior

\* NoSelfAgreement is not inductive: what keeps a worker from a second vote is
\* prior, which outlives the answers when a vote is restarted.
Ballots == \A t \in TaskIds : Ballot(task[t])

\* The submissions with the answer of a worker that has not voted yet.
LEMMA BallotWith ==
  ASSUME IInv, NEW w \in Workers, NEW t \in TaskIds, NEW a \in AnswersOf(w),
         Ballot(task[t]), task[t].holder = w
  PROVE  LET subs == With(w, t, a)
         IN  /\ subs \in Seq(Submission) /\ subs # <<>>
             /\ DOMAIN subs = 1 .. Len(subs) /\ Len(subs) = Len(task[t].subs) + 1
             /\ subs[Len(subs)] = [worker |-> w, answer |-> a]
             /\ \A i, j \in DOMAIN subs : subs[i].worker = subs[j].worker => i = j
             /\ \A i \in DOMAIN subs : /\ subs[i].worker \in task[t].prior \cup {w}
                                       /\ subs[i].answer \in AnswersOf(subs[i].worker)
<1> DEFINE old == task[t].subs
           s == [worker |-> w, answer |-> a]
           subs == With(w, t, a)
<1>1. old \in Seq(Submission) /\ s \in Submission
  BY TaskFacts, TaskRecordFields, JobManagerAssumption DEF Submission, AnswersOf
<1>2. subs = Append(old, s)
  BY DEF With
<1> HIDE DEF old, s, subs
<1>3. /\ subs \in Seq(Submission) /\ subs # <<>>
      /\ Len(old) \in Nat /\ DOMAIN old = 1 .. Len(old)
      /\ Len(subs) = Len(old) + 1 /\ DOMAIN subs = 1 .. Len(subs)
      /\ \A i \in DOMAIN old : subs[i] = old[i]
      /\ subs[Len(subs)] = s
  BY <1>1, <1>2
<1>4. s.worker = w /\ s.answer = a /\ w \notin task[t].prior
  BY DEF s, Ballot
<1>5. \A i \in DOMAIN subs : i \in DOMAIN old \/ i = Len(subs)
  BY <1>3
<1>6. \A i \in DOMAIN old : /\ old[i].worker \in task[t].prior
                           /\ old[i].answer \in AnswersOf(old[i].worker)
                           /\ \A j \in DOMAIN old : old[i].worker = old[j].worker => i = j
  BY DEF Ballot, old
<1>7. \A i, j \in DOMAIN subs : subs[i].worker = subs[j].worker => i = j
  BY <1>3, <1>4, <1>5, <1>6
<1>8. \A i \in DOMAIN subs : /\ subs[i].worker \in task[t].prior \cup {w}
                            /\ subs[i].answer \in AnswersOf(subs[i].worker)
  BY <1>3, <1>4, <1>5, <1>6
<1> QED
  BY <1>3, <1>7, <1>8 DEF subs, old, s

\* Ballots stay ballots in every such step.
LEMMA VoteKeepsBallots ==
  ASSUME IInv, IInv', Ballots, VoteStep  PROVE  Ballots'
<1>1. ASSUME NEW u \in TaskIds, VoteKept(u)  PROVE  Ballot(task'[u])
  BY <1>1 DEF VoteKept, Ballots, Ballot
<1>2. ASSUME NEW u \in TaskIds, task'[u].subs = <<>>, task'[u].holder \notin task'[u].prior
      PROVE  Ballot(task'[u])
  BY <1>2 DEF Ballot
<1>3. CASE NoVote
  BY <1>1, <1>2, <1>3 DEF NoVote, VoteFresh, Ballots
<1>4. ASSUME NEW w \in Workers, NEW t \in TaskIds, NEW a \in AnswersOf(w), Vote(w, t, a)
      PROVE  Ballots'
  <2>1. task[t].holder = w /\ Ballot(task[t])
    BY <1>4 DEF Vote, CheckLease, Ballots
  <2>2. /\ task'[t].prior = task[t].prior \cup {w} /\ task'[t].holder \notin task'[t].prior
        /\ task'[t].subs = With(w, t, a) \/ task'[t].subs = <<>>
    BY <1>4, NobodyIsNotPrior, JobManagerAssumption DEF Vote, Reconsidered, Decided
  <2>3. CASE task'[t].subs = With(w, t, a)
    <3> DEFINE subs == With(w, t, a)
    <3>1. /\ \A i, j \in DOMAIN subs : subs[i].worker = subs[j].worker => i = j
          /\ \A i \in DOMAIN subs : /\ subs[i].worker \in task[t].prior \cup {w}
                                    /\ subs[i].answer \in AnswersOf(subs[i].worker)
      BY <2>1, BallotWith
    <3> HIDE DEF subs
    <3>2. task'[t].subs = subs
      BY <2>3 DEF subs
    <3>3. Ballot(task'[t])
      BY <2>2, <3>1, <3>2 DEF Ballot
    <3> QED
      BY <1>1, <1>4, <3>3 DEF Vote, Ballots
  <2>4. CASE task'[t].subs = <<>>
    <3>1. Ballot(task'[t])
      BY <1>2, <2>2, <2>4
    <3> QED
      BY <1>1, <1>4, <3>1 DEF Vote, Ballots
  <2> QED
    BY <2>2, <2>3, <2>4
<1> QED
  BY <1>3, <1>4 DEF VoteStep

\* The ballots of every task are in order in every reachable state.
LEMMA BallotsInvariant == Spec => []Ballots
<1>1. Init => Ballots
  <2>1. Absent.subs = <<>> /\ Absent.holder = NoWorker /\ Absent.prior = {}
    BY DEF Absent
  <2> QED
    BY <2>1 DEF Init, Ballots, Ballot
<1>2. IInv /\ IInv' /\ Ballots /\ [Next]_vars => Ballots'
  BY NextVote, VoteKeepsBallots
<1> QED
  BY <1>1, <1>2, InductiveInvariant, PTL DEF Spec

\* However a task is granted, given back, restarted and granted again, the answers
\* it is judged on come from different workers, and from none that holds it.
THEOREM OneWorkerOneVote == Spec => []NoSelfAgreement
<1>1. Ballots => NoSelfAgreement
  BY DEF Ballots, Ballot, NoSelfAgreement
<1> QED
  BY <1>1, BallotsInvariant, PTL
(***************************************************************************)
(* Part 4: one fixed requirement.                                          *)
(***************************************************************************)

\* Every task needs the same n votes, and a strict majority of the replicas a task
\* may have is no fewer than that.
FixedRequirement(n) ==
  n \in Nat \ {0} /\ Agreement = {n} /\ 2 * n <= MaxReplicas + 2

\* No answer has n votes yet.
Undecided(subs, n) == \A a \in Answers : Votes(subs, a) < n

\* Between two handlers no vote is decided: a decision empties the submissions.
AllUndecided(n) == \A t \in TaskIds : Undecided(task[t].subs, n)

\* The submissions of a task are typed.
LEMMA SubmissionsTyped ==
  ASSUME IInv, NEW t \in TaskIds  PROVE  task[t].subs \in Seq(Submission)
BY TaskFacts, TaskRecordFields DEF Submission

\* An accepting verdict means that the leading answer has the votes asked for, or
\* a strict majority of a full set of replicas.
LEMMA AcceptMeans ==
  ASSUME NEW subs \in Seq(Submission), NEW m \in Nat, Decide(subs, m) = "Accept"
  PROVE  \/ Votes(subs, Leading(subs)) >= m
         \/ Len(subs) >= MaxReplicas /\ 2 * Votes(subs, Leading(subs)) > Len(subs)
<1> DEFINE best == Votes(subs, Leading(subs))
<1>1. best \in Nat /\ Len(subs) \in Nat /\ MaxReplicas \in Nat
  BY VotesAreFinite, MaxReplicasAssumption
<1> HIDE DEF best
<1>2. CASE best >= m
  BY <1>2 DEF best
<1>3. CASE best < m
  <2>1. ~(best >= m)
    BY <1>1, <1>3
  <2>2. Len(subs) >= MaxReplicas /\ 2 * best > Len(subs)
    BY <1>1, <1>3, <2>1 DEF Decide, best
  <2> QED
    BY <2>2 DEF best
<1> QED
  BY <1>1, <1>2, <1>3

\* Asking for another replica means that the leading answer has too few votes.
LEMMA MoreMeans ==
  ASSUME NEW subs \in Seq(Submission), NEW m \in Nat, Decide(subs, m) = "NeedMoreReplicas"
  PROVE  Votes(subs, Leading(subs)) < m
<1> DEFINE best == Votes(subs, Leading(subs))
<1>1. best \in Nat
  BY VotesAreFinite
<1> HIDE DEF best
<1>2. CASE best >= m
  <2>1. ~(best < m)
    BY <1>1, <1>2
  <2> QED
    BY <1>2, <2>1 DEF Decide, best
<1> QED
  BY <1>1, <1>2 DEF best

\* Only the cluster of the last answer has grown: if some cluster has n votes now and
\* none had before, it is that one.
LEMMA GrownClusterLeads ==
  ASSUME NEW n \in Nat, NEW old \in Seq(Submission), NEW s \in Submission,
         Undecided(old, n), Votes(Append(old, s), Leading(Append(old, s))) >= n
  PROVE  Leading(Append(old, s)) = s.answer
<1> DEFINE new == Append(old, s)
           lead == Leading(new)
<1>1. new \in Seq(Submission) /\ new # <<>>
  OBVIOUS
<1> HIDE DEF new
<1>2. lead \in Answers
  <2>1. PICK i \in DOMAIN new : new[i].answer = lead
    BY <1>1, LeadingLeads
  <2>2. new[i] \in Submission
    BY <1>1, <2>1
  <2> QED
    BY <2>1, <2>2 DEF Submission
<1>3. Votes(old, lead) < n /\ Votes(old, lead) \in Nat
  BY <1>2, VotesAreFinite DEF Undecided
<1>4. Votes(new, lead) >= n
  BY DEF new
<1> HIDE DEF lead
<1>5. lead # s.answer => Votes(new, lead) = Votes(old, lead)
  BY OneMoreVote DEF new
<1>6. lead = s.answer
  BY <1>3, <1>4, <1>5
<1> QED
  BY <1>6 DEF lead, new

\* With a fixed requirement the verdict is the answer that has just come in, and it
\* has the votes that were asked for.
LEMMA VerdictIsLast ==
  ASSUME NEW n, FixedRequirement(n), IInv, Ballots, AllUndecided(n),
         NEW w \in Workers, NEW t \in TaskIds, NEW a \in AnswersOf(w),
         task[t].holder = w,
         \E required \in Agreement : Decide(With(w, t, a), required) = "Accept"
  PROVE  Leading(With(w, t, a)) = a /\ Votes(With(w, t, a), a) >= n
<1> DEFINE subs == With(w, t, a)
           s == [worker |-> w, answer |-> a]
           best == Votes(subs, Leading(subs))
<1>1. n \in Nat /\ Decide(subs, n) = "Accept" /\ 2 * n <= MaxReplicas + 2
      /\ MaxReplicas \in Nat
  BY MaxReplicasAssumption DEF FixedRequirement
<1>2. subs \in Seq(Submission)
  BY BallotWith DEF Ballots
<1>3. task[t].subs \in Seq(Submission) /\ s \in Submission /\ subs = Append(task[t].subs, s)
  BY SubmissionsTyped, JobManagerAssumption DEF Submission, AnswersOf, With
<1>4. best \in Nat /\ Len(subs) \in Nat
  BY <1>2, VotesAreFinite
<1>5. best >= n
  <2>1. \/ best >= n
        \/ Len(subs) >= MaxReplicas /\ 2 * best > Len(subs)
    BY <1>1, <1>2, AcceptMeans
  <2> HIDE DEF best, subs
  <2> QED
    BY <1>1, <1>4, <2>1
<1>6. Leading(subs) = s.answer
  <2> HIDE DEF s
  <2> QED
    BY <1>1, <1>3, <1>5, GrownClusterLeads DEF AllUndecided
<1> QED
  BY <1>5, <1>6

\* No answers, no decision.
LEMMA EmptyIsUndecided ==
  ASSUME NEW n \in Nat \ {0}  PROVE  Undecided(<<>>, n)
<1>1. \A a : Cluster(<<>>, a) = {}
  BY DEF Cluster
<1>2. \A a : Votes(<<>>, a) = 0
  BY <1>1, FS_EmptySet DEF Votes
<1> QED
  BY <1>2 DEF Undecided

\* A step leaves every vote undecided: with too few votes, or with none.
LEMMA VoteKeepsUndecided ==
  ASSUME NEW n \in Nat \ {0}, Agreement \subseteq 1 .. n,
         IInv, Ballots, AllUndecided(n), VoteStep
  PROVE  AllUndecided(n)'
<1>1. Undecided(<<>>, n)
  BY EmptyIsUndecided
<1>2. CASE NoVote
  BY <1>1, <1>2 DEF NoVote, VoteKept, VoteFresh, AllUndecided
<1>3. ASSUME NEW w \in Workers, NEW t \in TaskIds, NEW a \in AnswersOf(w), Vote(w, t, a)
      PROVE  AllUndecided(n)'
  <2>1. \A u \in TaskIds \ {t} : Undecided(task'[u].subs, n)
    BY <1>3 DEF Vote, VoteKept, AllUndecided
  <2>2. CASE task'[t].subs = <<>>
    BY <1>1, <2>1, <2>2 DEF AllUndecided
  <2>3. CASE task'[t].subs # <<>>
    <3> DEFINE subs == With(w, t, a)
               best == Votes(subs, Leading(subs))
    <3>1. PICK m \in Agreement : /\ Decide(subs, m) = "NeedMoreReplicas"
                                 /\ task'[t].subs = subs
      BY <1>3, <2>3 DEF Vote, Reconsidered, Decided
    <3>2. subs \in Seq(Submission) /\ subs # <<>>
      BY ZenonT(60), <1>3, BallotWith DEF Ballots, Vote, CheckLease
    <3>3. m \in Nat /\ m <= n
      OBVIOUS
    <3>4. best < m /\ best \in Nat
      BY <3>1, <3>2, <3>3, MoreMeans, VotesAreFinite
    <3>5. \A b : Votes(subs, b) <= best /\ Votes(subs, b) \in Nat
      BY <3>2, NoneBeatsLeading, VotesAreFinite
    <3> HIDE DEF subs, best
    <3>6. Undecided(subs, n)
      BY <3>3, <3>4, <3>5 DEF Undecided
    <3> QED
      BY <2>1, <3>1, <3>6 DEF AllUndecided
  <2> QED
    BY <2>2, <2>3
<1> QED
  BY <1>2, <1>3 DEF VoteStep

\* Before any answer no vote is decided.
LEMMA InitUndecided ==
  ASSUME NEW n \in Nat \ {0}, Init  PROVE  AllUndecided(n)
<1>1. \A t \in TaskIds : task[t].subs = <<>>
  BY DEF Init, Absent
<1> QED
  BY <1>1, EmptyIsUndecided DEF AllUndecided

\* The payload in hand when a task is accepted is that of one who agreed.
LEMMA VoteKeepsPayload ==
  ASSUME NEW n, FixedRequirement(n), IInv, Ballots, AllUndecided(n),
         PayloadIsValidated, VoteStep
  PROVE  PayloadIsValidated'
<1>1. ASSUME NEW u \in TaskIds, VoteKept(u) \/ VoteFresh(u), task'[u].state = "Accepted"
      PROVE  verdict'[u].from \in verdict'[u].agreeing
  BY <1>1 DEF VoteKept, VoteFresh, PayloadIsValidated
<1>2. CASE NoVote
  BY <1>1, <1>2 DEF NoVote, PayloadIsValidated
<1>3. ASSUME NEW w \in Workers, NEW t \in TaskIds, NEW a \in AnswersOf(w), Vote(w, t, a)
      PROVE  PayloadIsValidated'
  <2>1. CASE Reconsidered(w, t, a)
    BY <1>1, <1>3, <2>1 DEF Vote, Reconsidered, PayloadIsValidated
  <2>2. CASE Decided(w, t, a)
    <3> DEFINE subs == With(w, t, a)
    <3>1. task[t].holder = w /\ Ballot(task[t])
      BY <1>3 DEF Vote, CheckLease, Ballots
    <3>2. Leading(subs) = a
      BY <2>2, <3>1, VerdictIsLast DEF Decided
    <3>3. Len(subs) \in DOMAIN subs /\ subs[Len(subs)] = [worker |-> w, answer |-> a]
      BY <3>1, BallotWith
    <3> HIDE DEF subs
    <3>4. w \in Agreeing(subs)
      BY <3>2, <3>3 DEF Agreeing, Cluster
    <3>5. verdict'[t].from \in verdict'[t].agreeing
      BY <2>2, <3>4 DEF Decided, subs
    <3> QED
      BY <1>1, <1>3, <3>5 DEF Vote, PayloadIsValidated
  <2> QED
    BY <1>3, <2>1, <2>2 DEF Vote
<1> QED
  BY <1>2, <1>3 DEF VoteStep

\* Under the policies None and Fixed2x what is composited comes from a worker whose
\* answer the others confirmed.
THEOREM PayloadCorrect ==
  ASSUME NEW n, FixedRequirement(n)
  PROVE  Spec => []PayloadIsValidated
<1>1. n \in Nat \ {0} /\ Agreement \subseteq 1 .. n
  BY DEF FixedRequirement
<1>2. Init => AllUndecided(n) /\ PayloadIsValidated
  <2>1. Init => PayloadIsValidated
    BY AbsentRecord DEF Init, PayloadIsValidated
  <2> QED
    BY <1>1, <2>1, InitUndecided
<1>3. IInv /\ Ballots /\ AllUndecided(n) /\ PayloadIsValidated /\ [Next]_vars
        => AllUndecided(n)' /\ PayloadIsValidated'
  BY <1>1, NextVote, VoteKeepsUndecided, VoteKeepsPayload
<1> QED
  BY <1>2, <1>3, InductiveInvariant, BallotsInvariant, PTL DEF Spec

\* Fewer workers lie than it takes to agree.
FewLiars(n) == IsFiniteSet(Liars) /\ Cardinality(Liars) < n

\* A probe expects the truth.
ExpectedIsTrue == \A t \in TaskIds : expected[t] \in {Truth, NoAnswer}

TruthInv == /\ NoWrongAnswerAccepted /\ HonestNeverCharged
            /\ KnownAnswersAreTrue /\ ExpectedIsTrue

\* An answer with more votes than there are liars is the true one.
LEMMA ManyVotesAreTrue ==
  ASSUME NEW n \in Nat, FewLiars(n), IInv, Ballots,
         NEW w \in Workers, NEW t \in TaskIds, NEW a \in AnswersOf(w),
         task[t].holder = w, NEW b, Votes(With(w, t, a), b) >= n
  PROVE  b = Truth
<1> DEFINE subs == With(w, t, a)
<1>1. /\ subs \in Seq(Submission)
      /\ \A i, j \in DOMAIN subs : subs[i].worker = subs[j].worker => i = j
      /\ \A i \in DOMAIN subs : subs[i].answer \in AnswersOf(subs[i].worker)
  BY BallotWith DEF Ballots
<1>2. Cardinality(Liars) < Votes(subs, b) /\ IsFiniteSet(Liars)
  <2>1. Votes(subs, b) \in Nat /\ Cardinality(Liars) \in Nat
    BY <1>1, VotesAreFinite, FS_CardinalityType DEF FewLiars
  <2> QED
    BY <2>1 DEF FewLiars
<1> HIDE DEF subs
<1>3. PICK i \in DOMAIN subs : subs[i].answer = b /\ subs[i].worker \notin Liars
  BY <1>1, <1>2, HonestAmongMany
<1> QED
  BY <1>1, <1>3 DEF AnswersOf

\* Whoever fails a probe lies.
LEMMA ProbeFailureIsALie ==
  ASSUME ExpectedIsTrue, NEW w, NEW t \in TaskIds, NEW a \in AnswersOf(w)
  PROVE  ProbeFailure(w, t, a) \subseteq Liars
BY DEF ExpectedIsTrue, ProbeFailure, AnswersOf

\* A step that keeps what is expected true, if the pool is.
LEMMA VoteKeepsExpected ==
  ASSUME ExpectedIsTrue, KnownAnswersAreTrue, VoteStep
  PROVE  ExpectedIsTrue'
<1>1. ASSUME NEW u \in TaskIds, VoteKept(u) \/ VoteFresh(u)
      PROVE  expected'[u] \in {Truth, NoAnswer}
  BY <1>1 DEF VoteKept, VoteFresh, ExpectedIsTrue, KnownAnswersAreTrue
<1>2. CASE NoVote
  BY <1>1, <1>2 DEF NoVote, ExpectedIsTrue
<1>3. ASSUME NEW w \in Workers, NEW t \in TaskIds, NEW a \in AnswersOf(w), Vote(w, t, a)
      PROVE  ExpectedIsTrue'
  BY <1>1, <1>3 DEF Vote, ExpectedIsTrue
<1> QED
  BY <1>2, <1>3 DEF VoteStep

\* With too few liars to make a quorum, what is decided is true.
LEMMA VoteKeepsTruth ==
  ASSUME NEW n, FixedRequirement(n), FewLiars(n), IInv, Ballots, AllUndecided(n),
         TruthInv, VoteStep
  PROVE  TruthInv'
<1>1. ExpectedIsTrue'
  BY VoteKeepsExpected DEF TruthInv
<1>2. ASSUME NEW u \in TaskIds, VoteKept(u) \/ VoteFresh(u), task'[u].state = "Accepted"
      PROVE  verdict'[u].answer = Truth
  BY <1>2 DEF VoteKept, VoteFresh, TruthInv, NoWrongAnswerAccepted
<1>3. CASE NoVote
  <2>1. NoWrongAnswerAccepted'
    BY <1>2, <1>3 DEF NoVote, NoWrongAnswerAccepted
  <2>2. HonestNeverCharged' /\ KnownAnswersAreTrue'
    BY <1>3 DEF NoVote, TruthInv, HonestNeverCharged, KnownAnswersAreTrue
  <2> QED
    BY <1>1, <2>1, <2>2 DEF TruthInv
<1>4. ASSUME NEW w \in Workers, NEW t \in TaskIds, NEW a \in AnswersOf(w), Vote(w, t, a)
      PROVE  TruthInv'
  <2>1. /\ task[t].holder = w /\ Ballot(task[t])
        /\ \A u \in TaskIds \ {t} : VoteKept(u)
        /\ ProbeFailure(w, t, a) \subseteq Liars
    BY <1>4, ProbeFailureIsALie DEF Vote, CheckLease, Ballots, TruthInv
  <2>2. CASE Reconsidered(w, t, a)
    <3>1. NoWrongAnswerAccepted'
      BY <1>2, <2>1, <2>2 DEF Reconsidered, NoWrongAnswerAccepted
    <3>2. HonestNeverCharged' /\ KnownAnswersAreTrue'
      BY <2>1, <2>2 DEF Reconsidered, TruthInv, HonestNeverCharged, KnownAnswersAreTrue
    <3> QED
      BY <1>1, <3>1, <3>2 DEF TruthInv
  <2>3. CASE Decided(w, t, a)
    <3> DEFINE subs == With(w, t, a)
    <3>1. Leading(subs) = a /\ Votes(subs, a) >= n
      BY <2>1, <2>3, VerdictIsLast DEF Decided
    <3>2. a = Truth
      BY <2>1, <3>1, ManyVotesAreTrue DEF FixedRequirement
    <3>3. NoWrongAnswerAccepted'
      BY <1>2, <2>1, <2>3, <3>2 DEF Decided, NoWrongAnswerAccepted
    <3>4. KnownAnswersAreTrue'
      BY <2>3, <3>2 DEF Decided, TruthInv, KnownAnswersAreTrue
    <3>5. Dissenting(subs) \subseteq Liars
      <4>1. \A i \in DOMAIN subs : subs[i].answer \in AnswersOf(subs[i].worker)
        BY <2>1, BallotWith
      <4> HIDE DEF subs
      <4>2. \A i \in DOMAIN subs \ Cluster(subs, Truth) : subs[i].worker \in Liars
        BY <4>1 DEF Cluster, AnswersOf
      <4> QED
        BY <3>1, <3>2, <4>2 DEF Dissenting
    <3>6. HonestNeverCharged'
      BY <2>1, <2>3, <3>5 DEF Decided, TruthInv, HonestNeverCharged
    <3> QED
      BY <1>1, <3>3, <3>4, <3>6 DEF TruthInv
  <2> QED
    BY <1>4, <2>2, <2>3 DEF Vote
<1> QED
  BY <1>3, <1>4 DEF VoteStep

\* The invariant of the truth, for the theorems below.
LEMMA TruthInvariant ==
  ASSUME NEW n, FixedRequirement(n), FewLiars(n)
  PROVE  Spec => []TruthInv
<1>1. n \in Nat \ {0} /\ Agreement \subseteq 1 .. n
  BY DEF FixedRequirement
<1>2. Init => AllUndecided(n) /\ TruthInv
  <2>1. Init => TruthInv
    BY AbsentRecord DEF Init, TruthInv, NoWrongAnswerAccepted, HonestNeverCharged,
                        KnownAnswersAreTrue, ExpectedIsTrue
  <2> QED
    BY <1>1, <2>1, InitUndecided
<1>3. IInv /\ Ballots /\ AllUndecided(n) /\ TruthInv /\ [Next]_vars
        => AllUndecided(n)' /\ TruthInv'
  BY <1>1, NextVote, VoteKeepsUndecided, VoteKeepsTruth
<1> QED
  BY <1>2, <1>3, InductiveInvariant, BallotsInvariant, PTL DEF Spec

\* With fewer liars than the agreement asked for, no wrong answer is accepted,
\* however answers, restarts of the vote and departures interleave.
THEOREM AcceptedAnswersAreTrue ==
  ASSUME NEW n, FixedRequirement(n), FewLiars(n)
  PROVE  Spec => []NoWrongAnswerAccepted
<1>1. TruthInv => NoWrongAnswerAccepted
  BY DEF TruthInv
<1> QED
  BY <1>1, TruthInvariant, PTL

\* ... and no honest worker's reputation suffers, neither by a vote nor by a probe.
THEOREM OnlyLiarsAreCharged ==
  ASSUME NEW n, FixedRequirement(n), FewLiars(n)
  PROVE  Spec => []HonestNeverCharged
<1>1. TruthInv => HonestNeverCharged
  BY DEF TruthInv
<1> QED
  BY <1>1, TruthInvariant, PTL

(***************************************************************************)
(* Part 5: the adaptive requirement.                                       *)
(***************************************************************************)

\* No more workers agree than there are votes.
LEMMA AgreeingAreVotes ==
  ASSUME NEW subs \in Seq(Submission)
  PROVE  /\ Cardinality(Agreeing(subs)) \in Nat
         /\ Cardinality(Agreeing(subs)) <= Votes(subs, Leading(subs))
<1> DEFINE C == Cluster(subs, Leading(subs))
           A == Agreeing(subs)
           f == [i \in C |-> subs[i].worker]
<1>1. IsFiniteSet(C)
  BY VotesAreFinite
<1>2. A = {subs[i].worker : i \in C}
  BY DEF Agreeing
<1> HIDE DEF C, A
<1>3. f \in Surjection(C, A)
  BY <1>2 DEF Surjection
<1> HIDE DEF f
<1>4. Cardinality(A) \in Nat /\ Cardinality(A) <= Cardinality(C)
  BY <1>1, <1>3, FS_Surjection, FS_CardinalityType
<1> QED
  BY <1>4 DEF C, A, Votes

\* The pool takes what two workers agree on: with at most two votes ever asked for,
\* that is the last answer, and one of the two is honest.
LEMMA VoteKeepsKnown ==
  ASSUME Agreement \subseteq {1, 2}, FewLiars(2), IInv, Ballots, AllUndecided(2),
         KnownAnswersAreTrue, VoteStep
  PROVE  KnownAnswersAreTrue'
<1>1. CASE NoVote
  BY <1>1 DEF NoVote, KnownAnswersAreTrue
<1>2. ASSUME NEW w \in Workers, NEW t \in TaskIds, NEW a \in AnswersOf(w), Vote(w, t, a)
      PROVE  KnownAnswersAreTrue'
  <2>1. CASE Reconsidered(w, t, a)
    BY <2>1 DEF Reconsidered, KnownAnswersAreTrue
  <2>2. CASE Decided(w, t, a)
    <3> DEFINE subs == With(w, t, a)
               s == [worker |-> w, answer |-> a]
    <3> SUFFICES ASSUME NEW k \in known', k \notin known  PROVE  k.answer = Truth
      BY DEF KnownAnswersAreTrue
    <3>1. k.answer = a /\ Cardinality(Agreeing(subs)) >= 2
      BY <2>2 DEF Decided
    <3>2. task[t].holder = w /\ Ballot(task[t])
      BY <1>2 DEF Vote, CheckLease, Ballots
    <3>3. /\ subs \in Seq(Submission)
          /\ task[t].subs \in Seq(Submission) /\ s \in Submission
          /\ subs = Append(task[t].subs, s) /\ s.answer = a
      BY ZenonT(60), <3>2, BallotWith, SubmissionsTyped, JobManagerAssumption
      DEF Submission, AnswersOf, With
    <3>4. Votes(subs, Leading(subs)) >= 2
      <4> HIDE DEF subs
      <4>1. Votes(subs, Leading(subs)) \in Nat
        <5>1. subs \in Seq(Submission)
          BY <3>3
        <5> QED
          BY <5>1, VotesAreFinite
      <4>2. /\ Cardinality(Agreeing(subs)) \in Nat
            /\ Cardinality(Agreeing(subs)) <= Votes(subs, Leading(subs))
        BY <3>3, AgreeingAreVotes
      <4> QED
        BY <3>1, <4>1, <4>2
    <3>5. Leading(subs) = a
      <4> HIDE DEF s
      <4> QED
        BY <3>3, <3>4, GrownClusterLeads DEF AllUndecided
    <3>6. a = Truth
      BY <3>2, <3>4, <3>5, ManyVotesAreTrue
    <3> QED
      BY <3>1, <3>6
  <2> QED
    BY <1>2, <2>1, <2>2 DEF Vote
<1> QED
  BY <1>1, <1>2 DEF VoteStep

\* Nobody's unconfirmed answer becomes ground truth, whatever the records of the
\* workers make the requirement, as long as it is one or two and at most one lies.
THEOREM PoolIsTrue ==
  ASSUME Agreement \subseteq {1, 2}, FewLiars(2)
  PROVE  Spec => []KnownAnswersAreTrue
<1>1. Agreement \subseteq 1 .. 2
  OBVIOUS
<1>2. Init => AllUndecided(2) /\ KnownAnswersAreTrue
  BY InitUndecided DEF Init, KnownAnswersAreTrue
<1>3. IInv /\ Ballots /\ AllUndecided(2) /\ KnownAnswersAreTrue /\ [Next]_vars
        => AllUndecided(2)' /\ KnownAnswersAreTrue'
  BY <1>1, NextVote, VoteKeepsUndecided, VoteKeepsKnown
<1> QED
  BY <1>2, <1>3, InductiveInvariant, BallotsInvariant, PTL DEF Spec
=============================================================================
