------------------------------- MODULE Sizing -------------------------------
(***************************************************************************)
(* How large a task one worker is given (sizer.cpp), and how the estimate  *)
(* behind it learns: a grant notes what it predicts in the worker's record *)
(* (Session::OnLeaseRequest), an accepted result compares (OnResultHeader) *)
(* and so does an expired lease (Server::Sweep).                           *)
(*                                                                         *)
(* Time goes in ticks and the worker claims one unit per tick, so a task's *)
(* prediction is its number of units.  A correction is kept in tenths,     *)
(* rounded down.  The worker really needs `slowness` ticks per unit, and   *)
(* now and then it stalls: the result of that task never comes.            *)
(***************************************************************************)
EXTENDS Integers, FiniteSets

CONSTANTS
  Target,         \* kTargetTaskMs
  LeaseTime,      \* lease_ms
  ProbeDivisor,   \* kProbeDivisor
  MinUnits,       \* r5_min_units
  MaxUnits,       \* kMaxUnitsPerTask
  Left,           \* what may be left of the job: members of Nat
  MinCorrection,  \* kMinCorrection, in tenths
  MaxCorrection,  \* kMaxCorrection, in tenths
  Slowness,       \* true ticks per unit looked at
  Throttles,      \* the user's throttle, in tenths
  MaxFlight       \* bound: tasks in flight at once

ASSUME SizingAssumption ==
  /\ {Target, LeaseTime, ProbeDivisor, MaxUnits, MaxFlight} \subseteq Nat \ {0}
  /\ MinUnits \in Nat /\ MinUnits <= MaxUnits
  /\ Left \subseteq Nat
  /\ MinCorrection \in 1 .. 10 /\ MaxCorrection \in Nat /\ 10 <= MaxCorrection
  /\ Slowness \subseteq Nat \ {0}
  /\ Throttles \subseteq 0 .. 10

VARIABLES
  slowness,    \* the worker's true ticks per unit
  throttle,    \* WorkerRecord::throttle
  correction,  \* WorkerRecord::correction
  predicted,   \* WorkerRecord::predicted_ms, 0 when there is none
  since,       \* ticks since WorkerRecord::granted_at_ms, up to LeaseTime
  proven,      \* tasks_completed > 0
  running      \* the tasks in flight: slot to units, age, and whether it stalls

sizingVars == <<slowness, throttle, correction, predicted, since, proven, running>>

Slots == 1 .. MaxFlight
Idle == [units |-> 0, age |-> 0, stalls |-> FALSE]
InFlight(s) == running[s].units > 0

AtMost(a, b) == IF a < b THEN a ELSE b
NotUnder(a, b) == IF a < b THEN b ELSE a
Clamped(x, lo, hi) == AtMost(NotUnder(x, lo), hi)

-----------------------------------------------------------------------------
(* sizer.cpp.                                                              *)

\* What the worker should manage in the target or in half a lease.
Fitting(time) ==
  (time * throttle)
    \div (correction * (IF proven THEN 1 ELSE ProbeDivisor))

\* The target, the lease, the floor, the ceiling, what is left: in that order.
ComputeTaskSize(left) ==
  IF left = 0 \/ throttle = 0 THEN 0
  ELSE AtMost(AtMost(NotUnder(NotUnder(AtMost(Fitting(Target), Fitting(LeaseTime \div 2)), 1),
                              MinUnits), MaxUnits), left)

\* Mutant of UpdateCorrection: the worst that was seen is kept.
UpdateToWorst(actual) ==
  IF predicted = 0 \/ actual = 0 THEN correction
  ELSE NotUnder(Clamped((actual * 10) \div predicted, MinCorrection, MaxCorrection), correction)

\* The average of actual over predicted, with a weight of 0.3.
UpdateCorrection(actual) ==
  IF predicted = 0 \/ actual = 0 THEN correction
  ELSE Clamped((7 * correction
                  + 3 * Clamped((actual * 10) \div predicted, MinCorrection, MaxCorrection))
                 \div 10, MinCorrection, MaxCorrection)

-----------------------------------------------------------------------------
(* The coordinator.                                                        *)

\* OnLeaseRequest: one slot of the record, however many tasks are out.
GrantSized(s, left, stalls) ==
  /\ ~InFlight(s)
  /\ LET n == ComputeTaskSize(left)
     IN  /\ n > 0
         /\ running' = [running EXCEPT ![s] = [units |-> n, age |-> 0, stalls |-> stalls]]
         /\ predicted' = n
  /\ since' = 0
  /\ UNCHANGED <<slowness, throttle, correction, proven>>

Due(s) == InFlight(s) /\ ~running[s].stalls /\ running[s].age = slowness * running[s].units

\* OnResultHeader, accepted.  The clock of the slot is read, not the task's.
AcceptSized(s) ==
  /\ Due(s) /\ running[s].age < LeaseTime
  /\ correction' = UpdateCorrection(since)
  /\ predicted' = 0
  /\ proven' = TRUE
  /\ running' = [running EXCEPT ![s] = Idle]
  /\ UNCHANGED <<slowness, throttle, since>>

\* Mutant of LearnedFromExpiry: only completed tasks are evidence.
NothingFromExpiry == correction

\* At least a whole lease, for a task that was to take what was predicted.
LearnedFromExpiry == UpdateCorrection(LeaseTime)

\* Sweep, one lease past its deadline.
ExpireSized(s) ==
  /\ InFlight(s) /\ running[s].age = LeaseTime
  /\ correction' = LearnedFromExpiry
  /\ predicted' = 0
  /\ running' = [running EXCEPT ![s] = Idle]
  /\ UNCHANGED <<slowness, throttle, since, proven>>

\* OnRelease, or a revoke: the record is left as it is.
ReleaseSized(s) ==
  /\ InFlight(s)
  /\ running' = [running EXCEPT ![s] = Idle]
  /\ UNCHANGED <<slowness, throttle, correction, predicted, since, proven>>

\* OnThrottle
SetThrottle(level) ==
  /\ throttle' = level
  /\ UNCHANGED <<slowness, correction, predicted, since, proven, running>>

\* A result comes when it is due, and an expired lease is swept.
TimePasses ==
  /\ \E s \in Slots : InFlight(s)
  /\ \A s \in Slots : InFlight(s) => running[s].age < LeaseTime /\ ~Due(s)
  /\ running' = [s \in Slots |-> IF InFlight(s) THEN [running[s] EXCEPT !.age = @ + 1]
                                ELSE running[s]]
  /\ since' = AtMost(since + 1, LeaseTime)
  /\ UNCHANGED <<slowness, throttle, correction, predicted, proven>>

-----------------------------------------------------------------------------
WorkerWith(k) ==
  /\ slowness = k /\ throttle = 10
  /\ correction = 10 /\ predicted = 0 /\ since = 0 /\ proven = FALSE
  /\ running = [s \in Slots |-> Idle]

SizingInit == \E k \in Slowness : WorkerWith(k)

SizingNext ==
  \/ \E s \in Slots : \/ AcceptSized(s) \/ ExpireSized(s) \/ ReleaseSized(s)
                      \/ \E left \in Left, stalls \in BOOLEAN : GrantSized(s, left, stalls)
  \/ \E level \in Throttles : SetThrottle(level)
  \/ TimePasses

SizingSpec == SizingInit /\ [][SizingNext]_sizingVars
-----------------------------------------------------------------------------
(* Properties.                                                             *)

\* "A worker whose first task is wildly oversized" does not expire "forever"
\* (net.cpp:113-114): of leases that run out again and again, of a worker that
\* does answer in the end and can do the floor in one lease, one is answered
\* in time.
OversizedLearns ==
  /\ []<><<\E s \in Slots : ExpireSized(s)>>_sizingVars
  /\ <>[](\A s \in Slots : ~running[s].stalls /\ slowness * NotUnder(MinUnits, 1) < LeaseTime)
  => <>proven

\* "One bad sample must not permanently exile a machine" (sizer.cpp:95): once
\* a worker no longer stalls and has one task at a time, its accepted results
\* bring the estimate down to its true speed for good, whatever went before.
StallForgotten ==
  /\ <>[](\A s \in Slots : ~running[s].stalls)
  /\ <>[](Cardinality({s \in Slots : InFlight(s)}) <= 1)
  /\ []<><<\E s \in Slots : AcceptSized(s)>>_sizingVars
  => <>[](correction <= 10 * slowness)
=============================================================================
