----------------------------- MODULE MockWorker -----------------------------
(***************************************************************************)
(* A virtual worker of the chaos harness (virtual_worker.cpp): what it     *)
(* asks for, the task it simulates, how it misbehaves, and the counts that *)
(* the experiments report (E3 abandoned, E4 lied, E5 revoked).             *)
(*                                                                         *)
(* The fleet's loop polls; the transport's callbacks run on a thread of    *)
(* their own.  The inbox has a lock, in_flight_ has none: a connection     *)
(* that closes while Poll is in the queue of tasks is a data race, whose   *)
(* outcome is left open here ("undefined").                                *)
(***************************************************************************)
EXTENDS Erasing

CONSTANTS
  MockTasks,    \* tasks the coordinator may grant, each once
  HonestTasks   \* honest_tasks_before_lying; 0: a liar from the start

ASSUME MockAssumption == HonestTasks \in Nat /\ IsFiniteSet(MockTasks)

VARIABLES
  mpc,        \* where Poll is
  link,       \* the connection: "connecting", "open", "closing" or "closed"
  inbox,      \* inbox_
  shook,      \* handshaked_
  asked,      \* lease_outstanding_
  flight,     \* in_flight_
  finishing,  \* the task FinishTask was called with
  stats,      \* WorkerStats
  begun,      \* tasks that BeginTask was called with
  lease       \* at the coordinator: whether it was asked, has a score; its tasks

mockVars == <<mpc, link, inbox, shook, asked, flight, finishing, stats, begun, lease>>

Counts == {"completed", "lied", "abandoned", "revoked"}
Counted(what, n) == [stats EXCEPT ![what] = @ + n]

-----------------------------------------------------------------------------
(* The transport's thread, and the coordinator behind it.                  *)

\* Start's OnOpen sends the Hello.
OnOpen ==
  /\ link = "connecting" /\ link' = "open"
  /\ inbox' = <<[body |-> "welcome"], [body |-> "benchmark"]>>
  /\ UNCHANGED <<mpc, shook, asked, flight, finishing, stats, begun, lease>>

\* Mutant of AbandonedOnClose: what is in flight is dropped uncounted.
ForgottenOnClose == stats

AbandonedOnClose == Counted("abandoned", Len(flight))

\* Start's OnClosed: what is in flight is abandoned.
OnClosed ==
  /\ link \in {"open", "closing"} /\ link' = "closed"
  /\ shook' = FALSE /\ asked' = FALSE
  /\ \/ stats' = AbandonedOnClose /\ flight' = <<>> /\ UNCHANGED mpc
     \/ mpc # "idle" /\ mpc' = "undefined" /\ UNCHANGED <<stats, flight>>
  /\ UNCHANGED <<inbox, finishing, begun, lease>>

\* Transport::Close: OnClosed comes later.
Closing == IF link = "open" THEN "closing" ELSE link

Receives(frame) == link = "open" /\ inbox' = Append(inbox, frame)

\* OnLeaseRequest at the coordinator: a task, or no answer at all.
AnswersLease ==
  /\ lease.asked
  /\ \/ /\ lease.scored
        /\ \E t \in lease.tasks :
             /\ Receives([body |-> "grant", task |-> t])
             /\ lease' = [lease EXCEPT !.asked = FALSE, !.tasks = @ \ {t}]
     \/ lease' = [lease EXCEPT !.asked = FALSE] /\ UNCHANGED inbox
  /\ UNCHANGED <<mpc, link, shook, asked, flight, finishing, stats, begun>>

\* A race was lost.
Revokes ==
  /\ \E t \in begun : Receives([body |-> "revoke", task |-> t])
  /\ Len(inbox) < 2
  /\ UNCHANGED <<mpc, link, shook, asked, flight, finishing, stats, begun, lease>>

-----------------------------------------------------------------------------
(* OnFrame.                                                                *)

\* The sleeper: by the tasks completed, since that is what earns trust.
StillHonest == stats["completed"] < HonestTasks

\* BeginTask computes the answer, true or not, and waits out the duration.
\* Parameters that cannot be read leave nothing in flight.
BeginTask(t) ==
  \/ /\ flight' = Append(flight, t)
     /\ begun' = begun \cup {t}
     /\ \/ UNCHANGED stats
        \/ ~StillHonest /\ stats' = Counted("lied", 1)
  \/ UNCHANGED <<flight, begun, stats>>

OnFrame ==
  /\ mpc = "frames" /\ inbox # <<>>
  /\ inbox' = Tail(inbox)
  /\ LET frame == Head(inbox)
     IN  \/ /\ frame.body = "welcome" /\ shook' = TRUE
            /\ UNCHANGED <<asked, flight, stats, begun, lease>>
         \/ /\ frame.body = "benchmark"
            /\ lease' = [lease EXCEPT !.scored = (link = "open")]
            /\ UNCHANGED <<shook, asked, flight, stats, begun>>
         \/ /\ frame.body = "revoke"
            /\ flight' = Erased(flight, {frame.task})
            /\ stats' = Counted("revoked", Len(flight) - Len(flight'))
            /\ UNCHANGED <<shook, asked, begun, lease>>
         \/ /\ frame.body = "grant" /\ asked' = FALSE
            /\ BeginTask(frame.task)
            /\ UNCHANGED <<shook, lease>>
  /\ UNCHANGED <<mpc, link, finishing>>

-----------------------------------------------------------------------------
(* Poll.                                                                   *)

Goes(from, to) == mpc = from /\ mpc' = to

PollBegins ==
  /\ Goes("idle", "frames")
  /\ UNCHANGED <<link, inbox, shook, asked, flight, finishing, stats, begun, lease>>

InboxEmpty ==
  /\ Goes("frames", "tasks") /\ inbox = <<>>
  /\ UNCHANGED <<link, inbox, shook, asked, flight, finishing, stats, begun, lease>>

\* The front task's duration is over: it leaves the queue.
TakesFinished ==
  /\ Goes("tasks", "finishing") /\ flight # <<>>
  /\ finishing' = {Head(flight)} /\ flight' = Tail(flight)
  /\ UNCHANGED <<link, inbox, shook, asked, stats, begun, lease>>

\* FinishTask: sent, once or twice, whatever Send says; or the worker dies.
FinishTask ==
  /\ Goes("finishing", "tasks") /\ finishing' = {}
  /\ \/ stats' = Counted("completed", 1) /\ UNCHANGED link
     \/ stats' = Counted("abandoned", 1) /\ link' = Closing
  /\ UNCHANGED <<inbox, shook, asked, flight, begun, lease>>

MayAsk == shook /\ flight = <<>> /\ ~asked

\* RequestLease; it counts as out only when Send took it.
RequestLease ==
  /\ Goes("tasks", "idle") /\ MayAsk
  /\ asked' = (link = "open")
  /\ lease' = [lease EXCEPT !.asked = (link = "open")]
  /\ UNCHANGED <<link, inbox, shook, flight, finishing, stats, begun>>

\* A flap: only with nothing in flight.  Nobody starts the worker again.
Flaps ==
  /\ Goes("tasks", "idle") /\ shook /\ flight = <<>>
  /\ link' = Closing
  /\ UNCHANGED <<inbox, shook, asked, flight, finishing, stats, begun, lease>>

\* Before next_action_, not handshaked, or only noise to send.
PollEnds ==
  /\ Goes("tasks", "idle")
  /\ UNCHANGED <<link, inbox, shook, asked, flight, finishing, stats, begun, lease>>

-----------------------------------------------------------------------------
MockInit ==
  /\ mpc = "idle" /\ link = "connecting" /\ inbox = <<>>
  /\ shook = FALSE /\ asked = FALSE /\ flight = <<>> /\ finishing = {}
  /\ stats = [c \in Counts |-> 0] /\ begun = {}
  /\ lease = [asked |-> FALSE, scored |-> FALSE, tasks |-> MockTasks]

MockNext ==
  \/ OnOpen \/ OnClosed \/ AnswersLease \/ Revokes
  \/ OnFrame \/ PollBegins \/ InboxEmpty \/ TakesFinished \/ FinishTask
  \/ RequestLease \/ Flaps \/ PollEnds

MockSpec == MockInit /\ [][MockNext]_mockVars

-----------------------------------------------------------------------------
(* Properties, of the executions without the race.                         *)

\* The experiment's books balance: each task begun is in flight, being
\* finished, or in exactly one of the counts, whatever order the revoke, the
\* close and the end of its duration come in.
TasksAccounted ==
  mpc # "undefined" =>
    Cardinality(begun) = Len(flight) + Cardinality(finishing)
      + stats["completed"] + stats["abandoned"] + stats["revoked"]

\* A virtual worker simulates one device: it never has two tasks, also with
\* frames of a closed connection still in the inbox.
OneTaskAtATime == mpc # "undefined" => Len(flight) + Cardinality(finishing) <= 1

\* The sleeper defects only after the record that buys its trust: a task that
\* was revoked or abandoned does not count towards it.
SleeperEarnsTrustFirst == stats["lied"] > 0 => stats["completed"] >= HonestTasks

\* An experiment with mock workers measures what it says: one device each,
\* every task in one count, and no defection before it was paid for, whatever
\* the transport's thread does between two steps of a Poll.
ExperimentIsSound == TasksAccounted /\ OneTaskAtATime /\ SleeperEarnsTrustFirst
=============================================================================
