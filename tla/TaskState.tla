------------------------------ MODULE TaskState ------------------------------
(***************************************************************************)
(* The lifecycle of one task: the states, the events and the transition    *)
(* function of include/p2pgpu/coordinator/task_state.hpp.  The code        *)
(* returns an error for a pair it does not list; here the answer is        *)
(* Illegal, which is not a state, so a caller that ignored it would leave  *)
(* the type invariant.                                                     *)
(***************************************************************************)

TaskStates == {"Queued", "Leased", "Validating", "NeedsReplica",
               "Accepted", "Rejected", "Cancelled"}

TaskEvents == {"Grant", "Renew", "Submit", "LeaseExpired", "Release", "Accept",
               "Disagreement", "IssueReplica", "Reject", "Cancel"}

IsTerminal(s) == s \in {"Accepted", "Rejected", "Cancelled"}

Illegal == "Illegal"

Advance(from, ev) ==
  CASE from = "Queued" /\ ev = "Grant"                            -> "Leased"
    [] from = "Leased" /\ ev = "Renew"                            -> "Leased"
    [] from = "Leased" /\ ev = "Submit"                           -> "Validating"
    [] from = "Leased" /\ ev \in {"LeaseExpired", "Release"}      -> "Queued"
    [] from \in {"Leased", "Validating", "NeedsReplica"}
         /\ ev = "Cancel"                                         -> "Cancelled"
    [] from = "Validating" /\ ev = "Accept"                       -> "Accepted"
    [] from = "Validating" /\ ev = "Reject"                       -> "Rejected"
    [] from = "Validating" /\ ev = "Disagreement"                 -> "NeedsReplica"
    [] from = "NeedsReplica" /\ ev = "IssueReplica"               -> "Queued"
    [] OTHER                                                      -> Illegal

\* JobManager::Apply refuses the event, leaving the task as it was, when this
\* is false.
Legal(from, ev) == Advance(from, ev) # Illegal
=============================================================================
