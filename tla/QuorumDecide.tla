---------------------------- MODULE QuorumDecide ----------------------------
(***************************************************************************)
(* The verdict of src/coordinator/quorum.cpp on the answers one task has   *)
(* received, for a kernel whose determinism is Exact: two answers agree    *)
(* iff their checksums are equal, so the clusters the code builds are the  *)
(* classes of equal answers, in the order of their first member.           *)
(***************************************************************************)
EXTENDS Integers, Sequences, FiniteSets

CONSTANT MaxReplicas     \* QuorumConfig::max_replicas

ASSUME MaxReplicasAssumption == MaxReplicas \in Nat \ {0}

\* The indices of the submissions that carry answer a.
Cluster(subs, a) == {i \in DOMAIN subs : subs[i].answer = a}

Votes(subs, a) == Cardinality(Cluster(subs, a))

\* The answer of the largest cluster; the scan keeps the earlier cluster on a
\* tie because a later one must be strictly larger to replace it.
Leading(subs) ==
  LET Largest == {i \in DOMAIN subs :
                    \A j \in DOMAIN subs :
                      Votes(subs, subs[j].answer) <= Votes(subs, subs[i].answer)}
  IN  subs[CHOOSE i \in Largest : \A j \in Largest : i <= j].answer

\* Mutants of Decide: half of the answers pass for a majority at the cap, or the
\* answers are counted and not the agreement among them.
DecideAtHalf(subs, required) ==
  LET best == Votes(subs, Leading(subs))
  IN  CASE best >= required           -> "Accept"
        [] /\ best < required
           /\ Len(subs) < MaxReplicas -> "NeedMoreReplicas"
        [] /\ best < required
           /\ Len(subs) >= MaxReplicas
           /\ 2 * best >= Len(subs)   -> "Accept"
        [] OTHER                      -> "Inconclusive"
DecideByCount(subs, required) ==
  IF Len(subs) >= required THEN "Accept" ELSE "NeedMoreReplicas"

\* Decide: enough agreement accepts, room for another opinion asks for one, a
\* strict majority accepts at the cap, anything else is inconclusive.
Decide(subs, required) ==
  LET best == Votes(subs, Leading(subs))
  IN  CASE best >= required          -> "Accept"
        [] /\ best < required
           /\ Len(subs) < MaxReplicas -> "NeedMoreReplicas"
        [] /\ best < required
           /\ Len(subs) >= MaxReplicas
           /\ 2 * best > Len(subs)    -> "Accept"
        [] OTHER                      -> "Inconclusive"

\* QuorumResult::agreeing and ::dissenting, the workers credited and charged.
Agreeing(subs) == {subs[i].worker : i \in Cluster(subs, Leading(subs))}
Dissenting(subs) ==
  {subs[i].worker : i \in DOMAIN subs \ Cluster(subs, Leading(subs))}
=============================================================================
