------------------------------ MODULE Standing ------------------------------
(***************************************************************************)
(* A worker's standing at the coordinator: the ReputationTable             *)
(* (reputation.cpp) as Session uses it, how many submissions a result      *)
(* needs by it (RequiredAgreementFor, quorum.cpp), and the resume token    *)
(* that carries it from one connection to the next.                        *)
(*                                                                         *)
(* alpha and beta are kept in quarters, the smallest severity.  Time is    *)
(* what is left of a cooldown.                                             *)
(***************************************************************************)
EXTENDS Integers, FiniteSets

CONSTANTS
  Judged,          \* worker identities
  Tokens,          \* resume tokens, drawn without repetition
  NoToken,         \* not a token
  Prior,           \* alpha0 and beta0, in quarters
  Severities,      \* what SeverityFromDeviation returns, in quarters
  MaxPenalty,      \* max_penalty, in quarters
  BlacklistBelow,  \* blacklist_below, in percent
  TrustedAt,       \* trusted_at, in percent
  Cooldown,        \* cooldown_ms, in ticks
  Agreement,       \* required_agreement
  MaxCopies,       \* max_replicas
  MaxRecord        \* bound: alpha + beta

ASSUME StandingAssumption ==
  /\ Prior \in Nat \ {0} /\ MaxPenalty \in Nat /\ Severities \subseteq Nat
  /\ BlacklistBelow \in 0 .. 100 /\ TrustedAt \in BlacklistBelow .. 100
  /\ Cooldown \in Nat \ {0} /\ MaxRecord \in Nat
  /\ Agreement \in Nat /\ MaxCopies \in Nat /\ 1 < Agreement /\ Agreement < MaxCopies
  /\ NoToken \notin Tokens

NotBarred == -1      \* blacklisted_until_ms is 0

VARIABLES
  rep,       \* workers_: alpha, beta and on_probation
  bar,       \* blacklisted_until_ms: NotBarred, or the ticks to go (0: passed)
  owes,      \* the worker has a task out whose result will be judged
  fallen,    \* history: blacklisted, and not trusted again since
  tokenOf,   \* tokens_
  byToken,   \* by_token_: the worker, or none
  minted     \* tokens drawn

standingVars == <<rep, bar, owes, fallen, tokenOf, byToken, minted>>

AtLeast(r, percent) == 100 * r.alpha >= percent * (r.alpha + r.beta)

-----------------------------------------------------------------------------
(* Results.                                                                *)

\* Mutant of Redeemed: one right answer ends the probation.
RedeemedAtOnce(r) == [r EXCEPT !.probation = FALSE]

\* Probation ends by a score that is trusted.
Redeemed(r) ==
  [r EXCEPT !.probation = @ /\ ~AtLeast(r, TrustedAt)]

RecordAccepted(w) ==
  LET r == Redeemed([rep[w] EXCEPT !.alpha = @ + 4])
  IN  /\ rep' = [rep EXCEPT ![w] = r]
      /\ fallen' = IF AtLeast(r, TrustedAt) THEN fallen \ {w} ELSE fallen
      /\ UNCHANGED bar

\* A known answer missed counts twice; one answer costs at most MaxPenalty.
Penalty(severity, probe) ==
  LET s == IF probe THEN 2 * severity ELSE severity
  IN  IF s > MaxPenalty THEN MaxPenalty ELSE s

\* MaybeBlacklist: not while a cooldown runs.
Barred(w, r) ==
  IF bar[w] > 0 \/ AtLeast(r, BlacklistBelow) THEN bar[w] ELSE Cooldown

\* RecordRejected, and MaybeBlacklist after it.
RecordRejected(w, severity, probe) ==
  LET r == [rep[w] EXCEPT !.beta = @ + Penalty(severity, probe)]
  IN  /\ rep' = [rep EXCEPT ![w] = r]
      /\ bar' = [bar EXCEPT ![w] = Barred(w, r)]
      /\ fallen' = IF Barred(w, r) # bar[w] THEN fallen \cup {w} ELSE fallen

\* A result of w is judged: by a quorum, or as a probe.
Judge(w) ==
  /\ owes[w] /\ owes' = [owes EXCEPT ![w] = FALSE]
  /\ rep[w].alpha + rep[w].beta < MaxRecord
  /\ \/ RecordAccepted(w)
     \/ \E s \in Severities, probe \in BOOLEAN : RecordRejected(w, s, probe)
  /\ UNCHANGED <<tokenOf, byToken, minted>>

\* How many submissions a result of w needs, under the adaptive policy.
RequiredAgreementFor(w) ==
  IF rep[w].probation \/ bar[w] > 0 THEN MaxCopies
    ELSE IF AtLeast(rep[w], TrustedAt) THEN 1 ELSE Agreement

-----------------------------------------------------------------------------
(* Leases.                                                                 *)

\* Mutant of StillBarred: the deadline is not compared with the clock.
BarredForGood(w) == bar[w] # NotBarred

StillBarred(w) == bar[w] > 0

\* IsBlacklisted in OnLeaseRequest: refused; or a served cooldown becomes
\* probation, and the worker is granted a task.
AsksForLease(w) ==
  /\ ~StillBarred(w) /\ ~owes[w]
  /\ owes' = [owes EXCEPT ![w] = TRUE]
  /\ bar' = [bar EXCEPT ![w] = NotBarred]
  /\ rep' = [rep EXCEPT ![w].probation = @ \/ bar[w] # NotBarred]
  /\ UNCHANGED <<fallen, tokenOf, byToken, minted>>

\* The result is never judged: a release, a lost lease, a tie.
GoesUnjudged(w) ==
  /\ owes[w] /\ owes' = [owes EXCEPT ![w] = FALSE]
  /\ UNCHANGED <<rep, bar, fallen, tokenOf, byToken, minted>>

\* The clock, for every cooldown that runs.
Elapses ==
  /\ \E w \in Judged : bar[w] > 0
  /\ bar' = [w \in Judged |-> IF bar[w] > 0 THEN bar[w] - 1 ELSE bar[w]]
  /\ UNCHANGED <<rep, owes, fallen, tokenOf, byToken, minted>>

-----------------------------------------------------------------------------
(* Tokens.                                                                 *)

\* MintToken takes the worker's old token back.
Replaced(w) ==
  [t \in Tokens |-> IF t = tokenOf[w] THEN {} ELSE byToken[t]]

MintToken(w) ==
  \E t \in Tokens \ minted :
    /\ byToken' = [Replaced(w) EXCEPT ![t] = {w}]
    /\ tokenOf' = [tokenOf EXCEPT ![w] = t]
    /\ minted' = minted \cup {t}

\* OnHello with a token: whoever it resolves to, else somebody new; and
\* either way a new token.
OnHelloWith(t) ==
  /\ \/ \E w \in byToken[t] : MintToken(w)
     \/ byToken[t] = {} /\ \E w \in Judged : tokenOf[w] = NoToken /\ MintToken(w)
  /\ UNCHANGED <<rep, bar, owes, fallen>>

-----------------------------------------------------------------------------
StandingInit ==
  /\ rep = [w \in Judged |-> [alpha |-> Prior, beta |-> Prior, probation |-> FALSE]]
  /\ bar = [w \in Judged |-> NotBarred] /\ owes = [w \in Judged |-> FALSE] /\ fallen = {}
  /\ tokenOf = [w \in Judged |-> NoToken] /\ byToken = [t \in Tokens |-> {}] /\ minted = {}

StandingNext ==
  \/ Elapses
  \/ \E w \in Judged : Judge(w) \/ AsksForLease(w) \/ GoesUnjudged(w)
  \/ \E t \in Tokens : OnHelloWith(t)

StandingSpec == StandingInit /\ [][StandingNext]_standingVars

\* The clock goes on; an idle worker asks again.
StandingFairness ==
  /\ WF_standingVars(Elapses)
  /\ \A w \in Judged : WF_standingVars(AsksForLease(w)) /\ WF_standingVars(GoesUnjudged(w))

-----------------------------------------------------------------------------
(* Properties.                                                             *)

\* Waiting launders nothing: from its blacklisting until its score is trusted
\* again a worker's results need the largest quorum, through cooldown,
\* probation, right answers and new blacklistings.  Between the end of the
\* cooldown and the next lease request nothing says so yet (bar is 0).
WatchedUntilTrusted ==
  \A w \in fallen : bar[w] # 0 => RequiredAgreementFor(w) = MaxCopies

\* A blacklist is never permanent: a worker that keeps asking has work again,
\* whatever else is judged against it meanwhile.
BlacklistEnds == \A w \in Judged : bar[w] # NotBarred ~> bar[w] = NotBarred

\* A token is good for one worker and only while it is that worker's newest:
\* an identity cannot be resumed with a token that was replaced.
NewestTokenOnly ==
  \A t \in Tokens : \A w \in byToken[t] : tokenOf[w] = t
=============================================================================
