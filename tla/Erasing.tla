------------------------------ MODULE Erasing ------------------------------
(***************************************************************************)
(* std::erase and std::erase_if on a vector or a deque, by position: the   *)
(* n-th entry that stays is the one with n such entries up to it.  (The    *)
(* provers know nothing of SelectSeq.)                                     *)
(***************************************************************************)
EXTENDS Integers, Sequences, FiniteSets

\* Place of i among the positions that stay.
Rank(i, kept) == Cardinality({j \in kept : j <= i})

\* s without the members of S, in the order they have.
Erased(s, S) ==
  LET kept == {i \in DOMAIN s : s[i] \notin S}
  IN  IF kept = DOMAIN s THEN s
      ELSE [n \in 1 .. Cardinality(kept) |-> s[CHOOSE i \in kept : Rank(i, kept) = n]]
=============================================================================
