----------------------------- MODULE DataLemmas -----------------------------
(***************************************************************************)
(* Facts about the data the models are made of, cited by the proofs.       *)
(*                                                                         *)
(* 1. A queue of ids that holds exactly the members of a set, each once,   *)
(*    and what the operations on std::deque that job.cpp uses do to it.    *)
(* 2. Numbers: quotients, and the least member of a set.                   *)
(* 3. What std::erase and std::erase_if leave.                             *)
(***************************************************************************)
EXTENDS Erasing, SequencesExt, FiniteSetTheorems, SequenceTheorems,
        WellFoundedInduction, TLAPS

\* q lists every member of Q once and nothing else.
Enumerates(q, Q) ==
  /\ ToSet(q) = Q
  /\ \A i, j \in DOMAIN q : q[i] = q[j] => i = j

\* push_back of an id that is not queued.
LEMMA EnumeratesAppend ==
  ASSUME NEW S, NEW q \in Seq(S), NEW Q, NEW t \in S, t \notin Q, Enumerates(q, Q)
  PROVE  Append(q, t) \in Seq(S) /\ Enumerates(Append(q, t), Q \cup {t})
<1> DEFINE r == Append(q, t)
<1>1. r \in Seq(S) /\ DOMAIN r = 1 .. (Len(q) + 1) /\ DOMAIN q = 1 .. Len(q)
      /\ Len(q) \in Nat
  OBVIOUS
<1>2. /\ \A i \in DOMAIN q : r[i] = q[i]
      /\ r[Len(q) + 1] = t
  OBVIOUS
<1>3. \A i \in DOMAIN q : q[i] \in Q
  BY DEF Enumerates, ToSet
<1>4. \A x \in Q : \E i \in DOMAIN q : q[i] = x
  BY DEF Enumerates, ToSet
<1> HIDE DEF r
<1>5. ToSet(r) = Q \cup {t}
  <2>1. \A x \in ToSet(r) : x \in Q \cup {t}
    BY <1>1, <1>2, <1>3 DEF ToSet
  <2>2. \A x \in Q \cup {t} : \E i \in DOMAIN r : r[i] = x
    BY <1>1, <1>2, <1>4
  <2> QED
    BY <2>1, <2>2 DEF ToSet
<1>6. \A i, j \in DOMAIN r : r[i] = r[j] => i = j
  BY <1>1, <1>2, <1>3 DEF Enumerates
<1> QED
  BY <1>1, <1>5, <1>6 DEF Enumerates, r

\* erase of one entry.
LEMMA EnumeratesRemoveAt ==
  ASSUME NEW S, NEW q \in Seq(S), NEW Q, NEW k \in DOMAIN q, Enumerates(q, Q)
  PROVE  RemoveAt(q, k) \in Seq(S) /\ Enumerates(RemoveAt(q, k), Q \ {q[k]})
<1> DEFINE r == RemoveAt(q, k)
<1>1. Len(q) \in Nat /\ DOMAIN q = 1 .. Len(q) /\ k \in 1 .. Len(q)
  OBVIOUS
<1>2. /\ r \in Seq(S) /\ Len(r) = Len(q) - 1
      /\ \A i \in 1 .. (Len(q) - 1) : r[i] = IF i < k THEN q[i] ELSE q[i + 1]
  <2> DEFINE a == SubSeq(q, 1, k - 1)
             b == SubSeq(q, k + 1, Len(q))
  <2>1. /\ a \in Seq(S) /\ Len(a) = k - 1
        /\ \A i \in 1 .. (k - 1) : a[i] = q[i]
    BY <1>1
  <2>2. /\ b \in Seq(S) /\ Len(b) = Len(q) - k
        /\ \A i \in 1 .. (Len(q) - k) : b[i] = q[k + i]
    BY <1>1
  <2>3. r = a \o b
    BY DEF RemoveAt
  <2> HIDE DEF a, b, r
  <2>4. /\ r \in Seq(S) /\ Len(r) = Len(a) + Len(b)
        /\ \A i \in 1 .. Len(r) : r[i] = IF i <= Len(a) THEN a[i] ELSE b[i - Len(a)]
    BY <2>1, <2>2, <2>3, ConcatProperties
  <2>5. ASSUME NEW i \in 1 .. (Len(q) - 1)
        PROVE  r[i] = IF i < k THEN q[i] ELSE q[i + 1]
    <3>1. CASE i < k
      BY <3>1, <1>1, <2>1, <2>2, <2>4
    <3>2. CASE i >= k
      <4>1. i - (k - 1) \in 1 .. (Len(q) - k) /\ k + (i - (k - 1)) = i + 1
        BY <3>2, <1>1
      <4>2. r[i] = b[i - (k - 1)]
        BY <3>2, <1>1, <2>1, <2>2, <2>4
      <4> QED
        BY <4>1, <4>2, <3>2, <2>2, <1>1
    <3> QED
      BY <3>1, <3>2, <1>1
  <2> QED
    BY <1>1, <2>1, <2>2, <2>4, <2>5
<1> HIDE DEF r
<1>3. DOMAIN r = 1 .. (Len(q) - 1)
  BY <1>2
<1>4. ToSet(r) = Q \ {q[k]}
  <2>1. ASSUME NEW i \in DOMAIN r PROVE r[i] \in Q \ {q[k]}
    <3>1. CASE i < k
      BY <3>1, <1>1, <1>2, <1>3 DEF Enumerates, ToSet
    <3>2. CASE i >= k
      <4>1. i + 1 \in DOMAIN q /\ i + 1 # k /\ r[i] = q[i + 1]
        BY <3>2, <1>1, <1>2, <1>3
      <4> QED
        BY <4>1 DEF Enumerates, ToSet
    <3> QED
      BY <3>1, <3>2, <1>1, <1>3
  <2>2. ASSUME NEW x \in Q \ {q[k]} PROVE \E i \in DOMAIN r : r[i] = x
    <3>1. PICK j \in DOMAIN q : q[j] = x
      BY DEF Enumerates, ToSet
    <3>2. CASE j < k
      BY <3>1, <3>2, <1>1, <1>2, <1>3
    <3>3. CASE j > k
      <4>1. j - 1 \in DOMAIN r /\ r[j - 1] = q[(j - 1) + 1]
        BY <3>3, <3>1, <1>1, <1>2, <1>3
      <4>2. (j - 1) + 1 = j
        BY <1>1
      <4> QED
        BY <4>1, <4>2, <3>1
    <3> QED
      BY <3>1, <3>2, <3>3, <1>1
  <2> QED
    BY <2>1, <2>2 DEF ToSet
<1>5. ASSUME NEW i \in DOMAIN r, NEW j \in DOMAIN r, r[i] = r[j] PROVE i = j
  <2> DEFINE at(n) == IF n < k THEN n ELSE n + 1
  <2>1. \A n \in DOMAIN r : at(n) \in DOMAIN q /\ r[n] = q[at(n)]
    BY <1>1, <1>2, <1>3
  <2>2. at(i) = at(j)
    BY <2>1, <1>5 DEF Enumerates
  <2> QED
    BY <2>2, <1>1, <1>3
<1> QED
  BY <1>2, <1>4, <1>5 DEF Enumerates, r

\* A sequence SetToSeqs chooses for a finite set lists that set.
LEMMA EnumeratesSetToSeqs ==
  ASSUME NEW S, IsFiniteSet(S), NEW q \in SetToSeqs(S)
  PROVE  q \in Seq(S) /\ Enumerates(q, S)
<1> DEFINE n == Cardinality(S)
<1>1. n \in Nat
  BY FS_CardinalityType
<1>2. q \in [1 .. n -> S] /\ \A i, j \in 1 .. n : i # j => q[i] # q[j]
  BY DEF SetToSeqs
<1>3. IsFiniteSet(1 .. n) /\ Cardinality(1 .. n) = n
  BY <1>1, FS_Interval
<1>4. q \in Injection(1 .. n, S)
  BY <1>2 DEF Injection, IsInjective
<1>5. q \in Surjection(1 .. n, S)
  BY <1>3, <1>4, FS_Injection
<1>6. \A x \in S : \E i \in 1 .. n : q[i] = x
  BY <1>5 DEF Surjection
<1> HIDE DEF n
<1>7. q \in Seq(S) /\ DOMAIN q = 1 .. n
  BY <1>1, <1>2
<1>8. ToSet(q) = S
  BY <1>2, <1>6, <1>7 DEF ToSet
<1> QED
  BY <1>2, <1>7, <1>8 DEF Enumerates

\* So does the sequence SetToSeq chooses.
LEMMA EnumeratesSetToSeq ==
  ASSUME NEW S, IsFiniteSet(S)
  PROVE  SetToSeq(S) \in Seq(S) /\ Enumerates(SetToSeq(S), S)
<1>1. PICK n \in Nat : ExistsBijection(1 .. n, S)
  BY FS_NatBijection
<1>2. Cardinality(S) = n
  BY <1>1, FS_CountingElements
<1>3. \E f \in [1 .. n -> S] : \A i, j \in 1 .. n : f[i] = f[j] => i = j
  BY <1>1 DEF ExistsBijection, Bijection, Injection, IsInjective
<1>4. \E f \in [1 .. Cardinality(S) -> S] : IsInjective(f)
  BY <1>2, <1>3 DEF IsInjective
<1>5. SetToSeq(S) \in SetToSeqs(S)
  BY <1>2, <1>4 DEF SetToSeq, SetToSeqs, IsInjective
<1> QED
  BY <1>5, EnumeratesSetToSeqs

\* push_back of several ids, none of them queued.
LEMMA EnumeratesConcat ==
  ASSUME NEW S, NEW q \in Seq(S), NEW Q, Enumerates(q, Q),
         NEW p \in Seq(S), NEW P, Enumerates(p, P), P \cap Q = {}
  PROVE  q \o p \in Seq(S) /\ Enumerates(q \o p, Q \cup P)
<1> DEFINE r == q \o p
<1>1. /\ Len(q) \in Nat /\ DOMAIN q = 1 .. Len(q)
      /\ Len(p) \in Nat /\ DOMAIN p = 1 .. Len(p)
  OBVIOUS
<1>2. /\ r \in Seq(S) /\ Len(r) = Len(q) + Len(p)
      /\ \A i \in 1 .. Len(r) : r[i] = IF i <= Len(q) THEN q[i] ELSE p[i - Len(q)]
  BY ConcatProperties
<1> HIDE DEF r
<1>3. DOMAIN r = 1 .. (Len(q) + Len(p))
  BY <1>2
<1>4. \A i \in DOMAIN r : IF i <= Len(q) THEN i \in DOMAIN q /\ r[i] = q[i]
                          ELSE i - Len(q) \in DOMAIN p /\ r[i] = p[i - Len(q)]
  BY <1>1, <1>2, <1>3
<1>5. ToSet(r) = Q \cup P
  <2>1. \A i \in DOMAIN r : r[i] \in Q \cup P
    BY <1>4 DEF Enumerates, ToSet
  <2>2. ASSUME NEW x \in Q PROVE \E i \in DOMAIN r : r[i] = x
    <3>1. PICK i \in DOMAIN q : q[i] = x
      BY DEF Enumerates, ToSet
    <3> QED
      BY <3>1, <1>1, <1>3, <1>4
  <2>3. ASSUME NEW x \in P PROVE \E i \in DOMAIN r : r[i] = x
    <3>1. PICK i \in DOMAIN p : p[i] = x
      BY DEF Enumerates, ToSet
    <3>2. /\ i + Len(q) \in DOMAIN r /\ ~(i + Len(q) <= Len(q))
          /\ (i + Len(q)) - Len(q) = i
      BY <1>1, <1>3
    <3>3. r[i + Len(q)] = p[(i + Len(q)) - Len(q)]
      BY <3>2, <1>4
    <3> QED
      BY <3>1, <3>2, <3>3
  <2> QED
    BY <2>1, <2>2, <2>3 DEF ToSet
<1>6. (\A n \in DOMAIN q : q[n] \in Q) /\ (\A n \in DOMAIN p : p[n] \in P)
  BY DEF Enumerates, ToSet
<1>7. ASSUME NEW i \in DOMAIN r, NEW j \in DOMAIN r, r[i] = r[j] PROVE i = j
  <2>1. CASE i <= Len(q) /\ j <= Len(q)
    BY <2>1, <1>4, <1>7 DEF Enumerates
  <2>2. CASE i <= Len(q) /\ ~(j <= Len(q))
    <3>1. r[i] \in Q /\ r[j] \in P
      BY <2>2, <1>4, <1>6
    <3> QED
      BY <3>1, <1>7
  <2>3. CASE ~(i <= Len(q)) /\ j <= Len(q)
    <3>1. r[i] \in P /\ r[j] \in Q
      BY <2>3, <1>4, <1>6
    <3> QED
      BY <3>1, <1>7
  <2>4. CASE ~(i <= Len(q)) /\ ~(j <= Len(q))
    <3>1. i - Len(q) = j - Len(q)
      BY <2>4, <1>4, <1>7 DEF Enumerates
    <3> QED
      BY <3>1, <1>1, <1>3
  <2> QED
    BY <2>1, <2>2, <2>3, <2>4
<1> QED
  BY <1>2, <1>5, <1>7 DEF Enumerates, r

-----------------------------------------------------------------------------
(* Numbers.                                                                *)

\* A set of numbers has a least member: induction, by way of the least
\* counterexample.
LEMMA LeastMember ==
  ASSUME NEW S \in SUBSET Nat, S # {}
  PROVE  \E n \in S : \A m \in S : n <= m
<1> DEFINE R == {p \in Nat \X Nat : p[1] < p[2]}
<1>1. IsWellFoundedOn(R, Nat)
  BY NatLessThanWellFounded DEF OpToRel
<1>2. \A m, n \in Nat : m < n => <<m, n>> \in R
  OBVIOUS
<1> HIDE DEF R
<1>3. PICK n \in S : \A m \in S : ~(<<m, n>> \in R)
  BY <1>1, WFMin
<1>4. ASSUME NEW m \in S  PROVE  n <= m
  <2>1. m \in Nat /\ n \in Nat
    OBVIOUS
  <2>2. ~(m < n)
    BY <1>2, <1>3, <2>1, Zenon
  <2> QED
    BY <2>1, <2>2
<1> QED
  BY <1>4

\* Quotient and remainder.
LEMMA DivMod ==
  ASSUME NEW g \in Nat \ {0}, NEW s \in Nat
  PROVE  /\ s = g * (s \div g) + (s % g)
         /\ s \div g \in Nat /\ s % g \in 0 .. (g - 1)
OBVIOUS

\* Multiples of g are at least g apart.
LEMMA MultiplesApart ==
  ASSUME NEW g \in Nat \ {0}, NEW p \in Nat, NEW q \in Nat, p < q
  PROVE  g * p + g <= g * q
OBVIOUS

\* The quotient is determined by any remainder that is in range.
LEMMA QuotientUnique ==
  ASSUME NEW g \in Nat \ {0}, NEW q \in Nat, NEW r \in 0 .. (g - 1),
         NEW p \in Nat, NEW x \in 0 .. (g - 1), g * q + r = g * p + x
  PROVE  p = q
<1>1. p < q => g * p + g <= g * q
  BY MultiplesApart
<1>2. q < p => g * q + g <= g * p
  BY MultiplesApart
<1> DEFINE a == g * p
           b == g * q
<1>3. a \in Nat /\ b \in Nat
  OBVIOUS
<1> HIDE DEF a, b
<1> QED
  BY <1>1, <1>2, <1>3 DEF a, b

\* A unit as far into its group as d units leave room for is in the same group.
LEMMA SameQuotient ==
  ASSUME NEW g \in Nat \ {0}, NEW s \in Nat, NEW d \in Nat, (s % g) + d < g
  PROVE  (s + d) \div g = s \div g
<1> DEFINE e == s + d
           q == s \div g
           r == s % g
           p == e \div g
           x == e % g
<1>1. e \in Nat
  OBVIOUS
<1>2. s = g * q + r /\ q \in Nat /\ r \in 0 .. (g - 1)
  BY DivMod
<1>3. e = g * p + x /\ p \in Nat /\ x \in 0 .. (g - 1)
  BY <1>1, DivMod
<1> HIDE DEF q, r, p, x
<1>4. g * q + (r + d) = g * p + x /\ r + d \in 0 .. (g - 1)
  BY <1>2, <1>3 DEF r
<1>5. p = q
  BY <1>2, <1>3, <1>4, QuotientUnique
<1> QED
  BY <1>5 DEF p, q

-----------------------------------------------------------------------------
(* Entries that are erased from a sequence.                                *)

\* Every place up to their number is the place of one of finitely many positions.
LEMMA RankHit ==
  ASSUME NEW K \in SUBSET Nat, IsFiniteSet(K)
  PROVE  /\ \A i \in K : Rank(i, K) \in 1 .. Cardinality(K)
         /\ \A i, j \in K : Rank(i, K) = Rank(j, K) => i = j
         /\ \A n \in 1 .. Cardinality(K) : \E i \in K : Rank(i, K) = n
<1> DEFINE Upto(i) == {j \in K : j <= i}
           c == Cardinality(K)
           r == [i \in K |-> Rank(i, K)]
<1>1. ASSUME NEW i \in K
      PROVE  /\ IsFiniteSet(Upto(i)) /\ i \in Upto(i) /\ Rank(i, K) = Cardinality(Upto(i))
             /\ Rank(i, K) \in 1 .. c
  <2>1. Upto(i) \in SUBSET K /\ i \in Upto(i)
    OBVIOUS
  <2>2. IsFiniteSet(Upto(i)) /\ Cardinality(Upto(i)) <= c
    BY <2>1, FS_Subset
  <2>3. c \in Nat /\ Cardinality(Upto(i)) \in Nat /\ Cardinality(Upto(i)) # 0
    BY <2>1, <2>2, FS_CardinalityType, FS_EmptySet
  <2> QED
    BY <2>1, <2>2, <2>3 DEF Rank
<1>2. ASSUME NEW i \in K, NEW j \in K, i < j  PROVE  Rank(i, K) # Rank(j, K)
  <2>1. Upto(i) \in SUBSET Upto(j) /\ j \notin Upto(i) /\ j \in Upto(j)
    <3>1. i \in Nat /\ j \in Nat /\ \A m \in K : m \in Nat
      OBVIOUS
    <3>2. \A m \in K : m <= i => m <= j
      BY <1>2, <3>1
    <3>3. j <= j /\ ~(j <= i)
      BY <1>2, <3>1
    <3> QED
      BY <3>2, <3>3
  <2>2. IsFiniteSet(Upto(j))
    BY <1>1
  <2>3. Cardinality(Upto(i)) # Cardinality(Upto(j))
    BY <2>1, <2>2, FS_Subset
  <2> QED
    BY <1>1, <2>3
<1>3. \A i, j \in K : Rank(i, K) = Rank(j, K) => i = j
  <2> SUFFICES ASSUME NEW i \in K, NEW j \in K, i # j  PROVE  Rank(i, K) # Rank(j, K)
    OBVIOUS
  <2>1. i < j \/ j < i
    OBVIOUS
  <2> QED
    BY <1>2, <2>1
<1>4. c \in Nat /\ IsFiniteSet(1 .. c) /\ Cardinality(1 .. c) = c
  BY FS_CardinalityType, FS_Interval
<1>5. r \in Injection(K, 1 .. c)
  BY <1>1, <1>3 DEF Injection, IsInjective
<1>6. r \in Surjection(K, 1 .. c)
  BY <1>4, <1>5, FS_Injection
<1>7. \A n \in 1 .. c : \E i \in K : Rank(i, K) = n
  BY <1>6 DEF Surjection
<1> QED
  BY <1>1, <1>3, <1>7

\* What is left are the entries that were not to go, and all of them.
LEMMA ErasedKeeps ==
  ASSUME NEW T, NEW s \in Seq(T), NEW S
  PROVE  /\ Erased(s, S) \in Seq(T) /\ Len(Erased(s, S)) <= Len(s)
         /\ \A n \in DOMAIN Erased(s, S) :
              Erased(s, S)[n] \notin S /\ \E i \in DOMAIN s : s[i] = Erased(s, S)[n]
         /\ \A i \in DOMAIN s :
              s[i] \notin S => \E n \in DOMAIN Erased(s, S) : Erased(s, S)[n] = s[i]
<1> DEFINE K == {i \in DOMAIN s : s[i] \notin S}
           c == Cardinality(K)
           pick == [n \in 1 .. c |-> CHOOSE i \in K : Rank(i, K) = n]
           e == [n \in 1 .. c |-> s[pick[n]]]
<1>1. DOMAIN s = 1 .. Len(s) /\ Len(s) \in Nat /\ K \in SUBSET DOMAIN s /\ K \in SUBSET Nat
  OBVIOUS
<1>2. IsFiniteSet(K) /\ c \in Nat /\ c <= Len(s)
  <2>1. IsFiniteSet(1 .. Len(s)) /\ Cardinality(1 .. Len(s)) = Len(s)
    <3> DEFINE n == Len(s)
    <3>1. n \in Nat /\ 1 \in Int /\ n \in Int
      BY <1>1
    <3> HIDE DEF n
    <3>2. IsFiniteSet(1 .. n) /\ Cardinality(1 .. n) = IF 1 > n THEN 0 ELSE n - 1 + 1
      BY <3>1, FS_Interval
    <3>3. Cardinality(1 .. n) = n
      BY <3>1, <3>2
    <3> QED
      BY <3>2, <3>3 DEF n
  <2>2. IsFiniteSet(K) /\ c <= Len(s)
    BY <1>1, <2>1, FS_Subset
  <2> QED
    BY <2>2, FS_CardinalityType
<1>3. /\ \A i \in K : Rank(i, K) \in 1 .. c
      /\ \A i, j \in K : Rank(i, K) = Rank(j, K) => i = j
      /\ \A n \in 1 .. c : \E i \in K : Rank(i, K) = n
  BY <1>1, <1>2, RankHit
<1>4. \A n \in 1 .. c : pick[n] \in K /\ Rank(pick[n], K) = n
  BY <1>3
<1>5. \A i \in K : pick[Rank(i, K)] = i
  BY <1>3, <1>4
<1> HIDE DEF pick, c
<1>6. /\ DOMAIN e = 1 .. c /\ e \in Seq(T) /\ Len(e) = c
      /\ \A n \in 1 .. c : e[n] = s[pick[n]]
  <2>1. ASSUME NEW n \in 1 .. c  PROVE  s[pick[n]] \in T
    <3>1. pick[n] \in DOMAIN s
      BY <1>4
    <3> QED
      BY <3>1
  <2> QED
    BY <1>2, <2>1
<1>7. \A n \in 1 .. c : e[n] \notin S /\ \E i \in DOMAIN s : s[i] = e[n]
  BY <1>1, <1>4, <1>6
<1>8. \A i \in DOMAIN s : s[i] \notin S => \E n \in 1 .. c : e[n] = s[i]
  BY <1>3, <1>5, <1>6
<1>9. K = DOMAIN s => Erased(s, S) = s
  BY DEF Erased
<1>10. K # DOMAIN s => Erased(s, S) = e
  BY DEF Erased, pick, c
<1> HIDE DEF e
<1>11. CASE K = DOMAIN s
  BY <1>1, <1>9, <1>11
<1>12. CASE K # DOMAIN s
  BY ZenonT(60), <1>2, <1>6, <1>7, <1>8, <1>10, <1>12
<1> QED
  BY <1>11, <1>12
=============================================================================
