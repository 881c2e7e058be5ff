------------------------------ MODULE Validator ------------------------------
(***************************************************************************)
(* Compare (validator.cpp): if two payloads for one range agree, under     *)
(* the Exact and the Tolerant determinism class.                           *)
(*                                                                         *)
(* A float is its bit pattern: a sign bit over a magnitude.  Magnitudes    *)
(* below Infinite are numbers, in the order of their values; Infinite is   *)
(* the infinity, and those above it are NaN.  Values are counted in the    *)
(* smallest subnormal.                                                     *)
(***************************************************************************)
EXTENDS Integers, Sequences, FiniteSets

CONSTANTS
  Sign,       \* the sign bit, 0x80000000
  Infinite,   \* the magnitude with every exponent bit set and no other
  Scale,      \* the value of each magnitude below that
  AbsEps,     \* KernelSpec::abs_eps, in the smallest subnormal
  RelEps,     \* KernelSpec::rel_eps, in eighths
  Payloads    \* bound: the payloads looked at, sequences of bit patterns and
              \* whether a torn element follows

UlpLimit == 2 * Sign - 1
Floats == 0 .. UlpLimit

ASSUME FormatAssumption ==
  /\ Sign \in Nat /\ Infinite \in Nat \ {0} /\ Infinite < Sign
  /\ Scale \in [0 .. (Infinite - 1) -> Nat] /\ Scale[0] = 0
  /\ \A m, n \in 0 .. (Infinite - 1) : m < n => Scale[m] < Scale[n]

ASSUME ValidatorAssumption ==
  /\ AbsEps \in Nat /\ RelEps \in Nat
  /\ Payloads \subseteq [elements : Seq(Floats), torn : BOOLEAN]

VARIABLE comparison   \* the payloads compared and the Comparison, or <<>>

validatorVars == <<comparison>>

-----------------------------------------------------------------------------
(* Floats.                                                                 *)

Magnitude(x) == IF x < Sign THEN x ELSE x - Sign
IsNan(x) == Magnitude(x) > Infinite
IsFinite(x) == Magnitude(x) < Infinite

\* The value of a finite float.
Value(x) == IF x < Sign THEN Scale[Magnitude(x)] ELSE -Scale[Magnitude(x)]

Distance(m, n) == IF m < n THEN n - m ELSE m - n

\* to_ordered: the pattern as a signed integer, mirrored below zero.
ToOrdered(x) == IF x < Sign THEN x ELSE Sign - (x - 2 * Sign)

UlpDistance(a, b) ==
  IF ~IsNan(a) /\ (a = b \/ (IsFinite(a) /\ IsFinite(b) /\ Value(a) = Value(b))) THEN 0
  ELSE IF ~IsFinite(a) \/ ~IsFinite(b) THEN UlpLimit
  ELSE LET d == Distance(ToOrdered(a), ToOrdered(b)) IN IF d > UlpLimit THEN UlpLimit ELSE d

\* abs_diff > allowed, as IEEE arithmetic has it: with b infinite both sides
\* are infinite or NaN, and with a infinite alone only the left one is.
Exceeds(a, b) ==
  /\ IsFinite(b)
  /\ IsFinite(a) => 8 * Distance(Value(a), Value(b))
                      > 8 * AbsEps + RelEps * Distance(Value(b), 0)

-----------------------------------------------------------------------------
(* Payloads.                                                               *)

\* Mutant of Differs: a NaN is left to the arithmetic.
DiffersUnguarded(a, b) == ~IsNan(a) /\ ~IsNan(b) /\ Exceeds(a, b)

\* One element of CompareTolerant.
Differs(a, b) == IF IsNan(a) \/ IsNan(b) THEN IsNan(a) # IsNan(b) ELSE Exceeds(a, b)

Judgement(differing) == IF differing = {} THEN "Match" ELSE "Mismatch"

CompareExact(a, b) ==
  Judgement({i \in DOMAIN a.elements : a.elements[i] # b.elements[i]})

CompareTolerant(a, b) ==
  IF a.torn THEN "Unsupported"
  ELSE Judgement({i \in DOMAIN a.elements : Differs(a.elements[i], b.elements[i])})

SameSize(a, b) == Len(a.elements) = Len(b.elements) /\ a.torn = b.torn

\* Length first, then nothing to disagree about, then the class.
Compare(class, a, b) ==
  IF ~SameSize(a, b) THEN "Mismatch"
  ELSE IF a.elements = <<>> /\ ~a.torn THEN "Match"
  ELSE IF class = "Exact" THEN CompareExact(a, b) ELSE CompareTolerant(a, b)

-----------------------------------------------------------------------------
ValidatorInit == comparison = <<>>

Compares(class, a, b) ==
  /\ comparison = <<>>
  /\ comparison' = [class |-> class, a |-> a, b |-> b, verdict |-> Compare(class, a, b)]

ValidatorNext ==
  \E class \in {"Exact", "Tolerant"}, a, b \in Payloads : Compares(class, a, b)

ValidatorSpec == ValidatorInit /\ [][ValidatorNext]_validatorVars

-----------------------------------------------------------------------------
(* Properties.                                                             *)

Matched == comparison # <<>> /\ comparison.verdict = "Match"

\* The elements at one place of the two payloads that were compared.
Pairs ==
  IF comparison = <<>> THEN {}
  ELSE {<<comparison.a.elements[i], comparison.b.elements[i]>> :
          i \in DOMAIN comparison.a.elements \cap DOMAIN comparison.b.elements}

\* The pairs UlpDistance is asked about: those of whole payloads of one size.
Measured ==
  IF comparison # <<>> /\ comparison.class = "Tolerant"
       /\ SameSize(comparison.a, comparison.b) /\ ~comparison.a.torn
    THEN {p \in Pairs : ~IsNan(p[1]) /\ ~IsNan(p[2])} ELSE {}

\* The representable values after the lower of two numbers, up to the higher.
Steps(x, y) ==
  {Value(z) : z \in {z \in Floats :
     IsFinite(z) /\ \/ Value(x) < Value(z) /\ Value(z) <= Value(y)
                    \/ Value(y) < Value(z) /\ Value(z) <= Value(x)}}

\* A quorum of one honest answer repeated is a quorum: a whole payload agrees
\* with itself under either class, also where it holds NaN or infinity.
SameAgrees ==
  comparison # <<>> /\ comparison.a = comparison.b /\ ~comparison.a.torn => Matched

\* A NaN on either side agrees with nothing but NaN, and an infinity on the left
\* with no number: "silently accepting the one output most likely to mean the
\* kernel broke" (validator.cpp:106-107).  Nothing is said of an infinity on the
\* right, which agrees with every number (InfinityEqualsNothingFinite).
NanNeverAgrees ==
  Matched => \A p \in Pairs : /\ IsNan(p[1]) <=> IsNan(p[2])
                              /\ IsFinite(p[2]) => IsFinite(p[1])

\* The ULPs between two numbers of one sign are the steps there are between
\* them.  Across zero they are not (UlpCountsAcrossZero).
UlpCountsSteps ==
  \A p \in Measured :
    IsFinite(p[1]) /\ IsFinite(p[2]) /\ (p[1] < Sign) = (p[2] < Sign)
      => UlpDistance(p[1], p[2]) = Cardinality(Steps(p[1], p[2]))

\* What holds of a comparison: a payload matches itself, NaN on either side and
\* infinity on the left match no number, and ULPs are right between numbers of
\* one sign.  ComparesAsStated is what the code's text adds, and fails.
ComparisonIsSound == SameAgrees /\ NanNeverAgrees /\ UlpCountsSteps

\* "infinity does not compare equal to a finite value"
\* (tests/unit/test_validator.cpp:173), on whichever side it stands.  With an
\* infinite right operand the allowance rel_eps * |b| is infinite as well and
\* nothing exceeds it (validator.cpp:133-135).
InfinityEqualsNothingFinite ==
  Matched => \A p \in Pairs : IsFinite(p[1]) <=> IsFinite(p[2])

\* "Mapped through a signed-magnitude ordering rather than handling only equal
\* signs" (validator.cpp:24-27): the ULPs between any two numbers are the steps
\* there are between them.  to_ordered puts the negatives above the positives.
UlpCountsAcrossZero ==
  \A p \in Measured :
    IsFinite(p[1]) /\ IsFinite(p[2])
      => UlpDistance(p[1], p[2]) = Cardinality(Steps(p[1], p[2]))

\* What the test and the comment say of any two payloads: infinity equals nothing
\* finite, and the distance counts steps whatever the signs.
ComparesAsStated == InfinityEqualsNothingFinite /\ UlpCountsAcrossZero
=============================================================================
