----------------------------- MODULE MCValidator -----------------------------
(***************************************************************************)
(* Instances of Validator for TLC: floats with one sign bit, two bits of   *)
(* exponent and one of mantissa.                                           *)
(***************************************************************************)
EXTENDS Validator

\* Steps of one up to 4, then of two.
MCScale == [m \in 0 .. (Infinite - 1) |-> IF m <= 4 THEN m ELSE 2 * m - 4]

\* Every float alone, whole and torn, and pairs of numbers, NaN and infinity.
MCPayloads ==
  {[elements |-> s, torn |-> FALSE] :
     s \in {<<>>} \cup {<<x>> : x \in Floats} \cup {<<x, y>> : x, y \in {1, 2, 6, 7}}}
    \cup {[elements |-> <<x>>, torn |-> TRUE] : x \in {1, 2}}

\* The smallest negative number and the smallest positive one; zero and infinity.
MCClaims ==
  {[elements |-> s, torn |-> FALSE] : s \in {<<Sign + 1, 1>>, <<0, Infinite>>}}
=============================================================================
