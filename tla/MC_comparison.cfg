CONSTANTS
  Sign = 8
  Infinite = 6
  Scale <- MCScale
  AbsEps = 1
  RelEps = 2
  Payloads <- MCClaims
SPECIFICATION ValidatorSpec
INVARIANTS
  ComparesAsStated
CHECK_DEADLOCK FALSE
