SPECIFICATION Spec
CONSTANTS
  None = None
  a1 = a1
  b1 = b1
  A = A
  B = B
  Tasks = {a1, b1}
  Assets = {A, B}
  Needs <- MCNeeds
  Chunks = 2
  Batch = 1
  MaxAttempts = 1
  MaxPeers = 1
  MaxDown = 2
INVARIANTS
  RunsWithInputs
