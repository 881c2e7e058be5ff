CONSTANTS
  w1 = w1
  w2 = w2
  w3 = w3
  l1 = l1
  Workers = {w1, w2, w3, l1}
  Liars = {l1}
  NoWorker = NoWorker
  Answers = {"good", "bad"}
  Truth = "good"
  NoAnswer = "none"
  TotalUnits = 1
  Sizes = {1}
  GroupSize = 0
  LeaseTicks = 1
  Agreement = {1, 2}
  MaxReplicas = 4
  Speculation = FALSE
  SpotChecks = FALSE
  MaxTasks = 1
SPECIFICATION Spec
SYMMETRY Symmetry
INVARIANTS
  PayloadIsValidated
