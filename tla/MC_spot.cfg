CONSTANTS
  w1 = w1
  w2 = w2
  w3 = w3
  l1 = l1
  Workers = {w1, w2, w3, l1}
  Liars = {l1}
  NoWorker = NoWorker
  Answers = {"good", "bad"}
  Truth = "good"
  NoAnswer = "none"
  TotalUnits = 3
  Sizes = {1, 2}
  GroupSize = 2
  LeaseTicks = 1
  Agreement = {1, 2}
  MaxReplicas = 3
  Speculation = FALSE
  SpotChecks = TRUE
  MaxTasks = 3
SPECIFICATION Spec
SYMMETRY Symmetry
INVARIANTS
  KnownAnswersAreTrue
  CarvingIsExact
