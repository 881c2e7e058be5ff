CONSTANTS
  w1 = w1
  w2 = w2
  Workers = {w1, w2}
  Liars = {}
  NoWorker = NoWorker
  Answers = {"good"}
  Truth = "good"
  NoAnswer = "none"
  TotalUnits = 1
  Sizes = {1}
  GroupSize = 0
  LeaseTicks = 1
  Agreement = {1}
  MaxReplicas = 4
  Speculation = FALSE
  SpotChecks = FALSE
  MaxTasks = 1
SPECIFICATION DurableSpec
SYMMETRY Symmetry
INVARIANTS
  QueueHoldsExactlyTheQueued
