CONSTANTS
  w1 = w1
  w2 = w2
  Workers = {w1, w2}
  Liars = {}
  NoWorker = NoWorker
  Answers = {"good"}
  Truth = "good"
  NoAnswer = "none"
  TotalUnits = 20
  Sizes = {1, 19}
  GroupSize = 0
  LeaseTicks = 1
  Agreement = {1}
  MaxReplicas = 4
  Speculation = TRUE
  SpotChecks = FALSE
  MaxTasks = 4
SPECIFICATION Spec
PROPERTIES
  FinishedRangeStaysFinished
