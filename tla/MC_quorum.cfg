CONSTANTS
  w1 = w1
  w2 = w2
  w3 = w3
  l1 = l1
  l2 = l2
  Workers = {w1, w2, w3, l1, l2}
  Liars = {l1, l2}
  NoWorker = NoWorker
  Answers = {"good", "bad"}
  Truth = "good"
  NoAnswer = "none"
  TotalUnits = 2
  Sizes = {1}
  GroupSize = 0
  LeaseTicks = 1
  Agreement = {3}
  MaxReplicas = 4
  Speculation = FALSE
  SpotChecks = FALSE
  MaxTasks = 2
SPECIFICATION Spec
SYMMETRY Symmetry
INVARIANTS
  NoSelfAgreement
  NoWrongAnswerAccepted
  HonestNeverCharged
  PayloadIsValidated
