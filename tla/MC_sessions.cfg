CONSTANTS
  Conns = {1, 2}
  t1 = t1
  t2 = t2
  Tasks = {t1, t2}
  Families = {{t1, t2}}
  Nobody = 0
  Timeout = 1
  NoWorkAt = 1
  DisconnectAt = 2
  SignalWindow = 1
  MaxPeers = 1
  StallSweeps = 2
SPECIFICATION Spec
INVARIANTS
  KeptIsReachable
  RacesEnd
PROPERTIES
  RevokesPushed
  SilentHolderLosesLease
  StallReported
