\* The control plane of one cluster, or its only node, with resyncs.
\* When the Cluster is gone nothing is left to do, hence no deadlock check.
SPECIFICATION MCSpec
CONSTANTS
  None = None
  Nodes = {"n1"}
  Resync = TRUE
  MaxChanges = 3
  MaxFaults = 2
  MaxTrouble = 2
INVARIANTS
  TypeOK
  CpNoLostWakeup
PROPERTIES
  ReadyMeansAdopted
  CpEventuallyReady
  NodesBecomeReady
  PausedIsLeftAlone
CHECK_DEADLOCK FALSE
