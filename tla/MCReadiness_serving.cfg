\* The control plane of one cluster, or its only node; one change, nothing fails.
\* When the Cluster is gone nothing is left to do, hence no deadlock check.
SPECIFICATION MCSpec
CONSTANTS
  None = None
  Nodes = {"n1"}
  Resync = FALSE
  MaxChanges = 1
  MaxFaults = 0
  MaxTrouble = 1
PROPERTIES
  CpReadyMeansServing
CHECK_DEADLOCK FALSE
