\* The only node of one cluster; nothing fails, nobody changes anything, no resync.
\* When the Cluster is gone nothing is left to do, hence no deadlock check.
SPECIFICATION MCSpec
CONSTANTS
  None = None
  Nodes = {"n1"}
  Resync = FALSE
  MaxChanges = 0
  MaxFaults = 0
  MaxTrouble = 0
PROPERTIES
  NodesBecomeReadyByEvents
CHECK_DEADLOCK FALSE
