\* Two managers, one cluster with at most one node.
\* The managers come to rest when nobody changes anything, hence no deadlock check.
SPECIFICATION Spec
CONSTANTS
  c1 = c1
  n1 = n1
  None = None
  Clusters = {c1}
  NodesOf <- OneNode
  Resync = FALSE
  MaxChanges = 1
  MaxFaults = 1
  MaxTrouble = 1
INVARIANTS
  NoLostWakeup
  ReadyCoversNodes
  NoOrphanExternalMachine
PROPERTIES
  SecretNotClobbered
  KeepsInventory
  NodesStayCovered
  FailsForCause
CHECK_DEADLOCK FALSE
