\* One cluster with up to two nodes.
\* The manager comes to rest when nobody changes anything, hence no deadlock check.
SPECIFICATION Spec
CONSTANTS
  c1 = c1
  c2 = c2
  n1 = n1
  n2 = n2
  None = None
  Clusters = {c1}
  NodesOf <- TwoNodes
  Resync = TRUE
  MaxChanges = 2
  MaxFaults = 1
SYMMETRY Nodes12
INVARIANTS
  TypeOK
  NoLostWakeup
  ReadyCoversNodes
  NoOrphanExternalMachine
PROPERTIES
  SecretNotClobbered
  KeepsInventory
  ReconcileEnds
  FailsForCause
CHECK_DEADLOCK FALSE
