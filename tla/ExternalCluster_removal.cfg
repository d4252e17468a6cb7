\* One cluster.
\* The manager comes to rest when nobody changes anything, hence no deadlock check.
SPECIFICATION Spec
CONSTANTS
  c1 = c1
  c2 = c2
  n1 = n1
  n2 = n2
  None = None
  Clusters = {c1}
  NodesOf <- OneNode
  Resync = TRUE
  MaxChanges = 1
  MaxFaults = 0
INVARIANTS
  CleanedUpBeforeRemoval
CHECK_DEADLOCK FALSE
