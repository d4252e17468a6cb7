\* Two clusters with a node of the same name.
\* The manager comes to rest when nobody changes anything, hence no deadlock check.
SPECIFICATION Spec
CONSTANTS
  c1 = c1
  c2 = c2
  n1 = n1
  n2 = n2
  None = None
  Clusters = {c1, c2}
  NodesOf <- Shared
  Resync = FALSE
  MaxChanges = 0
  MaxFaults = 0
INVARIANTS
  ReadyCoversNodes
CHECK_DEADLOCK FALSE
