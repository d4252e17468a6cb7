\* One cluster, no resync: only events wake the controller.
\* The manager comes to rest when nobody changes anything, hence no deadlock check.
SPECIFICATION Spec
CONSTANTS
  c1 = c1
  c2 = c2
  n1 = n1
  n2 = n2
  None = None
  Clusters = {c1}
  NodesOf <- OneNode
  Resync = FALSE
  MaxChanges = 2
  MaxFaults = 1
PROPERTIES
  RestsWhenDone
  EventuallyReady
  ComesToRest
  PausedIsLeftAlone
CHECK_DEADLOCK FALSE
