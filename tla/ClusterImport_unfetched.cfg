\* One import from qbert that may fail to fetch a kubeconfig.
\* In the end every invocation is over, hence no deadlock check.
SPECIFICATION Spec
CONSTANTS
  s1 = s1
  s2 = s2
  s3 = s3
  m1 = m1
  m2 = m2
  r1 = r1
  r2 = r2
  None = None
  Runs = {q}
  Qbert = {q}
  Sources = {s1, s2, s3}
  Names = {m1, m2}
  NameOf <- TwoAlike
  MaxFaults = 1
INVARIANTS
  NotRegisteredWithoutKubeconfig
CHECK_DEADLOCK FALSE
