SPECIFICATION Spec
CONSTANTS
  Keys = {k1, k2}
  Secrets = {right, wrong}
  Calls = {c1, c2}
  None = None
INVARIANTS PlaintextIsTimed QuietIsComplete
