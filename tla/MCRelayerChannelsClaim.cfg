SPECIFICATION RCSpec
CONSTANTS
  c1 = c1
  c2 = c2
  c3 = c3
  Callers = {c1, c2}
  Slots <- OneSlot
  Relayer = Relayer
  None = None
  Kind <- DeployAndClaim
INVARIANT SequenceNotShared
CHECK_DEADLOCK FALSE
