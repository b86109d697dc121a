SPECIFICATION RCLiveSpec
CONSTANTS
  c1 = c1
  c2 = c2
  c3 = c3
  Callers = {c1, c2, c3}
  Slots <- TwoSlots
  Relayer = Relayer
  None = None
  Kind <- MixedKind
INVARIANTS ChannelExclusive SharedOnlyUntracked NoStrandedWaiter
PROPERTY CallsEnd
CHECK_DEADLOCK FALSE
