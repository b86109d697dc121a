\* Two processes, requests or runs of the cron, work on two controls of one lane, which
\* may have one key or none, and all of history may land or lapse.
SPECIFICATION CISpec
CONSTANTS
  Procs = {p, q}
  Keys = {k}
  NoKey = nokey
  MaxIntents = 2
  Validity = 1
  LastLedger = 4
SYMMETRY ProcSymmetry
INVARIANTS ControlFinalityIsLedgers OneControlAtATime KeyHasOneAnswer EvidenceIsFound
PROPERTY LaneIsKept
CHECK_DEADLOCK FALSE
