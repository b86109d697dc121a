\* One request and one tick, either of which may crash; h2 deployed d1 long ago.
SPECIFICATION RSpec
CONSTANTS
  d1 = d1  d2 = d2  a = a  b = b  t = t  u = u  legacy = legacy  h1 = h1  h2 = h2
  Deployments = {d1}
  Scopes = {a, t, legacy}
  Batches = {}
  Settlement = {t}
  Reconcilers = {}
  Hashes = {h1, h2}
  Prepared = {}
  Reposted = {}
  Legacy = legacy
  LegacyHash <- MCLegacyHash
  Deployed = {d1}
  Obligations = {"finality", "deployment"}
INVARIANTS RetiredIsSettled RetiredLeavesNothingInFlight CutoffCoversSubmissions
CHECK_DEADLOCK FALSE
