\* A batch, and two ticks at work on one deployment at once, the owner's and the cron's,
\* which may ask nodes for the latest ledger that lag one another.
SPECIFICATION RSpec
CONSTANTS
  d1 = d1  d2 = d2  a = a  b = b  t = t  u = u  legacy = legacy  h1 = h1  h2 = h2
  Deployments = {d1}
  Scopes = {b, t, u, legacy}
  Batches = {b}
  Settlement = {t, u}
  Reconcilers = {}
  Hashes = {h2}
  Prepared = {}
  Reposted = {}
  Legacy = legacy
  LegacyHash = {}
  Deployed = {d1}
  Obligations = {}
SYMMETRY TickSymmetry
PROPERTIES RetirementIsIrrevocable DrainSpec
CHECK_DEADLOCK FALSE
