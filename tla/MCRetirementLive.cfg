\* One request that may crash, a tick that may crash, a legacy hash, and a prepared transaction
\* that its signer may broadcast at any time.
SPECIFICATION RLiveSpec
CONSTANTS
  d1 = d1  d2 = d2  a = a  b = b  t = t  u = u  legacy = legacy  h1 = h1  h2 = h2
  Deployments = {d1}
  Scopes = {a, t, legacy}
  Batches = {}
  Settlement = {t}
  Reconcilers = {}
  Hashes = {h1, h2}
  Prepared <- MCPrepared
  Reposted = {}
  Legacy = legacy
  LegacyHash <- MCLegacyHash
  Deployed = {d1}
  Obligations = {"claim"}
PROPERTY RetirementCompletes
CHECK_DEADLOCK FALSE
