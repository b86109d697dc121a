\* Two requests post the same wallet-signed envelope.
SPECIFICATION SWSpec
CONSTANTS
  d1 = d1  d2 = d2  a = a  b = b  r1 = r1  r2 = r2  h1 = h1  h2 = h2
  Deployments = {d1}
  Scopes = {a, b}
  Batches = {}
  Settlement = {}
  Reconcilers = {}
  Hashes = {h1}
  Prepared = {}
  Reposted = {h1}
INVARIANT RepostedTracked
CHECK_DEADLOCK FALSE
