\* Requests that may crash, and two reconciler ticks that may crash too.
SPECIFICATION SWLiveSpec
CONSTANTS
  d1 = d1  d2 = d2  a = a  b = b  r1 = r1  r2 = r2  h1 = h1  h2 = h2
  Deployments = {d1}
  Scopes = {a, r1, r2}
  Batches = {}
  Settlement = {}
  Reconcilers = {r1, r2}
  Hashes = {h1}
  Prepared = {}
  Reposted = {}
PROPERTY PendingIsProjected
CHECK_DEADLOCK FALSE
