\* A single-deployment scope and a TTL batch, two deployments, one of them a
\* template instance with a prepared transaction.
SPECIFICATION SWSpec
CONSTANTS
  d1 = d1  d2 = d2  a = a  b = b  r1 = r1  r2 = r2  h1 = h1  h2 = h2
  Deployments = {d1, d2}
  Scopes = {a, b}
  Batches = {b}
  Settlement = {}
  Reconcilers = {}
  Hashes = {h1, h2}
  Prepared <- MCPrepared
  Reposted = {}
INVARIANTS RecordedBeforeWire FinalityIsLedgers SingleUseTracked OpaqueStaysOpen
PROPERTY ClosedWorkStaysClosed
\* The service may stop: nobody has to send another request.
CHECK_DEADLOCK FALSE
