SPECIFICATION ProxySpec
CONSTANTS
  None = None
  Direct = Direct
  x = x
  y = y
  f1 = f1
  f2 = f2
  Proxies <- MCProxies
  BadURLs = {}
  ProxyAttempts = 2
  HedgeInitial = 2
  ProxyCooldown = 1
  Fetches = {f1, f2}
  MaxProxyTime = 1
INVARIANTS
  RefusedOnlyIfUnavailable
