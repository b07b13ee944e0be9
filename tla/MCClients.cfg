SPECIFICATION MCClientsSpec
CONSTANTS
  s1 = s1
  s2 = s2
  ip1 = ip1
  ip2 = ip2
  ip3 = ip3
  p1 = p1
  p2 = p2
  m1 = m1
  NoIP = NoIP
  NoConn = NoConn
  NoDevice = NoDevice
  Nobody = Nobody
  Devices <- OneDevice
  Proxies <- TwoProxies
  Others <- OneOther
  IPs <- TwoIPs
  MaxConns = 6
  MaxRetries = 3
  MaxMishaps = 1
INVARIANT ClientsTypeOK
INVARIANT PoolOwnsConnections
PROPERTY EveryCallReturns
PROPERTY LoneCallerRecovers
