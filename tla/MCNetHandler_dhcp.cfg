SPECIFICATION Spec
CONSTANTS
  h1 = h1
  h2 = h2
  m1 = m1
  m2 = m2
  c1 = c1
  c2 = c2
  a1 = a1
  s1 = s1
  Devices = {d1, d2}
  Clients = {}
  Target <- MCNoTarget
  Hosts = {h1, h2}
  Macs = {m1, m2}
  HostMac <- MCHostMac
  Servers = {s1, s2}
  Addrs = {a1, a2}
  SharedLan = FALSE
  Lossy = TRUE
  Duplicating = TRUE
  Unsolicited <- MCUnsolicited
  MaxQueue = 2
  None = None
INVARIANTS LeaseHeld DhcpConsistent
PROPERTY DhcpOnward
CHECK_DEADLOCK FALSE
