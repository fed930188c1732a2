SPECIFICATION FairSpec
CONSTANTS
  h1 = h1
  h2 = h2
  m1 = m1
  m2 = m2
  c1 = c1
  c2 = c2
  a1 = a1
  s1 = s1
  Devices = {d1}
  Clients = {c1, c2}
  Target <- MCTargets
  Hosts = {h1, h2}
  Macs = {m1, m2}
  HostMac <- MCHostMac
  Servers = {s1}
  Addrs = {a1, a2}
  SharedLan = FALSE
  Lossy = FALSE
  Duplicating = FALSE
  Unsolicited <- MCNothing
  MaxQueue = 6
  None = None
PROPERTIES AddressObtained MacAnswered PingAnswered
CHECK_DEADLOCK FALSE
