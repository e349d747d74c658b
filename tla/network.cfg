SPECIFICATION Spec
CONSTANTS
  t1 = t1
  t2 = t2
  t3 = t3
  h1 = h1
  h2 = h2
  h3 = h3
  v1 = v1
  Tasks = {t1, t2, t3}
  Addrs = {a1, a2}
  HostPorts = {h1, h2, h3}
  VMPorts = {v1}
  Ports <- MCPorts
  None = None
  Down = Down
  MaxBoots = 4
  MaxFaults = 1
INVARIANTS
  TypeOK
  ForwardsLeadToVM
  ForwardsAreAccepted
  AddressesAreOwn
  NothingIsOrphaned
