SPECIFICATION FairSpec
CONSTANTS
  Requests = {r1, r2}
  None = None
  Addrs = {a1}
  Matches <- MCMatches
  MaxEvents = 0
PROPERTIES
  RequestsEnd
  PollerStops
  AddressesArrive
