CONSTANTS
  Slaves = {s1, s2}
  Observed = {s1}
  Addrs = {a1, a2}
  Roaming = {s2}
  Home = a1
  Slots = {i1, i2}
  None = None
  Ttl = 1
  HelloInterval = 1
  AckTimeout = 1
  MaxRetransmit = 1
  Lifetime = 1
  MaxSerial = 0
  SendFails = FALSE
SPECIFICATION FairSpec
INVARIANTS TypeOK RunningIsTimed AddressesDistinct StopsAfterAnswer ObserversAsked
PROPERTIES RequestEnds
