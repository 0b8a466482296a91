CONSTANTS
  Slaves = {s1, s2}
  Addrs = {a1, a2}
  Slots = {m1}
  Threads = {t1}
  None = None
  Ttl = 2
  HelloInterval = 2
  FirstHello = 1
  FirstTimeouts = {1}
  MaxRetransmit = 2
  Lifetime = 4
  SendFails = TRUE
  Punctual = FALSE
SPECIFICATION FairSpec
INVARIANTS BoundedTransmissions AddressesDistinct
PROPERTIES RequestEnds OldMessageExpires
