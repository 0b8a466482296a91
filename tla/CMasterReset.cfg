CONSTANTS
  Slaves = {s1}
  Addrs = {a1}
  Slots = {m1, m2}
  Threads = {}
  None = None
  Ttl = 4
  HelloInterval = 3
  FirstHello = 1
  FirstTimeouts = {1}
  MaxRetransmit = 3
  Lifetime = 5
  SendFails = FALSE
  Punctual = TRUE
SPECIFICATION Spec
INVARIANTS RetransmissionHasAddress
