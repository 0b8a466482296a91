CONSTANTS
  Slaves = {s1}
  Addrs = {a1}
  Slots = {m1, m2}
  Threads = {t1}
  None = None
  Ttl = 3
  HelloInterval = 2
  FirstHello = 1
  FirstTimeouts = {1}
  MaxRetransmit = 2
  Lifetime = 3
  SendFails = FALSE
  Punctual = TRUE
SPECIFICATION Spec
INVARIANTS TypeOK NoMessageForgotten WaitedMessageKept ExpiryOnTime
