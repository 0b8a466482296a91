CONSTANTS
  Masters = {m1, m2}
  Nobody = Nobody
  HelloIds = {1, 2}
  Ttls = {2, 7}
  Mtus = {0, 4}
  DefMtu = 3
  Observables = {r, q}
  NoDereg = {q}
  Tokens = {t}
  WaitStart = 2
  WaitInc = 2
  WaitIncMax = 5
  WaitMax = 7
  RenewMin = 1
  MaxGap = 1
  MaxSerial = 3
SPECIFICATION FairSpec
INVARIANTS TypeOK AddresseeKnown LeaseHeld TimerRunning NoDiscoverBurst
PROPERTIES KeepsLooking LeaseNeedsAssoc
