CONSTANTS
  Master = Master
  Nobody = Nobody
  HelloIds = {1, 2}
  Ttl = 4
  SlaveMtu = 2
  MasterMtu = 1
  Ids = {i1, i2}
  MaxRetransmit = 1
  Span = 1
  Processing = 1
  Latency = 1
  MaxRestarts = 1
  WaitStart = 1
  WaitInc = 1
  WaitIncMax = 1
  WaitMax = 2
  RenewMin = 1
  MaxGap = 1
SPECIFICATION FairSpec
INVARIANTS LeaseBacked
PROPERTIES AssociationIsLease Reassociation
