CONSTANTS
  Nib = 6
  Junk = 0
  Python = FALSE
  Threads = {t1, t2}
  Slaves = {s1}
  Names <- MCNames
  Methods = {"GET"}
  Ages = {1}
  NoAge = none
  DefaultAge = 1
  Mtu = 7
  Lifetime = 1
SPECIFICATION Spec
INVARIANTS ReadAsWritten SizeIsExact OwnValue Fresh OneEntryEach
SYMMETRY Alike
