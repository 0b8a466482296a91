CONSTANTS
  Nib = 6
  Junk = 0
  Python = TRUE
  Threads = {t1, t2}
  Slaves = {s1}
  Names <- MCNames
  Methods = {"GET"}
  Ages = {1}
  NoAge = none
  DefaultAge = 1
  Mtu = 7
  Lifetime = 1
SPECIFICATION Spec
INVARIANTS OwnValue
SYMMETRY Alike
