SPECIFICATION Spec
CONSTANTS
  Roots = {k1, k2}
  ForeignRoot = foreign
  NoRoot = none
  Rps = {rp1, rp2}
  Scalars = {s1, s2}
  Nothing = nothing
INVARIANTS
  CredsOpenable
  OpenSound
  MismatchHonest
  BuffersCleared
PROPERTIES
  RootPermanent
  ImplementsVault
