SPECIFICATION Spec
CONSTANTS
  Slots = {k1, k2, k3}
  None = none
INVARIANTS
  OkMeansReleased
  LeftOnlyIfRefused
  VerdictKept
  NothingWithoutOk
