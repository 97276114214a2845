SPECIFICATION FairSpec
CONSTANTS
  Own = {c1, c2}
  New = new
  Foreign = foreign
  Skipped = skipped
  Info = info
  None = none
  MaxList = 3
INVARIANTS
  PresenceFirst
  CancelStopsWork
  NothingLeft
PROPERTIES
  CommandEnds
  ImplementsAuthenticator
