SPECIFICATION Spec
CONSTANTS
  me = me
  bob = bob
  Names <- MCNames
  Ids <- MCIds
  NoName = NoName
  Uninit = Uninit
  NoPeer = NoPeer
  NoBytes = NoBytes
  Leftover = Leftover
  MaxLines = 2
INVARIANT
  RefusedOnlyIfLoggedIn
CHECK_DEADLOCK FALSE
