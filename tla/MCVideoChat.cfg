SPECIFICATION Spec
CONSTANTS
  me = me
  bob = bob
  Names <- MCNames
  Ids <- MCIds
  NoName = NoName
  Uninit = Uninit
  NoPeer = NoPeer
  NoBytes = NoBytes
  Leftover = Leftover
  MaxLines = 2
INVARIANTS
  TypeOK
  RequestsCarryAssignedId
  SessionStartedOnce
  PeersTruthful
  ArmedUnlessCalling
  UndefinedOnlyBeforeSignIn
PROPERTY
  AnsweredWaitIsRepeated
CHECK_DEADLOCK FALSE
