SPECIFICATION AppSpec
CONSTANTS
  me = me
  bob = bob
  Names <- MCNames
  Ids <- MCIds
  NoName = NoName
  Uninit = Uninit
  NoPeer = NoPeer
  NoBytes = NoBytes
  Leftover = Leftover
  MaxLines = 1
INVARIANTS
  AppTypeOK
  BackendFreshAtLogin
  HangsOnlyWithoutThread
  UndefinedNeedsFactory
  CameraHasSender
PROPERTIES
  StopsEndUnlessCertLost
  SignInAnswerIsRead
CHECK_DEADLOCK FALSE
