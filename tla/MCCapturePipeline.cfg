SPECIFICATION Spec
CONSTANTS
  camera = camera
  encoder1 = encoder1
  encoder2 = encoder2
  Threads <- MCThreads
  Sizes <- MCSizes
  Rotations <- MCRotations
  Free = Free
  Camera = camera
  Encoders <- MCEncoders
  View = View
  NumDevices = 2
  Full <- MCFull
  Limits <- MCLimits
  NoLimit = 32
  Unregistered = Unregistered
INVARIANTS
  TypeOK
  NoFrameToDestroyedEncoder
  AdapterFollowsSinks
  FrameWithinWants
  QuietAfterDestroy
PROPERTY
  DestroyReturnsUnlessRepeated
CHECK_DEADLOCK FALSE
