SPECIFICATION RendererSpec
CONSTANTS
  camera = camera
  decoder = decoder
  Threads <- MCThreads
  Sizes <- MCSizes
  Rotations <- MCRotations
  Free = Free
INVARIANTS
  RendererTypeOK
  ImageFits
CHECK_DEADLOCK FALSE
