SPECIFICATION RendererSpec
CONSTANTS
  camera = camera
  decoder = decoder
  Threads <- OneThread
  Sizes <- MCSizes
  Rotations <- MCRotations
  Free = Free
PROPERTY
  EveryFrameRendered
CHECK_DEADLOCK FALSE
