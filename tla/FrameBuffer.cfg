CONSTANTS
  Bodies <- MCBodies
  ByteWrap = 5
  MaxFrames = 3
SPECIFICATION Spec
CHECK_DEADLOCK FALSE
INVARIANTS
  TypeOK
  CutsAtFrameEnds
  BufferIsPartial
PROPERTY ImplementsFifo
