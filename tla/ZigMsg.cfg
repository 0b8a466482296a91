CONSTANTS
  Size = 4
  Frames = {f1, f2, f3}
  None = None
  MaxSends = 1
SPECIFICATION FairSpec
INVARIANTS TypeOK FrameKept Listening
PROPERTIES BufferIsQueue FrameProcessed
