\* A reader, Proc and an application over small channels.
CONSTANTS
  InCap = 2
  In2Cap = 1
  MaxFrames = 5
  MaxWork = 2
SPECIFICATION FairSpec
INVARIANTS FramesInOrder TurnConsumesFrame
PROPERTY FrameHandled
CHECK_DEADLOCK FALSE
