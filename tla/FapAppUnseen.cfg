SPECIFICATION Spec
CONSTANTS
  Claude = Claude
  OpenCode = OpenCode
  Agents <- MCAgents
  SolidAgents <- MCSolidAgents
  FAI_QUEUE_LEN = 2
  MaxFrames = 2
  MaxKeys = 1
  TornWrites = FALSE
INVARIANT DismissesWhatWasSeen
CHECK_DEADLOCK FALSE
