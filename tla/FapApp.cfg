\* Safety and liveness of the application.
SPECIFICATION FairSpec
CONSTANTS
  Claude = Claude
  OpenCode = OpenCode
  Agents <- MCAgents
  SolidAgents <- MCSolidAgents
  FAI_QUEUE_LEN = 2
  MaxFrames = 2
  MaxKeys = 2
  TornWrites = TRUE
INVARIANTS
  TypeOK
  AppInv
  ScreenFresh
  DarkWhenIdle
  AckedOnce
PROPERTIES
  DisplayLatestWins
  EventuallyShown
CHECK_DEADLOCK FALSE
