\* Safety, refinement and liveness of both paths through the daemon.
SPECIFICATION FairSpec
CONSTANTS
  BACKOFF_INITIAL = 1
  BACKOFF_MAX = 2
  FAILURES_BEFORE_RESTART = 3
  Agents = {claude, codex}
  BridgeEnabled = TRUE
  MaxNotify = 2
  MaxRx = 2
INVARIANTS
  TypeOK
  LatestHeld
  IInv
  RetryBounds
  ClearsFollowAcks
PROPERTIES
  WriteStartsWithNewest
  ImplementsLatestWins
  EventuallyDelivered
  EventuallyCleared
  ColdStartKeepsRetrying
