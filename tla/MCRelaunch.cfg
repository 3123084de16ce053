\* Expected to fail: the failure count is never reset.
SPECIFICATION HistorySpec
CONSTANTS
  BACKOFF_INITIAL = 1
  BACKOFF_MAX = 30
  FAILURES_BEFORE_RESTART = 3
  Agents = {claude}
  BridgeEnabled = TRUE
  MaxNotify = 2
  MaxRx = 0
INVARIANTS
  ExitsOnlyAfterConsecutiveFailures
