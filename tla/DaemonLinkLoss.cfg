\* Expected to fail: a lost link goes unnoticed until the next notification.
SPECIFICATION FairSpec
CONSTANTS
  BACKOFF_INITIAL = 1
  BACKOFF_MAX = 2
  FAILURES_BEFORE_RESTART = 3
  Agents = {claude}
  BridgeEnabled = TRUE
  MaxNotify = 1
  MaxRx = 0
PROPERTIES
  LinkLossNoticed
