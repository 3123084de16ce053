\* Expected to fail: a call that was started before overtakes.
SPECIFICATION Spec
CONSTANTS
  MaxCalls = 3
PROPERTIES
  DoneNotOverridden
