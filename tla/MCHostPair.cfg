\* Expected to fail: pair makes strings of the lists of the README.
SPECIFICATION Spec
CONSTANTS
  Keys <- MCKeys
  Reads <- MCReads
  AgentNames = {"claude", "Claude", "codex"}
  StateNames = {"running", "NEEDS_INPUT"}
  Numerals = {"0"}
  Values = {"", "user", "mac1", "mac2"}
  Docs <- ReadmeDocs
  Devices <- MCDevices
  Daemons = {d1}
  Clients = {c1}
PROPERTIES
  PairNeverBreaksDaemon
