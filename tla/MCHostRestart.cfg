\* Expected to fail: a daemon that stops takes the socket of another.
SPECIFICATION CalmSpec
CONSTANTS
  Keys <- MCKeys
  Reads <- MCReads
  AgentNames = {"claude", "Claude", "codex"}
  StateNames = {"running", "NEEDS_INPUT"}
  Numerals = {"0"}
  Values = {"", "user", "mac1", "mac2"}
  Docs <- ReadmeDocs
  Devices <- MCDevices
  Daemons = {d1, d2}
  Clients = {c1}
INVARIANTS
  ServingMeansUp
