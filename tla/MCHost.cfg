\* The socket file with two daemons, and pairing on many documents.
SPECIFICATION MCSpec
CONSTANTS
  Keys <- MCKeys
  Reads <- MCReads
  AgentNames = {"claude", "Claude", "codex"}
  StateNames = {"running", "NEEDS_INPUT"}
  Numerals = {"0"}
  Values = {"", "user", "mac1", "mac2"}
  Docs <- MCDocs
  Devices <- MCDevices
  Daemons = {d1, d2}
  Clients = {c1, c2}
INVARIANTS
  SocketTypeOK
  AloneReachable
  ConnectedToLiving
  PairTwice
PROPERTIES
  StartsAlone
  PairKeepsSettings
  LineTaken
