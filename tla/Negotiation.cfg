\* Every pair of configurations with two dictionaries, a client of either version,
\* and a pending handshake that may expire under a repeated CONNECT.
CONSTANTS
  d1 = d1
  d2 = d2
  NoDict = NoDict
  Dictionaries = {d1, d2}
  Ciphers = {"aes", "chacha"}
  Versions = {1, 2}
  ProtocolVersion = 1
  MaxChallenges = 2
SPECIFICATION Spec
INVARIANTS
  FramingUnderstood
  SameConfigUnderstands
CHECK_DEADLOCK FALSE
