SPECIFICATION Spec
CONSTANTS
  Parts = {"vault"}
  IPv6Port = "22"
  MaxHostCalls = 2
  HostTexts <- MCHostTexts
  HostKeys = {"A", "B"}
  MaxAnswers = 2
  HostFiles <- MCHostFiles
  MaxRestarts = 1
  PatternLen = 4
  MaxCfgCallers = 2
  ProfileIDs = {p1}
  MaxEdits = 2
  MaxCrashes = 1
  MaxRingIDs = 2
  MaxRingCallers = 2
  MaxRingRestarts = 1
  VaultIDs = {i1, i2}
  Passphrases = {x, y}
  NoPassphrase = none
  MaxSalts = 3
  MaxFlushes = 1
INVARIANT PassphraseOpensAll
CHECK_DEADLOCK FALSE
