SPECIFICATION FairSpec
CONSTANTS
  SeqSpace = 4
  WindowBits = 2
  Burst = 1
  MinSendInterval = 1
  IdleTimeout = 2
  MaxTestDuration = 1
  Grace = 1
  Endpoints = {alice, bob}
  Tokens <- TwoTokens
  TokenAttempts = 2
  Sequences = {0}
  Intervals = {0}
  MaxSessions = 2
  MaxTime = 5
PROPERTIES
  KeepsPromise
  IdleReclaimed
