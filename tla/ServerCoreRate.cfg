SPECIFICATION RSpec
CONSTANTS
  SeqSpace = 8
  WindowBits = 4
  Displacement = 4
  MaxPosition = 11
  Burst = 2
  MinSendInterval = 5
  IdleTimeout = 8
  MaxTestDuration = 4
  Grace = 1
  Endpoints = {alice}
  Tokens <- TwoTokens
  TokenAttempts = 1
  Sequences = {0, 1}
  Intervals = {1}
  MaxSessions = 1
  MaxTime = 18
INVARIANTS
  PacedNeverLimited
  NoPhantomReceipts
  CompleteUntilReset
PROPERTIES
  KeepsPromise
