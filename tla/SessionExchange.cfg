SPECIFICATION Spec
CONSTANTS
  LimbBits = 3
  IntBits = 7
  MaxFillBytes = 5
  MaxDscp = 3
  MaxLength = 45
  MaxKernelRxLag = 4
  Cases <- MCCases
  Tokens = {1}
  MinRecvBuffer = 16
INVARIANTS
  ComesToTerms
  SidesAgree
  RepliesServeTheClient
  TimingCausal
CHECK_DEADLOCK FALSE
