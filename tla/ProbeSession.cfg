SPECIFICATION FairSpec
CONSTANTS
  SeqSpace = 4
  MaxPending = 3
  ProbeTimeout = 1
  ReplyAge = 4
  StampAge = 4
  MaxSendTime = 1
  MaxSends = 5
  MaxFailures = 1
  MaxTime = 2
INVARIANTS
  StoresApart
  ListsAccount
  AnswersBelong
PROPERTIES
  LateIffOvertaken
  VerdictsRefine
  ProbesResolved
CHECK_DEADLOCK FALSE
