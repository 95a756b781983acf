SPECIFICATION FairSpec
CONSTANTS
  MaxSpins = 3
  MaxRetries = 3
  MaxCalls = 3
INVARIANTS MailboxInv AnswerIsOurs StatusIsVerdict
PROPERTIES CallReturns
CHECK_DEADLOCK FALSE
