SPECIFICATION FairSpec
CONSTANTS
  Cpus = {c1, c2}
  Slow = {}
  MaxTickets = 3
PROPERTY EveryTicketServed
CHECK_DEADLOCK FALSE
