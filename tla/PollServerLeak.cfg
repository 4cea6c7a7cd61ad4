CONSTANTS
  Clients = {c1, c2, c3}
  MaxFds = 2
  Backlog = 1
  MaxKill = 0
  None = None
SPECIFICATION FairSpec
PROPERTIES EveryoneServed
