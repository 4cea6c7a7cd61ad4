\* One client more than the server has descriptors, room for one to wait, a kill
CONSTANTS
  Clients = {c1, c2, c3}
  MaxFds = 2
  Backlog = 0
  MaxKill = 1
  None = None
SPECIFICATION FairSpec
INVARIANTS NoOops
PROPERTIES OnlyGoneAreDropped Served EchoRefined
