CONSTANTS
  Clients = {c1, c2, c3}
  MaxFds = 3
  Backlog = 1
  MaxData = 1
  CbSizes = {16}
  None = None
SPECIFICATION Spec
INVARIANTS CallbacksFit
